--------------------------- MODULE FramingProofs ---------------------------
(***************************************************************************)
(* Proofs about RingBuffer, Packet and Framing, for every size of the ring *)
(* and of a packet, all messages, keys and pieces in which the network     *)
(* delivers them: the ring loses no cell, what is posted is its free part, *)
(* Decode undoes Encode, and OnRecv gets what was sent, without the        *)
(* messages that have a wrong code or another last byte.                   *)
(***************************************************************************)
EXTENDS Framing, SequenceTheorems, WellFoundedInduction, TLAPS

-----------------------------------------------------------------------------
(* Induction, and the recursive functions of Packet and Framing *)

\* Induction over the natural numbers, with a set for the induction hypothesis
LEMMA Induction ==
  ASSUME NEW S, 0 \in S, \A n \in Nat : n \in S => n + 1 \in S
  PROVE  \A n \in Nat : n \in S
<1> DEFINE R == OpToRel(<, Nat)
           T == Nat \ S
<1>1. IsWellFoundedOn(R, Nat)
  BY NatLessThanWellFounded
<1>2. \A x, y \in Nat : x < y => <<x, y>> \in R
  BY DEF OpToRel
<1> HIDE DEF R
<1>3. SUFFICES ASSUME T # {} PROVE FALSE
  OBVIOUS
<1>4. PICK x \in T : \A y \in T : ~(<<y, x>> \in R)
  BY <1>1, <1>3, WFMin
<1>5. x \in Nat /\ x # 0
  OBVIOUS
<1>6. x - 1 \in Nat /\ x - 1 < x /\ (x - 1) + 1 = x
  BY <1>5
<1>7. x - 1 \in S
  BY <1>2, <1>4, <1>5, <1>6
<1> QED BY <1>4, <1>5, <1>6, <1>7

\* A byte stays one through % and ByteXor, and ByteXor is undone by itself.
LEMMA Bytes ==
  /\ BYTE \in Nat /\ BYTE > 0 /\ 0 \in Byte /\ PACKET_CODE \in Byte /\ FIXED_KEY \in Byte
  /\ Byte \subseteq Nat
  /\ \A a, b \in Nat : (a + b) % BYTE \in Byte
  /\ \A a, b \in Byte : ByteXor[a][b] \in Byte /\ ByteXor[ByteXor[a][b]][b] = a
<1>1. BYTE \in Nat /\ BYTE > 0 /\ 0 \in Byte /\ PACKET_CODE \in Byte /\ FIXED_KEY \in Byte
      /\ Byte \subseteq Nat
  BY ByteAssumption DEF Byte
<1>2. \A a, b \in Nat : (a + b) % BYTE \in Byte
  BY <1>1 DEF Byte
<1> QED BY <1>1, <1>2, XorAssumption

\* The xor of two bytes is one.
LEMMA XorByte == ASSUME NEW a \in Byte, NEW b \in Byte PROVE ByteXor[a][b] \in Byte
BY Bytes, Zenon

\* What Encode xors its i-th cell with
Mask(before, key, i) == (before + key + i) % BYTE

\* A mask is a byte.
LEMMA MaskByte ==
  ASSUME NEW before \in Byte, NEW key \in Byte, NEW i \in Nat
  PROVE  Mask(before, key, i) \in Byte
<1>1. before + key \in Nat
  BY Bytes
<1> QED BY <1>1, Bytes DEF Mask

\* The checksum is that of a function over the places of the payload.
SumTo(f, payload, n) ==
    f = [i \in 0 .. n |-> IF i = 0 THEN 0 ELSE (f[i - 1] + payload[i]) % BYTE]

\* There is such a function for every payload.
LEMMA SumExists == ASSUME NEW payload PROVE \A n \in Nat : \E f : SumTo(f, payload, n)
<1> DEFINE S == {n \in Nat : \E f : SumTo(f, payload, n)}
<1>1. 0 \in S
  <2>1. SumTo([i \in 0 .. 0 |-> 0], payload, 0)
    BY DEF SumTo
  <2> QED BY <2>1
<1>2. ASSUME NEW n \in Nat, n \in S PROVE n + 1 \in S
  <2>1. PICK f : SumTo(f, payload, n)
    BY <1>2
  <2> DEFINE g == [i \in 0 .. n + 1 |->
                      IF i = n + 1 THEN (f[n] + payload[n + 1]) % BYTE ELSE f[i]]
  <2>2. \A i \in 0 .. n : f[i] = IF i = 0 THEN 0 ELSE (f[i - 1] + payload[i]) % BYTE
    BY <2>1 DEF SumTo
  <2>3. \A i \in 0 .. n + 1 : g[i] = IF i = 0 THEN 0 ELSE (g[i - 1] + payload[i]) % BYTE
    BY <2>2
  <2>4. SumTo(g, payload, n + 1)
    BY <2>3 DEF SumTo
  <2> QED BY <2>4
<1> HIDE DEF S
<1>3. \A n \in Nat : n \in S
  BY <1>1, <1>2, Induction
<1> QED BY <1>3 DEF S

\* GetCheckSum adds the bytes one after the other, and stays a byte.
LEMMA SumSteps ==
  ASSUME NEW payload \in Seq(Byte)
  PROVE  \E f : /\ f[0] = 0 /\ GetCheckSum(payload) = f[Len(payload)]
                /\ \A i \in 1 .. Len(payload) : f[i] = (f[i - 1] + payload[i]) % BYTE
                /\ \A i \in 0 .. Len(payload) : f[i] \in Byte
<1> DEFINE f == CHOOSE g : SumTo(g, payload, Len(payload))
<1>1. SumTo(f, payload, Len(payload))
  BY SumExists
<1>2. GetCheckSum(payload) = f[Len(payload)]
  BY DEF GetCheckSum, SumTo
<1> HIDE DEF f
<1>3. /\ Len(payload) \in Nat
      /\ \A i \in 0 .. Len(payload) : f[i] = IF i = 0 THEN 0 ELSE (f[i - 1] + payload[i]) % BYTE
  BY <1>1 DEF SumTo
<1>4. f[0] = 0 /\ \A i \in 1 .. Len(payload) : f[i] = (f[i - 1] + payload[i]) % BYTE
  BY <1>3
<1> DEFINE S == {n \in Nat : n <= Len(payload) => f[n] \in Byte}
<1>5. 0 \in S
  BY <1>4, Bytes
<1>6. ASSUME NEW n \in Nat, n \in S PROVE n + 1 \in S
  <2>1. SUFFICES ASSUME n + 1 <= Len(payload) PROVE f[n + 1] \in Byte
    OBVIOUS
  <2>2. n + 1 \in 1 .. Len(payload) /\ (n + 1) - 1 = n
    BY <1>3, <2>1
  <2>3. f[n] \in Byte /\ payload[n + 1] \in Byte
    BY <1>3, <1>6, <2>1
  <2>4. f[n + 1] = Mask(f[n], payload[n + 1], 0)
    <3>1. (f[n] + payload[n + 1]) + 0 = f[n] + payload[n + 1]
      BY <2>3, ByteAssumption DEF Byte
    <3> QED BY <1>4, <2>2, <3>1 DEF Mask
  <2> QED BY <2>3, <2>4, MaskByte
<1> HIDE DEF S
<1>7. \A n \in Nat : n \in S
  BY <1>5, <1>6, Induction
<1>8. \A i \in 0 .. Len(payload) : f[i] \in Byte
  BY <1>3, <1>7 DEF S
<1> QED BY <1>2, <1>4, <1>8

\* Encode goes through the payload with the two running values of EncodeCell.
Plain(payload) == <<GetCheckSum(payload)>> \o payload
EncodedTo(f, plain, key, n) ==
    f = [i \in 0 .. n |-> IF i = 0 THEN [p |-> 0, e |-> 0]
                          ELSE EncodeCell(f[i - 1], plain[i], i, key)]

\* There is such a function for all cells and every key.
LEMMA EncodeExists ==
  ASSUME NEW plain, NEW key
  PROVE  \A n \in Nat : \E f : EncodedTo(f, plain, key, n)
<1> DEFINE S == {n \in Nat : \E f : EncodedTo(f, plain, key, n)}
<1>1. 0 \in S
  <2>1. EncodedTo([i \in 0 .. 0 |-> [p |-> 0, e |-> 0]], plain, key, 0)
    BY DEF EncodedTo
  <2> QED BY <2>1
<1>2. ASSUME NEW n \in Nat, n \in S PROVE n + 1 \in S
  <2>1. PICK f : EncodedTo(f, plain, key, n)
    BY <1>2
  <2> DEFINE g == [i \in 0 .. n + 1 |->
                      IF i = n + 1 THEN EncodeCell(f[n], plain[n + 1], n + 1, key) ELSE f[i]]
  <2>2. \A i \in 0 .. n : f[i] = IF i = 0 THEN [p |-> 0, e |-> 0]
                                 ELSE EncodeCell(f[i - 1], plain[i], i, key)
    BY <2>1 DEF EncodedTo
  <2>3. \A i \in 0 .. n + 1 : g[i] = IF i = 0 THEN [p |-> 0, e |-> 0]
                                     ELSE EncodeCell(g[i - 1], plain[i], i, key)
    BY <2>2
  <2>4. EncodedTo(g, plain, key, n + 1)
    BY <2>3 DEF EncodedTo
  <2> QED BY <2>4
<1> HIDE DEF S
<1>3. \A n \in Nat : n \in S
  BY <1>1, <1>2, Induction
<1> QED BY <1>3 DEF S

\* The checksum and the payload are bytes, one more than the payload has.
LEMMA PlainBytes ==
  ASSUME NEW payload \in Seq(Byte)
  PROVE  /\ Plain(payload) \in Seq(Byte) /\ Len(Plain(payload)) = Len(payload) + 1
         /\ Plain(payload)[1] = GetCheckSum(payload) /\ GetCheckSum(payload) \in Byte
         /\ \A i \in 1 .. Len(payload) : Plain(payload)[i + 1] = payload[i]
<1>1. GetCheckSum(payload) \in Byte
  BY SumSteps
<1> QED BY <1>1 DEF Plain

\* Both xors of a cell are with a mask.
LEMMA CellMasked ==
  ASSUME NEW last, NEW b, NEW place, NEW key
  PROVE  LET c == EncodeCell(last, b, place, key)
         IN /\ c.p = ByteXor[b][Mask(last.p, key, place)]
            /\ c.e = ByteXor[c.p][Mask(last.e, FIXED_KEY, place)]
BY DEF EncodeCell, Mask

\* Encode goes from cell to cell, and what it makes are bytes (Packet.h:497-511).
LEMMA EncodeSteps ==
  ASSUME NEW payload \in Seq(Byte), NEW key \in Byte
  PROVE  \E p, e : 
           LET n == Len(payload) + 1
           IN /\ p[0] = 0 /\ e[0] = 0
              /\ \A i \in 0 .. n : p[i] \in Byte /\ e[i] \in Byte
              /\ \A i \in 1 .. n : p[i] = ByteXor[Plain(payload)[i]][Mask(p[i - 1], key, i)]
              /\ \A i \in 1 .. n : e[i] = ByteXor[p[i]][Mask(e[i - 1], FIXED_KEY, i)]
              /\ Encode(payload, key) = [i \in 1 .. n |-> e[i]]
<1> DEFINE plain == Plain(payload)
           n == Len(payload) + 1
           f == CHOOSE g : EncodedTo(g, plain, key, Len(plain))
           p == [i \in 0 .. n |-> f[i].p]
           e == [i \in 0 .. n |-> f[i].e]
<1>1. EncodedTo(f, plain, key, Len(plain))
  <2>1. Len(plain) \in Nat
    BY PlainBytes
  <2> QED BY <2>1, EncodeExists
<1>2. Encode(payload, key) = [i \in 1 .. Len(plain) |-> f[i].e]
  BY DEF Encode, EncodedTo, Plain
<1>3. plain \in Seq(Byte) /\ Len(plain) = n /\ n \in Nat
  BY PlainBytes
<1> HIDE DEF f, plain
<1>4. \A i \in 0 .. n : f[i] = IF i = 0 THEN [p |-> 0, e |-> 0]
                               ELSE EncodeCell(f[i - 1], plain[i], i, key)
  BY <1>1, <1>3 DEF EncodedTo
<1>5. p[0] = 0 /\ e[0] = 0
  BY <1>3, <1>4
<1>6. \A i \in 1 .. n : /\ p[i] = ByteXor[plain[i]][Mask(p[i - 1], key, i)]
                        /\ e[i] = ByteXor[p[i]][Mask(e[i - 1], FIXED_KEY, i)]
  <2>1. SUFFICES ASSUME NEW i \in 1 .. n
                 PROVE  /\ p[i] = ByteXor[plain[i]][Mask(p[i - 1], key, i)]
                        /\ e[i] = ByteXor[p[i]][Mask(e[i - 1], FIXED_KEY, i)]
    OBVIOUS
  <2>2. i \in 0 .. n /\ i # 0 /\ i - 1 \in 0 .. n
    BY <1>3
  <2>3. f[i] = EncodeCell(f[i - 1], plain[i], i, key)
    BY <1>4, <2>2
  <2>4. p[i] = f[i].p /\ e[i] = f[i].e /\ p[i - 1] = f[i - 1].p /\ e[i - 1] = f[i - 1].e
    BY <2>2
  <2> HIDE DEF p, e
  <2>5. /\ f[i].p = ByteXor[plain[i]][Mask(f[i - 1].p, key, i)]
        /\ f[i].e = ByteXor[f[i].p][Mask(f[i - 1].e, FIXED_KEY, i)]
    BY <2>3, CellMasked
  <2> QED BY <2>4, <2>5
<1> HIDE DEF p, e
<1> DEFINE S == {i \in Nat : i <= n => p[i] \in Byte /\ e[i] \in Byte}
<1>7. 0 \in S
  BY <1>5, Bytes
<1>8. ASSUME NEW i \in Nat, i \in S PROVE i + 1 \in S
  <2>1. SUFFICES ASSUME i + 1 <= n PROVE p[i + 1] \in Byte /\ e[i + 1] \in Byte
    OBVIOUS
  <2>2. i + 1 \in 1 .. n /\ (i + 1) - 1 = i /\ p[i] \in Byte /\ e[i] \in Byte
    BY <1>3, <1>8, <2>1
  <2>3. plain[i + 1] \in Byte /\ i + 1 \in Nat
    BY <1>3, <2>2
  <2>4. p[i + 1] \in Byte
    <3>1. Mask(p[i], key, i + 1) \in Byte
      BY <2>2, <2>3, MaskByte
    <3>2. p[i + 1] = ByteXor[plain[i + 1]][Mask(p[i], key, i + 1)]
      BY <1>6, <2>2
    <3> QED BY <2>3, <3>1, <3>2, XorByte
  <2>5. Mask(e[i], FIXED_KEY, i + 1) \in Byte
    <3>1. FIXED_KEY \in Byte
      BY Bytes
    <3> QED BY <2>2, <2>3, <3>1, MaskByte
  <2>6. e[i + 1] = ByteXor[p[i + 1]][Mask(e[i], FIXED_KEY, i + 1)]
    BY <1>6, <2>2
  <2> QED BY <2>4, <2>5, <2>6, XorByte
<1> HIDE DEF S
<1>9. \A i \in Nat : i \in S
  BY <1>7, <1>8, Induction
<1>10. \A i \in 0 .. n : p[i] \in Byte /\ e[i] \in Byte
  BY <1>3, <1>9 DEF S
<1>11. Encode(payload, key) = [i \in 1 .. n |-> e[i]]
  BY <1>2, <1>3 DEF e
<1> QED BY <1>5, <1>6, <1>10, <1>11 DEF plain

-----------------------------------------------------------------------------
(* Encode and Decode *)

\* One pass of Decode over cells, with a 0 before the first
LEMMA PassCells ==
  ASSUME NEW n \in Nat, NEW c, c[0] = 0, NEW key
  PROVE  Pass([i \in 1 .. n |-> c[i]], key)
           = [i \in 1 .. n |-> ByteXor[c[i]][Mask(c[i - 1], key, i)]]
<1> DEFINE cells == [i \in 1 .. n |-> c[i]]
<1>1. \A i \in 1 .. n : cells[i] = c[i] /\ (IF i = 1 THEN 0 ELSE cells[i - 1]) = c[i - 1]
  OBVIOUS
<1>2. DOMAIN cells = 1 .. n
  OBVIOUS
<1> HIDE DEF cells
<1>3. Pass(cells, key) = [i \in 1 .. n |-> ByteXor[c[i]][Mask(c[i - 1], key, i)]]
  BY <1>1, <1>2 DEF Pass, Mask
<1> QED BY <1>3 DEF cells

\* Decode undoes Encode for every key, cell by cell (Packet.h:497-532).
THEOREM DecodeUndoesEncode ==
  ASSUME NEW payload \in Seq(Byte), NEW key \in Byte
  PROVE  Decode(Encode(payload, key), key) = Plain(payload)
<1> DEFINE n == Len(payload) + 1
<1>1. PICK p, e : /\ p[0] = 0 /\ e[0] = 0
                  /\ \A i \in 0 .. n : p[i] \in Byte /\ e[i] \in Byte
                  /\ \A i \in 1 .. n : p[i] = ByteXor[Plain(payload)[i]][Mask(p[i - 1], key, i)]
                  /\ \A i \in 1 .. n : e[i] = ByteXor[p[i]][Mask(e[i - 1], FIXED_KEY, i)]
                  /\ Encode(payload, key) = [i \in 1 .. n |-> e[i]]
  BY EncodeSteps
<1>2. n \in Nat /\ Len(Plain(payload)) = n /\ Plain(payload) \in Seq(Byte) /\ FIXED_KEY \in Byte
  BY PlainBytes, Bytes
<1> HIDE DEF n
<1>3. ASSUME NEW i \in 1 .. n
      PROVE  /\ ByteXor[e[i]][Mask(e[i - 1], FIXED_KEY, i)] = p[i]
             /\ ByteXor[p[i]][Mask(p[i - 1], key, i)] = Plain(payload)[i]
  <2>1. i \in Nat /\ e[i - 1] \in Byte /\ p[i - 1] \in Byte /\ p[i] \in Byte
        /\ Plain(payload)[i] \in Byte
    BY <1>1, <1>2
  <2>2. Mask(e[i - 1], FIXED_KEY, i) \in Byte /\ Mask(p[i - 1], key, i) \in Byte
    BY <1>2, <2>1, MaskByte
  <2>3. e[i] = ByteXor[p[i]][Mask(e[i - 1], FIXED_KEY, i)]
        /\ p[i] = ByteXor[Plain(payload)[i]][Mask(p[i - 1], key, i)]
    BY <1>1
  <2>4. \A a, b \in Byte : ByteXor[ByteXor[a][b]][b] = a
    BY Bytes
  <2>5. ByteXor[ByteXor[p[i]][Mask(e[i - 1], FIXED_KEY, i)]][Mask(e[i - 1], FIXED_KEY, i)] = p[i]
    BY <2>1, <2>2, <2>4
  <2>6. ByteXor[ByteXor[Plain(payload)[i]][Mask(p[i - 1], key, i)]][Mask(p[i - 1], key, i)]
        = Plain(payload)[i]
    BY <2>1, <2>2, <2>4
  <2> QED BY <2>3, <2>5, <2>6
<1>4. Pass(Encode(payload, key), FIXED_KEY) = [i \in 1 .. n |-> p[i]]
  <2>1. Pass(Encode(payload, key), FIXED_KEY)
        = [i \in 1 .. n |-> ByteXor[e[i]][Mask(e[i - 1], FIXED_KEY, i)]]
    BY <1>1, <1>2, PassCells
  <2> QED BY <1>3, <2>1
<1>5. Pass([i \in 1 .. n |-> p[i]], key) = [i \in 1 .. n |-> Plain(payload)[i]]
  <2>1. n \in Nat /\ p[0] = 0
    BY <1>1, <1>2
  <2>2. Pass([i \in 1 .. n |-> p[i]], key)
          = [i \in 1 .. n |-> ByteXor[p[i]][Mask(p[i - 1], key, i)]]
    BY <2>1, PassCells
  <2> QED BY <1>3, <2>2
<1>6. [i \in 1 .. n |-> Plain(payload)[i]] = Plain(payload)
  BY <1>2
<1> QED BY <1>4, <1>5, <1>6 DEF Decode

\* ByteXor with the same byte keeps different bytes different.
LEMMA XorApart ==
  ASSUME NEW a \in Byte, NEW b \in Byte, NEW m \in Byte, a # b
  PROVE  ByteXor[a][m] # ByteXor[b][m]
<1>1. \A x, y \in Byte : ByteXor[ByteXor[x][y]][y] = x
  BY Bytes, Zenon
<1>2. ByteXor[ByteXor[a][m]][m] = a /\ ByteXor[ByteXor[b][m]][m] = b
  BY <1>1, Zenon
<1> QED BY <1>2, Zenon

\* What Pass xors the i-th cell of s with
Before(s, i) == IF i = 1 THEN 0 ELSE s[i - 1]

\* Every cell of a pass of Decode over bytes is a byte.
LEMMA PassBytes ==
  ASSUME NEW s \in Seq(Byte), NEW k \in Byte
  PROVE  /\ Pass(s, k) \in Seq(Byte) /\ Len(Pass(s, k)) = Len(s)
         /\ \A i \in 1 .. Len(s) : /\ Mask(Before(s, i), k, i) \in Byte
                                   /\ Pass(s, k)[i] = ByteXor[s[i]][Mask(Before(s, i), k, i)]
<1> DEFINE n == Len(s)
<1>1. ASSUME NEW i \in 1 .. n
      PROVE  Before(s, i) \in Byte /\ s[i] \in Byte /\ i \in Nat
  <2>1. CASE i = 1
    BY <2>1, Bytes DEF Before
  <2>2. CASE i # 1
    <3>1. i - 1 \in 1 .. n
      BY <2>2
    <3> QED BY <2>2, <3>1 DEF Before
  <2> QED BY <2>1, <2>2
<1>2. ASSUME NEW i \in 1 .. n PROVE Mask(Before(s, i), k, i) \in Byte
  BY <1>1, MaskByte
<1>3. Pass(s, k) = [i \in 1 .. n |-> ByteXor[s[i]][Mask(Before(s, i), k, i)]]
  BY DEF Pass, Mask, Before
<1>4. \A i \in 1 .. n : ByteXor[s[i]][Mask(Before(s, i), k, i)] \in Byte
  BY <1>1, <1>2, Bytes
<1>5. Pass(s, k) \in [1 .. n -> Byte]
  BY <1>3, <1>4
<1>6. Pass(s, k) \in Seq(Byte) /\ Len(Pass(s, k)) = n
  BY <1>5
<1> QED BY <1>2, <1>3, <1>6

\* Pass keeps apart what differs in the last cell, and only there.
LEMMA PassApart ==
  ASSUME NEW n \in Nat \ {0}, NEW s \in Seq(Byte), Len(s) = n, NEW t \in Seq(Byte), Len(t) = n,
         NEW k \in Byte, s[n] # t[n], \A i \in 1 .. n - 1 : s[i] = t[i]
  PROVE  /\ Pass(s, k)[n] # Pass(t, k)[n]
         /\ \A i \in 1 .. n - 1 : Pass(s, k)[i] = Pass(t, k)[i]
<1>1. \A i \in 1 .. n : Before(s, i) = Before(t, i)
  BY DEF Before
<1>2. n \in 1 .. n /\ s[n] \in Byte /\ t[n] \in Byte /\ \A i \in 1 .. n - 1 : i \in 1 .. n
  OBVIOUS
<1>3. /\ \A i \in 1 .. n : /\ Mask(Before(s, i), k, i) \in Byte
                           /\ Pass(s, k)[i] = ByteXor[s[i]][Mask(Before(s, i), k, i)]
      /\ \A i \in 1 .. n : Pass(t, k)[i] = ByteXor[t[i]][Mask(Before(t, i), k, i)]
  BY PassBytes, ZenonT(60)
<1>4. Pass(s, k)[n] # Pass(t, k)[n]
  BY <1>1, <1>2, <1>3, XorApart
<1> QED BY <1>1, <1>2, <1>3, <1>4

\* A last cell that is not what was sent is not what Decode makes of it either, and
\* changes nothing before it.
LastApart(n, c, d) ==
    /\ n \in Nat \ {0} /\ c \in Seq(Byte) /\ Len(c) = n /\ d \in Seq(Byte) /\ Len(d) = n
    /\ d[n] # c[n] /\ \A i \in 1 .. n - 1 : d[i] = c[i]

\* Two encodings that differ in the last cell only are decoded to that.
LEMMA LastCellTold ==
  ASSUME NEW n, NEW c, NEW d, LastApart(n, c, d), NEW key \in Byte
  PROVE  /\ Decode(c, key) \in Seq(Byte) /\ Len(Decode(c, key)) = n
         /\ Decode(d, key) \in Seq(Byte) /\ Len(Decode(d, key)) = n
         /\ Decode(d, key)[n] # Decode(c, key)[n]
         /\ \A i \in 1 .. n - 1 : Decode(d, key)[i] = Decode(c, key)[i]
<1> DEFINE pc == Pass(c, FIXED_KEY)
           pd == Pass(d, FIXED_KEY)
<1> USE DEF LastApart
<1>1. FIXED_KEY \in Byte
  BY Bytes
<1>2. pc \in Seq(Byte) /\ Len(pc) = n /\ pd \in Seq(Byte) /\ Len(pd) = n
  BY <1>1, PassBytes
<1>3. pd[n] # pc[n] /\ \A i \in 1 .. n - 1 : pd[i] = pc[i]
  BY <1>1, PassApart
<1>4. Decode(c, key) = Pass(pc, key) /\ Decode(d, key) = Pass(pd, key)
  BY DEF Decode
<1> HIDE DEF pc, pd
<1>5. /\ Pass(pc, key) \in Seq(Byte) /\ Len(Pass(pc, key)) = n
      /\ Pass(pd, key) \in Seq(Byte) /\ Len(Pass(pd, key)) = n
  BY <1>2, PassBytes
<1>6. /\ Pass(pd, key)[n] # Pass(pc, key)[n]
      /\ \A i \in 1 .. n - 1 : Pass(pd, key)[i] = Pass(pc, key)[i]
  BY <1>2, <1>3, PassApart
<1> QED BY <1>4, <1>5, <1>6

-----------------------------------------------------------------------------
(* Messages as they come *)

\* Two payloads that differ in the last byte only have different checksums.
LEMMA SumApart ==
  ASSUME NEW s \in Byte, NEW a \in Byte, NEW b \in Byte, a # b
  PROVE  (s + a) % BYTE # (s + b) % BYTE
<1>1. BYTE \in Nat /\ BYTE > 0 /\ s \in 0 .. BYTE - 1 /\ a \in 0 .. BYTE - 1 /\ b \in 0 .. BYTE - 1
  BY Bytes DEF Byte
<1>2. ASSUME NEW c \in 0 .. BYTE - 1
      PROVE  (s + c) % BYTE = IF s + c < BYTE THEN s + c ELSE s + c - BYTE
  <2>1. CASE s + c < BYTE
    BY <1>1, <2>1
  <2>2. CASE s + c >= BYTE
    BY <1>1, <2>2
  <2> QED BY <1>1, <2>1, <2>2
<1>3. (s + a) % BYTE = IF s + a < BYTE THEN s + a ELSE s + a - BYTE
  BY <1>1, <1>2
<1>4. (s + b) % BYTE = IF s + b < BYTE THEN s + b ELSE s + b - BYTE
  BY <1>1, <1>2
<1> QED BY <1>1, <1>3, <1>4

\* Two payloads that differ in the last byte only do not have the same checksum.
LEMMA CheckSumTold ==
  ASSUME NEW s \in Seq(Byte), NEW t \in Seq(Byte), NEW n \in Nat \ {0},
         Len(s) = n, Len(t) = n, s[n] # t[n], \A i \in 1 .. n - 1 : s[i] = t[i]
  PROVE  GetCheckSum(s) # GetCheckSum(t)
<1>1. PICK f : /\ f[0] = 0 /\ GetCheckSum(s) = f[n]
               /\ \A i \in 1 .. n : f[i] = (f[i - 1] + s[i]) % BYTE
               /\ \A i \in 0 .. n : f[i] \in Byte
  BY SumSteps
<1>2. PICK g : /\ g[0] = 0 /\ GetCheckSum(t) = g[n]
               /\ \A i \in 1 .. n : g[i] = (g[i - 1] + t[i]) % BYTE
               /\ \A i \in 0 .. n : g[i] \in Byte
  BY SumSteps
<1> DEFINE S == {i \in Nat : i < n => f[i] = g[i]}
<1>3. 0 \in S
  BY <1>1, <1>2
<1>4. ASSUME NEW i \in Nat, i \in S PROVE i + 1 \in S
  <2>1. SUFFICES ASSUME i + 1 < n PROVE f[i + 1] = g[i + 1]
    OBVIOUS
  <2>2. i + 1 \in 1 .. n /\ i + 1 \in 1 .. n - 1 /\ (i + 1) - 1 = i
    BY <2>1
  <2>3. f[i] = g[i] /\ s[i + 1] = t[i + 1]
    BY <1>4, <2>1, <2>2
  <2> QED BY <1>1, <1>2, <2>2, <2>3
<1> HIDE DEF S
<1>5. \A i \in Nat : i \in S
  BY <1>3, <1>4, Induction
<1>6. n \in 1 .. n /\ n - 1 \in Nat /\ n - 1 \in 0 .. n /\ n - 1 < n
  OBVIOUS
<1>7. f[n - 1] = g[n - 1] /\ f[n - 1] \in Byte /\ s[n] \in Byte /\ t[n] \in Byte
  BY <1>1, <1>5, <1>6 DEF S
<1>8. f[n] = (f[n - 1] + s[n]) % BYTE /\ g[n] = (f[n - 1] + t[n]) % BYTE
  BY <1>1, <1>2, <1>6, <1>7
<1>9. f[n] # g[n]
  BY <1>7, <1>8, SumApart
<1> QED BY <1>1, <1>2, <1>9

\* Bytes are numbers.
LEMMA ByteSeq == ASSUME NEW s \in Seq(Byte) PROVE s \in Seq(Nat)
BY Bytes, SeqMonotonic

\* The two parts of a concatenation
LEMMA TwoParts ==
  ASSUME NEW S, NEW h \in Seq(S), NEW t \in Seq(S), NEW w \in Seq(S),
         Len(w) = Len(h) + Len(t),
         \A i \in 1 .. Len(h) + Len(t) : w[i] = IF i <= Len(h) THEN h[i] ELSE t[i - Len(h)]
  PROVE  SubSeq(w, 1, Len(h)) = h /\ SubSeq(w, Len(h) + 1, Len(w)) = t
<1>1. Len(h) \in Nat /\ Len(t) \in Nat
  BY LenProperties
<1>2. \A i \in 1 .. Len(w) : w[i] \in S
  BY ElementOfSeq
<1>3. SubSeq(w, 1, Len(h)) = h
  <2> DEFINE u == SubSeq(w, 1, Len(h))
  <2>1. \A i \in 1 .. Len(h) : w[i] \in S
    BY <1>1, <1>2
  <2>2. u \in Seq(S) /\ Len(u) = Len(h) /\ \A i \in 1 .. Len(h) : u[i] = w[i]
    BY <1>1, <2>1, SubSeqProperties
  <2> HIDE DEF u
  <2>3. \A i \in 1 .. Len(u) : u[i] = h[i]
    BY <1>1, <2>2
  <2>4. u = h
    BY <2>2, <2>3, SeqEqual
  <2> QED BY <2>4 DEF u
<1>4. SubSeq(w, Len(h) + 1, Len(w)) = t
  <2> DEFINE u == SubSeq(w, Len(h) + 1, Len(w))
  <2>1. \A i \in Len(h) + 1 .. Len(w) : w[i] \in S
    BY <1>1, <1>2
  <2>2. u \in Seq(S) /\ Len(u) = Len(t) /\ \A i \in 1 .. Len(t) : u[i] = w[Len(h) + i]
    BY <1>1, <2>1, SubSeqProperties
  <2> HIDE DEF u
  <2>3. ASSUME NEW i \in 1 .. Len(u) PROVE u[i] = t[i]
    <3>1. i \in 1 .. Len(t) /\ Len(h) + i \in 1 .. Len(h) + Len(t) /\ ~(Len(h) + i <= Len(h))
          /\ (Len(h) + i) - Len(h) = i
      BY <1>1, <2>2
    <3>2. w[Len(h) + i] = t[(Len(h) + i) - Len(h)]
      BY <3>1
    <3> QED BY <2>2, <3>1, <3>2
  <2>4. u = t
    BY <2>2, <2>3, SeqEqual
  <2> QED BY <2>4 DEF u
<1> QED BY <1>3, <1>4

\* A header of four cells and what is behind it
HeaderAndRest(w, a, b, c, d, t) ==
    /\ a \in Nat /\ b \in Nat /\ c \in Nat /\ d \in Nat /\ t \in Seq(Nat)
    /\ w = Header(a, b, c, d) \o t

\* A header of four cells and what follows it come apart again.
LEMMA FourAndRest ==
  ASSUME NEW w0, NEW a, NEW b, NEW c, NEW d, NEW t, HeaderAndRest(w0, a, b, c, d, t)
  PROVE  /\ w0 \in Seq(Nat) /\ Len(w0) = 4 + Len(t) /\ Len(t) \in Nat
         /\ w0[1] = a /\ w0[2] = b /\ w0[3] = c /\ w0[4] = d
         /\ \A i \in 1 .. Len(t) : w0[4 + i] = t[i]
         /\ SubSeq(w0, 1, 4) = Header(a, b, c, d) /\ SubSeq(w0, 5, Len(w0)) = t
<1> DEFINE S == Nat
           h == Header(a, b, c, d)
           w == h \o t
<1>0. a \in S /\ b \in S /\ c \in S /\ d \in S /\ t \in Seq(S) /\ w = w0
  BY DEF HeaderAndRest
<1> HIDE DEF S
<1>1. /\ h \in Seq(S) /\ Len(h) = 4
      /\ h[1] = a /\ h[2] = b /\ h[3] = c /\ h[4] = d
  BY <1>0 DEF Header
<1> HIDE DEF h
<1>2. Len(t) \in Nat
  BY <1>0, LenProperties
<1>3. /\ w \in Seq(S) /\ Len(w) = Len(h) + Len(t)
      /\ \A i \in 1 .. Len(h) + Len(t) : w[i] = IF i <= Len(h) THEN h[i] ELSE t[i - Len(h)]
  BY <1>0, <1>1, ConcatProperties, Zenon
<1> HIDE DEF w
<1>4. Len(w) = 4 + Len(t) /\ w[1] = a /\ w[2] = b /\ w[3] = c /\ w[4] = d
      /\ \A i \in 1 .. Len(t) : w[4 + i] = t[i]
  BY <1>1, <1>2, <1>3
<1>5. SubSeq(w, 1, Len(h)) = h /\ SubSeq(w, Len(h) + 1, Len(w)) = t
  BY <1>0, <1>1, <1>3, TwoParts
<1>6. Len(h) + 1 = 5
  BY <1>1
<1>7. SubSeq(w, 1, 4) = h /\ SubSeq(w, 5, Len(w)) = t
  BY <1>1, <1>5, <1>6, Zenon
<1>8. w = w0
  BY <1>0
<1> QED BY <1>2, <1>3, <1>4, <1>7, <1>8, Zenon DEF h, S

\* A packet RecvProc makes of a header and cells, with what Decode makes of these
Came(q, payload, key, e, plain) ==
    /\ payload \in Seq(Byte) /\ key \in Byte
    /\ e \in Seq(Byte) /\ Len(e) = Len(payload) + 1
    /\ plain \in Seq(Byte) /\ Len(plain) = Len(payload) + 1 /\ plain = Decode(e, key)
    /\ q = Received(Header(PACKET_CODE, Len(payload), key, e[1]), Tail(e))

\* The packet RecvProc makes holds the header and what Decode gives (NetClient.cpp:598).
LEMMA ReceivedCells ==
  ASSUME NEW payload, NEW key, NEW e, NEW plain, NEW q, Came(q, payload, key, e, plain)
  PROVE  /\ Payload(q) = Tail(plain)
         /\ ValidateReceived(q) <=> plain[1] = GetCheckSum(Tail(plain))
         /\ q.front = HeaderSize /\ q.rear = HeaderSize + Len(payload)
         /\ q.buffer = Header(PACKET_CODE, Len(payload), key, plain[1]) \o Tail(plain)
         /\ q.bufferSize = INITIAL_PAYLOAD + HeaderSize
<1> DEFINE header == Header(PACKET_CODE, Len(payload), key, e[1])
           h == Header(PACKET_CODE, Len(payload), key, plain[1])
           t == Tail(plain)
           buffer == h \o t
<1> USE DEF Came
<1>1. <<e[1]>> \o Tail(e) = e
  OBVIOUS
<1>2. header[1] = PACKET_CODE /\ header[2] = Len(payload) /\ header[3] = key /\ header[4] = e[1]
  BY DEF Header
<1>3. Decode(<<header[4]>> \o Tail(e), header[3]) = plain
  BY <1>1, <1>2
<1>4. q = [NewPacket EXCEPT !.rear = HeaderSize + Len(payload), !.buffer = buffer]
  <2> HIDE DEF header
  <2>1. q = Received(header, Tail(e))
    BY DEF header
  <2> QED BY <1>2, <1>3, <2>1 DEF Received
<1> HIDE DEF header
<1>5. PACKET_CODE \in Nat /\ Len(payload) \in Nat /\ key \in Nat
  BY Bytes
<1>6. plain[1] \in Byte /\ t \in Seq(Byte) /\ Len(t) = Len(payload)
  OBVIOUS
<1> HIDE DEF t
<1>7. plain[1] \in Nat /\ t \in Seq(Nat)
  BY <1>6, Bytes, ByteSeq
<1> HIDE DEF h
<1>8. h = Header(PACKET_CODE, Len(payload), key, plain[1]) /\ buffer = h \o t
  BY DEF h
<1> HIDE DEF buffer
<1>9. /\ buffer[1] = PACKET_CODE /\ buffer[4] = plain[1]
      /\ SubSeq(buffer, 5, Len(buffer)) = t /\ Len(buffer) = 4 + Len(t)
  <2>1. HeaderAndRest(buffer, PACKET_CODE, Len(payload), key, plain[1], t)
    BY <1>5, <1>7, <1>8 DEF HeaderAndRest
  <2> QED BY <2>1, FourAndRest, ZenonT(60)
<1>10. q.front = HeaderSize /\ q.rear = HeaderSize + Len(payload) /\ q.buffer = buffer
       /\ q.bufferSize = INITIAL_PAYLOAD + HeaderSize
  BY <1>4 DEF NewPacket
<1>11. Payload(q) = t
  BY <1>6, <1>9, <1>10 DEF Payload, HeaderSize
<1>12. ValidateReceived(q) <=> plain[1] = GetCheckSum(t)
  BY <1>9, <1>10, <1>11 DEF ValidateReceived
<1> QED BY <1>8, <1>10, <1>11, <1>12 DEF t

\* A packet RecvProc makes of a message as it was sent
Genuinely(q, payload, key, e) ==
    /\ payload \in Seq(Byte) /\ key \in Byte /\ e = Encode(payload, key)
    /\ q = Received(Header(PACKET_CODE, Len(payload), key, e[1]), Tail(e))

\* A genuine message passes ValidateReceived, and its payload is what was sent.
LEMMA GenuineReceived ==
  ASSUME NEW q, NEW payload, NEW key, NEW e, Genuinely(q, payload, key, e)
  PROVE  /\ e \in Seq(Byte) /\ Len(e) = Len(payload) + 1
         /\ ValidateReceived(q) /\ Payload(q) = payload
         /\ q.front = HeaderSize /\ q.rear = HeaderSize + Len(payload)
         /\ q.buffer = Header(PACKET_CODE, Len(payload), key, GetCheckSum(payload)) \o payload
         /\ q.bufferSize = INITIAL_PAYLOAD + HeaderSize
<1>1. payload \in Seq(Byte) /\ key \in Byte /\ e = Encode(payload, key)
      /\ q = Received(Header(PACKET_CODE, Len(payload), key, e[1]), Tail(e))
  BY DEF Genuinely
<1>2. e \in Seq(Byte) /\ Len(e) = Len(payload) + 1
  <2>1. PICK f : LET n == Len(payload) + 1
                 IN (\A i \in 0 .. n : f[i] \in Byte) /\ e = [i \in 1 .. n |-> f[i]]
    BY <1>1, EncodeSteps
  <2>2. Len(payload) + 1 \in Nat
    BY <1>1
  <2> QED BY <2>1, <2>2
<1> DEFINE plain == Plain(payload)
<1>3. plain = Decode(e, key)
  BY <1>1, DecodeUndoesEncode
<1>4. plain \in Seq(Byte) /\ Len(plain) = Len(payload) + 1
      /\ plain[1] = GetCheckSum(payload) /\ Tail(plain) = payload
  BY <1>1, PlainBytes DEF Plain
<1> HIDE DEF plain
<1>5. /\ Payload(q) = Tail(plain)
      /\ ValidateReceived(q) <=> plain[1] = GetCheckSum(Tail(plain))
      /\ q.front = HeaderSize /\ q.rear = HeaderSize + Len(payload)
      /\ q.buffer = Header(PACKET_CODE, Len(payload), key, plain[1]) \o Tail(plain)
      /\ q.bufferSize = INITIAL_PAYLOAD + HeaderSize
  <2>1. Came(q, payload, key, e, plain)
    BY <1>1, <1>2, <1>3, <1>4 DEF Came
  <2> QED BY <2>1, ReceivedCells, ZenonT(60)
<1> QED BY <1>2, <1>4, <1>5

\* A message whose last cell is not what was sent does not validate (Packet.h:463-471,
\* 524-532).
THEOREM AlteredTold ==
  ASSUME NEW payload \in Seq(Byte), NEW key \in Byte, NEW x \in Byte,
         x # Encode(payload, key)[Len(payload) + 1]
  PROVE  LET e == [Encode(payload, key) EXCEPT ![Len(payload) + 1] = x]
         IN ~ValidateReceived(Received(Header(PACKET_CODE, Len(payload), key, e[1]), Tail(e)))
<1> DEFINE n == Len(payload) + 1
           c == Encode(payload, key)
           e == [c EXCEPT ![n] = x]
           q == Received(Header(PACKET_CODE, Len(payload), key, e[1]), Tail(e))
           plain == Decode(e, key)
           plainSent == Plain(payload)
<1>1. n \in Nat /\ n > 0 /\ c \in Seq(Byte) /\ Len(c) = n /\ x # c[n]
      /\ Len(payload) = n - 1 /\ n - 1 \in Nat
  <2> DEFINE q0 == Received(Header(PACKET_CODE, Len(payload), key, c[1]), Tail(c))
  <2>1. Genuinely(q0, payload, key, c)
    BY DEF Genuinely
  <2> HIDE DEF c, q0
  <2>2. c \in Seq(Byte) /\ Len(c) = Len(payload) + 1
    BY <2>1, GenuineReceived, Zenon
  <2> QED BY <2>2 DEF c
<1>2. Decode(c, key) = plainSent
  BY DecodeUndoesEncode
<1>3. plainSent \in Seq(Byte) /\ Len(plainSent) = n /\ plainSent[1] = GetCheckSum(payload)
      /\ \A i \in 1 .. Len(payload) : plainSent[i + 1] = payload[i]
  BY PlainBytes
<1> HIDE DEF plainSent, n, c
<1>4. e \in Seq(Byte) /\ Len(e) = n /\ e[n] # c[n] /\ \A i \in 1 .. n - 1 : e[i] = c[i]
  BY <1>1
<1> HIDE DEF e
<1>5. /\ plain \in Seq(Byte) /\ Len(plain) = n /\ plain[n] # plainSent[n]
      /\ \A i \in 1 .. n - 1 : plain[i] = plainSent[i]
  <2>1. LastApart(n, c, e)
    BY <1>1, <1>4 DEF LastApart
  <2>2. /\ plain \in Seq(Byte) /\ Len(plain) = n
        /\ plain[n] # Decode(c, key)[n]
        /\ \A i \in 1 .. n - 1 : plain[i] = Decode(c, key)[i]
    BY <2>1, LastCellTold
  <2> QED BY <1>2, <2>2
<1>6. Came(q, payload, key, e, plain)
  <2>1. Len(e) = Len(payload) + 1 /\ Len(plain) = Len(payload) + 1
    BY <1>1, <1>4, <1>5
  <2> QED BY <1>4, <1>5, <2>1 DEF Came
<1> HIDE DEF plain, q
<1>7. plain[1] # GetCheckSum(Tail(plain))
  <2>1. CASE n = 1
    <3>1. Tail(plain) = <<>> /\ payload = <<>>
      <4>1. plain \in Seq(Byte) /\ Len(plain) = 1 /\ Len(payload) = 0
        BY <1>1, <1>5, <2>1
      <4>2. payload = <<>>
        BY <4>1, EmptySeq
      <4>3. Tail(plain) \in Seq(Byte) /\ Len(Tail(plain)) = 0
        BY <4>1
      <4> QED BY <4>2, <4>3, EmptySeq
    <3> QED BY <1>3, <1>5, <2>1, <3>1
  <2>2. CASE n # 1
    <3> DEFINE t == Tail(plain)
    <3>1. t \in Seq(Byte) /\ Len(t) = n - 1 /\ n - 1 \in Nat \ {0}
          /\ \A i \in 1 .. n - 1 : t[i] = plain[i + 1]
      BY <1>1, <1>5, <2>2
    <3> HIDE DEF t
    <3>2. \A i \in 1 .. (n - 1) - 1 : t[i] = payload[i]
      BY <1>1, <1>3, <1>5, <3>1
    <3>3. t[n - 1] # payload[n - 1]
      <4>1. (n - 1) + 1 = n /\ n - 1 \in 1 .. n - 1 /\ n - 1 \in 1 .. Len(payload)
        BY <1>1, <3>1
      <4>2. t[n - 1] = plain[n] /\ payload[n - 1] = plainSent[n]
        BY <1>3, <3>1, <4>1
      <4> QED BY <1>5, <4>2
    <3>4. GetCheckSum(t) # GetCheckSum(payload)
      BY <1>1, <3>1, <3>2, <3>3, CheckSumTold
    <3>5. plain[1] = GetCheckSum(payload)
      BY <1>1, <1>3, <1>5, <2>2
    <3> QED BY <3>4, <3>5 DEF t
  <2> QED BY <2>1, <2>2
<1>8. ~ValidateReceived(q)
  BY <1>6, <1>7, ReceivedCells, Zenon
<1> QED BY <1>8 DEF q, e, c, n

-----------------------------------------------------------------------------
(* Fields *)

\* A packet that is being written: front_ has not moved, and what has been written
\* reaches to rear_.
Written(p) ==
    /\ p \in [bufferSize : Int, front : Nat, rear : Nat, buffer : Seq(Byte)]
    /\ p.front = HeaderSize /\ p.rear >= HeaderSize /\ Len(p.buffer) = p.rear

\* Resize gives the packet a larger buffer and loses nothing of what is in it.
LEMMA ResizeKeeps ==
  ASSUME NEW p, Written(p)
  PROVE  /\ Written(Resize(p)) /\ Resize(p).rear = p.rear /\ Resize(p).buffer = p.buffer
         /\ p.bufferSize = RINGBUFFER_SIZE => Resize(p) = p
         /\ p.bufferSize # RINGBUFFER_SIZE =>
              LET size == (p.bufferSize - HeaderSize) * 2 + HeaderSize
              IN Resize(p).bufferSize
                    = IF size > RINGBUFFER_SIZE THEN RINGBUFFER_SIZE ELSE size
<1>1. CASE p.bufferSize = RINGBUFFER_SIZE
  BY <1>1 DEF Resize
<1>2. CASE p.bufferSize # RINGBUFFER_SIZE
  <2> DEFINE size == (p.bufferSize - HeaderSize) * 2 + HeaderSize
             kept == UsedDataSize(p) + HeaderSize
             buffer == [i \in 1 .. p.rear |-> IF i <= kept THEN p.buffer[i] ELSE 0]
             newSize == IF size > RINGBUFFER_SIZE THEN RINGBUFFER_SIZE ELSE size
  <2>1. kept = p.rear /\ p.rear \in Nat /\ p.bufferSize \in Int
    BY DEF Written, UsedDataSize
  <2>2. buffer = p.buffer
    <3>1. p.buffer \in Seq(Byte) /\ Len(p.buffer) = p.rear
      BY DEF Written
    <3>2. \A i \in 1 .. p.rear : i <= kept
      BY <2>1
    <3> HIDE DEF kept
    <3>3. buffer = [i \in 1 .. p.rear |-> p.buffer[i]]
      BY <3>2
    <3> QED BY <3>1, <3>3
  <2>3. Resize(p) = [p EXCEPT !.bufferSize = newSize, !.buffer = buffer]
    BY <1>2 DEF Resize
  <2>4. Resize(p) = [p EXCEPT !.bufferSize = newSize, !.buffer = p.buffer]
    BY <2>2, <2>3
  <2>5. newSize \in Int
    BY <2>1, PayloadAssumption DEF HeaderSize
  <2> HIDE DEF newSize
  <2>6. Written(Resize(p)) /\ Resize(p).rear = p.rear /\ Resize(p).buffer = p.buffer
        /\ Resize(p).bufferSize = newSize
    BY <2>4, <2>5 DEF Written
  <2> QED BY <1>2, <2>6 DEF newSize
<1> QED BY <1>1, <1>2

\* Put appends, and one Resize is enough for a field that is no longer than the payload
\* of a new packet, as long as the packet may grow that far (Packet.h:67, 134).
LEMMA PutAppends ==
  ASSUME NEW p, Written(p), NEW bytes \in Seq(Byte)
  PROVE  /\ Written(Put(p, bytes)) /\ Put(p, bytes).rear = p.rear + Len(bytes)
         /\ \A i \in 1 .. p.rear : Put(p, bytes).buffer[i] = p.buffer[i]
         /\ \A i \in 1 .. Len(bytes) : Put(p, bytes).buffer[p.rear + i] = bytes[i]
         /\ /\ HeaderSize + INITIAL_PAYLOAD <= p.bufferSize /\ p.rear <= p.bufferSize
            /\ HeaderSize + INITIAL_PAYLOAD <= RINGBUFFER_SIZE
            /\ Len(bytes) <= INITIAL_PAYLOAD /\ p.rear + Len(bytes) <= RINGBUFFER_SIZE
            => /\ HeaderSize + INITIAL_PAYLOAD <= Put(p, bytes).bufferSize
               /\ ~Overrun(Put(p, bytes))
<1> DEFINE q == IF Room(p) < Len(bytes) THEN Resize(p) ELSE p
<1>1. Written(q) /\ q.rear = p.rear /\ q.buffer = p.buffer
  BY ResizeKeeps
<1>2. Put(p, bytes) = [q EXCEPT !.buffer = SubSeq(q.buffer, 1, q.rear) \o bytes,
                                !.rear = q.rear + Len(bytes)]
  BY DEF Put
<1> HIDE DEF q
<1>3. SubSeq(q.buffer, 1, q.rear) = q.buffer
  <2>1. q.buffer \in Seq(Byte) /\ Len(q.buffer) = q.rear
    BY <1>1 DEF Written
  <2> QED BY <2>1, SubSeqFull
<1> DEFINE r == [q EXCEPT !.buffer = q.buffer \o bytes, !.rear = q.rear + Len(bytes)]
<1>4. Put(p, bytes) = r
  BY <1>2, <1>3
<1>5. q.buffer \in Seq(Byte) /\ Len(q.buffer) = p.rear /\ p.rear \in Nat /\ Len(bytes) \in Nat
      /\ p.rear >= HeaderSize /\ q.rear = p.rear
  BY <1>1 DEF Written
<1>6. /\ q.buffer \o bytes \in Seq(Byte) /\ Len(q.buffer \o bytes) = p.rear + Len(bytes)
      /\ \A i \in 1 .. p.rear + Len(bytes) :
            (q.buffer \o bytes)[i] = IF i <= p.rear THEN q.buffer[i] ELSE bytes[i - p.rear]
  <2> DEFINE b == q.buffer
  <2>1. b \in Seq(Byte) /\ Len(b) = p.rear
    BY <1>5
  <2> HIDE DEF b
  <2>2. /\ b \o bytes \in Seq(Byte) /\ Len(b \o bytes) = Len(b) + Len(bytes)
        /\ \A i \in 1 .. Len(b) + Len(bytes) :
              (b \o bytes)[i] = IF i <= Len(b) THEN b[i] ELSE bytes[i - Len(b)]
    BY <2>1, ConcatProperties, Zenon
  <2> QED BY <2>1, <2>2, Zenon DEF b
<1> DEFINE joined == q.buffer \o bytes
<1> HIDE DEF joined
<1>7. /\ joined \in Seq(Byte) /\ Len(joined) = p.rear + Len(bytes)
      /\ \A i \in 1 .. p.rear + Len(bytes) :
            joined[i] = IF i <= p.rear THEN q.buffer[i] ELSE bytes[i - p.rear]
  BY <1>6, Zenon DEF joined
<1>8. r = [q EXCEPT !.buffer = joined, !.rear = p.rear + Len(bytes)]
  BY <1>5 DEF joined
<1> HIDE DEF r
<1>9. /\ Written(r) /\ r.rear = p.rear + Len(bytes) /\ r.buffer = joined
      /\ r.bufferSize = q.bufferSize
  <2>1. q \in [bufferSize : Int, front : Nat, rear : Nat, buffer : Seq(Byte)]
        /\ q.front = HeaderSize
    BY <1>1 DEF Written
  <2>2. p.rear + Len(bytes) \in Nat /\ p.rear + Len(bytes) >= HeaderSize
    BY <1>5 DEF HeaderSize
  <2>3. r.rear = p.rear + Len(bytes) /\ r.buffer = joined /\ r.bufferSize = q.bufferSize
        /\ r.front = HeaderSize
        /\ r \in [bufferSize : Int, front : Nat, rear : Nat, buffer : Seq(Byte)]
    BY <1>7, <1>8, <2>1, <2>2
  <2> QED BY <1>7, <2>2, <2>3 DEF Written
<1>10. \A i \in 1 .. p.rear : joined[i] = p.buffer[i]
  BY <1>1, <1>5, <1>7
<1>11. ASSUME NEW i \in 1 .. Len(bytes) PROVE joined[p.rear + i] = bytes[i]
  <2>1. p.rear + i \in 1 .. p.rear + Len(bytes) /\ ~(p.rear + i <= p.rear)
        /\ (p.rear + i) - p.rear = i
    BY <1>5
  <2> QED BY <1>7, <2>1
<1>12. ASSUME HeaderSize + INITIAL_PAYLOAD <= p.bufferSize, p.rear <= p.bufferSize,
              HeaderSize + INITIAL_PAYLOAD <= RINGBUFFER_SIZE,
              Len(bytes) <= INITIAL_PAYLOAD, p.rear + Len(bytes) <= RINGBUFFER_SIZE
       PROVE  HeaderSize + INITIAL_PAYLOAD <= q.bufferSize /\ p.rear + Len(bytes) <= q.bufferSize
  <2>1. p.bufferSize \in Int /\ p.rear \in Nat /\ Len(bytes) \in Nat
    BY <1>5 DEF Written
  <2>2. CASE Room(p) < Len(bytes) /\ p.bufferSize # RINGBUFFER_SIZE
    <3> DEFINE size == (p.bufferSize - HeaderSize) * 2 + HeaderSize
    <3>1. q.bufferSize = IF size > RINGBUFFER_SIZE THEN RINGBUFFER_SIZE ELSE size
      BY <2>2, ResizeKeeps DEF q
    <3> QED BY <1>12, <2>1, <3>1, PayloadAssumption, SMTT(40) DEF HeaderSize
  <2>3. CASE Room(p) < Len(bytes) /\ p.bufferSize = RINGBUFFER_SIZE
    <3>1. q = p
      BY <2>3, ResizeKeeps DEF q
    <3> QED BY <1>12, <2>3, <3>1
  <2>4. CASE ~(Room(p) < Len(bytes))
    <3>1. q = p
      BY <2>4 DEF q
    <3> QED BY <1>12, <2>1, <2>4, <3>1 DEF Room
  <2> QED BY <2>2, <2>3, <2>4
<1>13. ASSUME HeaderSize + INITIAL_PAYLOAD <= q.bufferSize, p.rear + Len(bytes) <= q.bufferSize
       PROVE  HeaderSize + INITIAL_PAYLOAD <= r.bufferSize /\ ~Overrun(r)
  <2>1. q.bufferSize \in Int
    BY <1>1 DEF Written
  <2> QED BY <1>5, <1>9, <1>13, <2>1 DEF Overrun
<1> QED BY <1>4, <1>9, <1>10, <1>11, <1>12, <1>13

\* Build puts the fields one by one.
BuiltTo(f, fields, n) ==
    f = [i \in 0 .. n |-> IF i = 0 THEN NewPacket ELSE Put(f[i - 1], fields[i])]

\* There is such a function for all fields.
LEMMA BuildExists == ASSUME NEW fields PROVE \A n \in Nat : \E f : BuiltTo(f, fields, n)
<1> DEFINE S == {n \in Nat : \E f : BuiltTo(f, fields, n)}
<1>1. 0 \in S
  <2>1. BuiltTo([i \in 0 .. 0 |-> NewPacket], fields, 0)
    BY DEF BuiltTo
  <2> QED BY <2>1
<1>2. ASSUME NEW n \in Nat, n \in S PROVE n + 1 \in S
  <2>1. PICK f : BuiltTo(f, fields, n)
    BY <1>2
  <2> DEFINE g == [i \in 0 .. n + 1 |->
                      IF i = n + 1 THEN Put(f[n], fields[n + 1]) ELSE f[i]]
  <2>2. \A i \in 0 .. n : f[i] = IF i = 0 THEN NewPacket ELSE Put(f[i - 1], fields[i])
    BY <2>1 DEF BuiltTo
  <2>3. \A i \in 0 .. n + 1 : g[i] = IF i = 0 THEN NewPacket ELSE Put(g[i - 1], fields[i])
    BY <2>2
  <2>4. BuiltTo(g, fields, n + 1)
    BY <2>3 DEF BuiltTo
  <2> QED BY <2>4
<1> HIDE DEF S
<1>3. \A n \in Nat : n \in S
  BY <1>1, <1>2, Induction
<1> QED BY <1>3 DEF S

\* A new packet is well written: no payload yet.
LEMMA NewWritten ==
  Written(NewPacket) /\ NewPacket.rear = HeaderSize
  /\ NewPacket.bufferSize = INITIAL_PAYLOAD + HeaderSize
<1>1. 0 \in Byte
  BY Bytes
<1>2. [i \in 1 .. 4 |-> 0] \in Seq(Byte) /\ Len([i \in 1 .. 4 |-> 0]) = 4
  BY <1>1
<1>3. INITIAL_PAYLOAD + 4 \in Int
  BY PayloadAssumption
<1> QED BY <1>2, <1>3 DEF Written, NewPacket, HeaderSize

\* The packets Build goes through
BuildTrace(f, fields) ==
    /\ Build(fields) = f[Len(fields)]
    /\ f[0] = NewPacket
    /\ \A k \in 0 .. Len(fields) : Written(f[k])
    /\ \A k \in 1 .. Len(fields) :
          f[k] = Put(f[k - 1], fields[k]) /\ f[k].rear = f[k - 1].rear + Len(fields[k])

\* Build puts field after field, each behind the one before.
LEMMA BuildSteps ==
  ASSUME NEW fields \in Seq(Seq(Byte))
  PROVE  \E f : BuildTrace(f, fields)
<1> DEFINE f == CHOOSE g : BuiltTo(g, fields, Len(fields))
           n == Len(fields)
<1>1. BuiltTo(f, fields, n) /\ n \in Nat
  BY BuildExists
<1>2. Build(fields) = f[n]
  BY DEF Build, BuiltTo
<1> HIDE DEF f
<1>3. \A i \in 0 .. n : f[i] = IF i = 0 THEN NewPacket ELSE Put(f[i - 1], fields[i])
  BY <1>1 DEF BuiltTo
<1>4. f[0] = NewPacket /\ \A i \in 1 .. n : f[i] = Put(f[i - 1], fields[i])
  BY <1>1, <1>3
<1> DEFINE S == {k \in Nat : k <= n => Written(f[k])}
<1>5. 0 \in S
  BY <1>4, NewWritten
<1>6. ASSUME NEW k \in Nat, k \in S PROVE k + 1 \in S
  <2>1. SUFFICES ASSUME k + 1 <= n PROVE Written(f[k + 1])
    OBVIOUS
  <2>2. k + 1 \in 1 .. n /\ (k + 1) - 1 = k /\ Written(f[k])
    BY <1>1, <1>6, <2>1
  <2>3. fields[k + 1] \in Seq(Byte)
    BY <2>2, ElementOfSeq
  <2>4. f[k + 1] = Put(f[k], fields[k + 1])
    BY <1>4, <2>2
  <2> QED BY <2>2, <2>3, <2>4, PutAppends
<1> HIDE DEF S
<1>7. \A k \in Nat : k \in S
  BY <1>5, <1>6, Induction
<1>8. \A k \in 0 .. n : Written(f[k])
  BY <1>1, <1>7 DEF S
<1>9. ASSUME NEW k \in 1 .. n PROVE f[k].rear = f[k - 1].rear + Len(fields[k])
  <2>1. k - 1 \in 0 .. n
    BY <1>1
  <2>2. Written(f[k - 1]) /\ fields[k] \in Seq(Byte) /\ f[k] = Put(f[k - 1], fields[k])
    BY <1>4, <1>8, <2>1, ElementOfSeq
  <2> QED BY <2>2, PutAppends, SMTT(40)
<1> HIDE DEF n
<1>10. BuildTrace(f, fields)
  BY <1>2, <1>4, <1>8, <1>9 DEF BuildTrace, n
<1> QED BY <1>10

\* What a field is put to stays there.
LEMMA FieldsStay ==
  ASSUME NEW fields \in Seq(Seq(Byte)), NEW f, BuildTrace(f, fields)
  PROVE  \A k \in 0 .. Len(fields) : \A i \in 1 .. k :
            /\ f[i].rear <= f[k].rear
            /\ \A j \in 1 .. Len(fields[i]) : f[k].buffer[f[i - 1].rear + j] = fields[i][j]
<1> DEFINE n == Len(fields)
           Kept(k, i) ==
              /\ f[i].rear <= f[k].rear
              /\ \A j \in 1 .. Len(fields[i]) : f[k].buffer[f[i - 1].rear + j] = fields[i][j]
           S == {k \in Nat : k <= n => \A i \in 1 .. k : Kept(k, i)}
<1>1. n \in Nat
  OBVIOUS
<1>2. \A k \in 0 .. n : Written(f[k])
  BY DEF BuildTrace
<1>3. 0 \in S
  OBVIOUS
<1>4. ASSUME NEW k \in Nat, k \in S PROVE k + 1 \in S
  <2>1. SUFFICES ASSUME k + 1 <= n, NEW i \in 1 .. k + 1 PROVE Kept(k + 1, i)
    OBVIOUS
  <2>2. k + 1 \in 1 .. n /\ k + 1 \in 0 .. n /\ k \in 0 .. n /\ (k + 1) - 1 = k
    BY <1>1, <2>1
  <2> DEFINE p == f[k]
             q == f[k + 1]
             bytes == fields[k + 1]
  <2>3. Written(p) /\ Written(q) /\ bytes \in Seq(Byte) /\ q = Put(p, bytes)
        /\ q.rear = p.rear + Len(bytes)
    BY <1>2, <2>2, ElementOfSeq DEF BuildTrace
  <2>4. p.rear \in Nat /\ q.rear \in Nat /\ Len(bytes) \in Nat
    BY <2>3, LenProperties DEF Written
  <2> HIDE DEF p, q, bytes
  <2>5. /\ \A j \in 1 .. p.rear : q.buffer[j] = p.buffer[j]
        /\ \A j \in 1 .. Len(bytes) : q.buffer[p.rear + j] = bytes[j]
    BY <2>3, PutAppends
  <2>6. CASE i = k + 1
    <3>1. i - 1 = k /\ f[i] = q /\ f[i - 1] = p /\ fields[i] = bytes /\ f[k + 1] = q
      BY <2>2, <2>6 DEF p, q, bytes
    <3> QED BY <2>4, <2>5, <3>1
  <2>7. CASE i # k + 1
    <3>1. i \in 1 .. k /\ i \in 1 .. n /\ i - 1 \in 0 .. n /\ i \in 0 .. n
      BY <1>1, <2>1, <2>7
    <3>2. Kept(k, i)
      BY <1>4, <2>1, <3>1
    <3>3. f[i].rear = f[i - 1].rear + Len(fields[i]) /\ f[i - 1].rear \in Nat
          /\ f[i].rear \in Nat /\ Len(fields[i]) \in Nat
      <4>1. fields[i] \in Seq(Byte)
        BY <3>1, ElementOfSeq
      <4>2. Written(f[i - 1]) /\ Written(f[i])
        BY <1>2, <3>1
      <4>3. f[i].rear = f[i - 1].rear + Len(fields[i])
        BY <3>1 DEF BuildTrace
      <4>4. f[i - 1].rear \in Nat /\ f[i].rear \in Nat
        BY <4>2 DEF Written
      <4> QED BY <4>1, <4>3, <4>4, LenProperties
    <3> DEFINE base == f[i - 1].rear
               field == fields[i]
    <3>4. f[i].rear <= p.rear /\ \A j \in 1 .. Len(field) : p.buffer[base + j] = field[j]
      BY <3>2 DEF p
    <3>5. base + Len(field) <= p.rear /\ base \in Nat /\ Len(field) \in Nat
      BY <3>3, <3>4
    <3> HIDE DEF base, field
    <3>6. ASSUME NEW j \in 1 .. Len(field) PROVE q.buffer[base + j] = field[j]
      <4>1. base + j \in 1 .. p.rear
        BY <2>4, <3>5
      <4> QED BY <2>5, <3>4, <4>1
    <3>7. f[i].rear <= q.rear
      BY <2>3, <2>4, <3>3, <3>4
    <3> QED BY <3>6, <3>7 DEF base, field, q
  <2> QED BY <2>6, <2>7
<1> HIDE DEF S
<1>5. \A k \in Nat : k \in S
  BY <1>3, <1>4, Induction
<1>6. \A k \in 0 .. n : k \in Nat /\ k <= n
  BY <1>1
<1> HIDE DEF Kept, n
<1>7. \A k \in 0 .. n : \A i \in 1 .. k : Kept(k, i)
  BY <1>5, <1>6 DEF S
<1> QED BY <1>7 DEF Kept, n

\* No put writes past the buffer while the packet may grow as far as it has to.
LEMMA NoOverrun ==
  ASSUME NEW fields \in Seq(Seq(Byte)), NEW f, BuildTrace(f, fields),
         HeaderSize + INITIAL_PAYLOAD <= RINGBUFFER_SIZE,
         \A i \in 1 .. Len(fields) : Len(fields[i]) <= INITIAL_PAYLOAD,
         Build(fields).rear <= RINGBUFFER_SIZE
  PROVE  \A k \in 0 .. Len(fields) : ~Overrun(f[k])
<1> DEFINE n == Len(fields)
           Fits(p) == HeaderSize + INITIAL_PAYLOAD <= p.bufferSize /\ ~Overrun(p)
           S == {k \in Nat : k <= n => Fits(f[k])}
<1>1. n \in Nat
  OBVIOUS
<1>2. \A k \in 0 .. n : Written(f[k]) /\ f[k].rear \in Nat /\ f[k].bufferSize \in Int
  BY DEF BuildTrace, Written
<1>3. 0 \in S
  <2>1. f[0] = NewPacket
    BY DEF BuildTrace
  <2>2. Fits(NewPacket)
    BY NewWritten, PayloadAssumption DEF Overrun, HeaderSize
  <2> QED BY <2>1, <2>2
<1>4. ASSUME NEW k \in Nat, k \in S PROVE k + 1 \in S
  <2>1. SUFFICES ASSUME k + 1 <= n PROVE Fits(f[k + 1])
    OBVIOUS
  <2>2. k + 1 \in 1 .. n /\ k + 1 \in 0 .. n /\ k \in 0 .. n /\ (k + 1) - 1 = k /\ n \in 0 .. n
    BY <1>1, <2>1
  <2> DEFINE p == f[k]
             q == f[k + 1]
             bytes == fields[k + 1]
  <2>3. Written(p) /\ bytes \in Seq(Byte) /\ q = Put(p, bytes) /\ q.rear = p.rear + Len(bytes)
        /\ Len(bytes) <= INITIAL_PAYLOAD
    BY <1>2, <2>2, ElementOfSeq DEF BuildTrace
  <2>4. Fits(p) /\ p.rear \in Nat /\ p.bufferSize \in Int
    BY <1>1, <1>2, <1>4, <2>1, <2>2
  <2>5. q.rear <= RINGBUFFER_SIZE
    <3>1. f[k + 1].rear <= f[n].rear
      BY <2>2, FieldsStay
    <3>2. f[n].rear <= RINGBUFFER_SIZE
      BY DEF BuildTrace
    <3>3. f[k + 1].rear \in Nat /\ f[n].rear \in Nat
      BY <1>2, <2>2
    <3> QED BY <3>1, <3>2, <3>3, PayloadAssumption
  <2> HIDE DEF p, q, bytes
  <2>6. p.rear <= p.bufferSize
    BY <2>4 DEF Overrun
  <2>7. Fits(q)
    BY <2>3, <2>4, <2>5, <2>6, PutAppends
  <2> QED BY <2>7 DEF q
<1> HIDE DEF S
<1>5. \A k \in Nat : k \in S
  BY <1>3, <1>4, Induction
<1>6. \A k \in 0 .. n : k \in Nat /\ k <= n
  BY <1>1
<1> HIDE DEF Fits, n
<1>7. \A k \in 0 .. n : Fits(f[k])
  BY <1>5, <1>6 DEF S
<1> QED BY <1>7 DEF Fits, n

-----------------------------------------------------------------------------
(* From the packet to the wire and back *)

\* The payload of a packet that is being written is what lies behind its header.
LEMMA PayloadOf ==
  ASSUME NEW p, Written(p)
  PROVE  /\ Payload(p) \in Seq(Byte) /\ Len(Payload(p)) = UsedDataSize(p)
         /\ Len(Payload(p)) = p.rear - HeaderSize
         /\ \A j \in 1 .. Len(Payload(p)) : Payload(p)[j] = p.buffer[HeaderSize + j]
<1>1. p.buffer \in Seq(Byte) /\ Len(p.buffer) = p.rear /\ p.rear \in Nat /\ p.rear >= 4
      /\ UsedDataSize(p) = p.rear - 4
  BY DEF Written, HeaderSize, UsedDataSize
<1> DEFINE b == p.buffer
           n == p.rear
<1> HIDE DEF b, n
<1>2. b \in Seq(Byte) /\ Len(b) = n /\ n \in Nat /\ n >= 4
  BY <1>1 DEF b, n
<1>3. \A i \in 5 .. n : b[i] \in Byte
  BY <1>2
<1>4. /\ SubSeq(b, 5, n) \in Seq(Byte)
      /\ Len(SubSeq(b, 5, n)) = IF 5 <= n THEN n - 5 + 1 ELSE 0
      /\ \A i \in 1 .. n - 5 + 1 : SubSeq(b, 5, n)[i] = b[5 + i - 1]
  BY <1>2, <1>3, SubSeqProperties
<1> DEFINE w == SubSeq(b, 5, n)
<1>5. Payload(p) = w
  BY DEF Payload, HeaderSize, b, n
<1> HIDE DEF w
<1>6. w \in Seq(Byte) /\ Len(w) = n - 4 /\ \A i \in 1 .. n - 4 : w[i] = b[4 + i]
  <2>1. /\ w \in Seq(Byte) /\ Len(w) = IF 5 <= n THEN n - 5 + 1 ELSE 0
        /\ \A i \in 1 .. n - 5 + 1 : w[i] = b[5 + i - 1]
    BY <1>4 DEF w
  <2>2. \A i \in 1 .. n - 4 : i \in 1 .. n - 5 + 1 /\ 5 + i - 1 = 4 + i
    BY <1>2
  <2> QED BY <1>2, <2>1, <2>2
<1> QED BY <1>1, <1>5, <1>6 DEF b, n, HeaderSize

\* What SetHeader puts on the wire, and what RecvProc takes from it
OnWire(cells, payload, key, e) ==
    /\ payload \in Seq(Byte) /\ key \in Byte /\ e = Encode(payload, key)
    /\ cells = Header(PACKET_CODE, Len(payload), key, e[1]) \o Tail(e)

\* The cells of a message: the header, and the encoding behind it.
LEMMA WireCells ==
  ASSUME NEW cells, NEW payload, NEW key, NEW e, OnWire(cells, payload, key, e)
  PROVE  /\ cells \in Seq(Nat) /\ Len(cells) = HeaderSize + Len(payload) /\ Len(payload) \in Nat
         /\ cells[1] = PACKET_CODE /\ cells[2] = Len(payload)
         /\ cells[3] = key /\ cells[4] = e[1]
         /\ \A i \in 1 .. Len(payload) : cells[4 + i] = e[i + 1]
         /\ SubSeq(cells, 1, HeaderSize) = Header(PACKET_CODE, Len(payload), key, e[1])
         /\ SubSeq(cells, HeaderSize + 1, Len(cells)) = Tail(e)
         /\ e \in Seq(Byte) /\ Len(e) = Len(payload) + 1
<1>1. payload \in Seq(Byte) /\ key \in Byte /\ e = Encode(payload, key)
      /\ cells = Header(PACKET_CODE, Len(payload), key, e[1]) \o Tail(e)
  BY DEF OnWire
<1>2. e \in Seq(Byte) /\ Len(e) = Len(payload) + 1
  <2> DEFINE q == Received(Header(PACKET_CODE, Len(payload), key, e[1]), Tail(e))
  <2>1. Genuinely(q, payload, key, e)
    BY <1>1 DEF Genuinely
  <2> HIDE DEF q
  <2> QED BY <2>1, GenuineReceived, Zenon
<1>3. e[1] \in Byte /\ Tail(e) \in Seq(Byte) /\ Len(Tail(e)) = Len(payload)
      /\ \A i \in 1 .. Len(payload) : Tail(e)[i] = e[i + 1]
  BY <1>1, <1>2
<1> DEFINE t == Tail(e)
<1> HIDE DEF t
<1>4. HeaderAndRest(cells, PACKET_CODE, Len(payload), key, e[1], t)
  <2>1. Len(payload) \in Nat /\ PACKET_CODE \in Nat /\ key \in Nat /\ e[1] \in Nat
    <3>1. Len(payload) \in Nat
      BY <1>1
    <3>2. PACKET_CODE \in Byte /\ key \in Byte /\ e[1] \in Byte /\ Byte \subseteq Nat
      BY <1>1, <1>3, Bytes
    <3> QED BY <3>1, <3>2
  <2>2. t \in Seq(Nat)
    BY <1>3, ByteSeq DEF t
  <2> QED BY <1>1, <2>1, <2>2 DEF HeaderAndRest, t
<1>5. /\ cells \in Seq(Nat) /\ Len(cells) = 4 + Len(t) /\ Len(t) \in Nat
      /\ cells[1] = PACKET_CODE /\ cells[2] = Len(payload) /\ cells[3] = key /\ cells[4] = e[1]
      /\ \A i \in 1 .. Len(t) : cells[4 + i] = t[i]
      /\ SubSeq(cells, 1, 4) = Header(PACKET_CODE, Len(payload), key, e[1])
      /\ SubSeq(cells, 5, Len(cells)) = t
  BY <1>4, FourAndRest, Zenon
<1>6. Len(t) = Len(payload) /\ \A i \in 1 .. Len(payload) : t[i] = e[i + 1]
  BY <1>3 DEF t
<1>7. HeaderSize = 4 /\ HeaderSize + 1 = 5
  BY DEF HeaderSize
<1>8. SubSeq(cells, HeaderSize + 1, Len(cells)) = Tail(e)
  BY <1>5, <1>7, Zenon DEF t
<1>9. SubSeq(cells, 1, HeaderSize) = Header(PACKET_CODE, Len(payload), key, e[1])
  BY <1>5, <1>7, Zenon
<1>10. \A i \in 1 .. Len(payload) : cells[4 + i] = e[i + 1]
  BY <1>5, <1>6
<1>11. Len(cells) = HeaderSize + Len(payload) /\ Len(payload) \in Nat
  BY <1>5, <1>6, <1>7
<1> QED BY <1>2, <1>5, <1>8, <1>9, <1>10, <1>11, Zenon

\* SetHeader of a packet that has been written
LEMMA HeaderSet ==
  ASSUME NEW p, Written(p), NEW key \in Byte
  PROVE  OnWire(SetHeader(p, key), Payload(p), key, Encode(Payload(p), key))
<1>1. Payload(p) \in Seq(Byte) /\ Len(Payload(p)) = UsedDataSize(p)
  BY PayloadOf
<1> QED BY <1>1 DEF OnWire, SetHeader

\* The places at which the fields are taken out again
TakenAt(g, fields, q, n) ==
    g = [i \in 1 .. n |-> IF i = 1 THEN q ELSE AfterExtract(g[i - 1], Len(fields[i - 1]))]

\* There is such a function for all fields.
LEMMA TakenExists ==
  ASSUME NEW fields, NEW q PROVE \A n \in Nat : \E g : TakenAt(g, fields, q, n)
<1> DEFINE S == {n \in Nat : \E g : TakenAt(g, fields, q, n)}
<1>1. 0 \in S
  <2>1. TakenAt([i \in 1 .. 0 |-> q], fields, q, 0)
    BY DEF TakenAt
  <2> QED BY <2>1
<1>2. ASSUME NEW n \in Nat, n \in S PROVE n + 1 \in S
  <2>1. PICK g : TakenAt(g, fields, q, n)
    BY <1>2
  <2> DEFINE last == IF n = 0 THEN q ELSE AfterExtract(g[n], Len(fields[n]))
             h == [i \in 1 .. n + 1 |-> IF i = n + 1 THEN last ELSE g[i]]
  <2>2. \A i \in 1 .. n :
          g[i] = IF i = 1 THEN q ELSE AfterExtract(g[i - 1], Len(fields[i - 1]))
    BY <2>1 DEF TakenAt
  <2>3. \A i \in 1 .. n + 1 :
          h[i] = IF i = 1 THEN q ELSE AfterExtract(h[i - 1], Len(fields[i - 1]))
    BY <2>2
  <2>4. TakenAt(h, fields, q, n + 1)
    BY <2>3 DEF TakenAt
  <2> QED BY <2>4
<1> HIDE DEF S
<1>3. \A n \in Nat : n \in S
  BY <1>1, <1>2, Induction
<1> QED BY <1>3 DEF S

\* What is taken out of a packet moves front_ and nothing else.
LEMMA Taken ==
  ASSUME NEW r \in [bufferSize : Int, front : Nat, rear : Nat, buffer : Seq(Nat)], NEW m \in Nat
  PROVE  /\ AfterExtract(r, m) \in [bufferSize : Int, front : Nat, rear : Nat, buffer : Seq(Nat)]
         /\ AfterExtract(r, m).front = r.front + m
         /\ AfterExtract(r, m).rear = r.rear /\ AfterExtract(r, m).buffer = r.buffer
BY DEF AfterExtract

\* Whatever fields are put into a packet, each no longer than the payload of a new one and
\* all of them no longer than the largest buffer, come out at the other end, for every
\* key; and none is written past the buffer (Packet.h:67, 134, 497-531).
THEOREM FieldsComeBack ==
  ASSUME NEW fields \in Seq(Seq(Byte)), NEW key \in Byte,
         HeaderSize + INITIAL_PAYLOAD <= RINGBUFFER_SIZE,
         \A i \in 1 .. Len(fields) : Len(fields[i]) <= INITIAL_PAYLOAD,
         Build(fields).rear <= RINGBUFFER_SIZE
  PROVE  RoundTrip(fields, key)
<1> DEFINE n == Len(fields)
           p == Build(fields)
           payload == Payload(p)
           e == Encode(payload, key)
           cells == SetHeader(p, key)
           q == Received(SubSeq(cells, 1, HeaderSize), SubSeq(cells, HeaderSize + 1, Len(cells)))
           at == CHOOSE g : TakenAt(g, fields, q, n)
<1>1. PICK f : BuildTrace(f, fields)
  BY BuildSteps
<1>2. n \in Nat /\ \A i \in 1 .. n : fields[i] \in Seq(Byte) /\ Len(fields[i]) \in Nat
  <2>1. ASSUME NEW i \in 1 .. n PROVE fields[i] \in Seq(Byte) /\ Len(fields[i]) \in Nat
    <3>1. fields[i] \in Seq(Byte)
      BY ElementOfSeq
    <3> QED BY <3>1, LenProperties
  <2> QED BY <2>1, LenProperties
<1>3. /\ p = f[n] /\ f[0] = NewPacket
      /\ \A k \in 0 .. n : Written(f[k]) /\ f[k].rear \in Nat /\ f[k].rear >= HeaderSize
      /\ \A k \in 1 .. n : f[k].rear = f[k - 1].rear + Len(fields[k])
  BY <1>1 DEF BuildTrace, Written
<1>4. ~Overrun(p)
  BY <1>1, <1>2, <1>3, NoOverrun
<1>5. Written(p)
  BY <1>2, <1>3
<1>6. /\ payload \in Seq(Byte) /\ Len(payload) \in Nat /\ Len(payload) = p.rear - HeaderSize
      /\ \A j \in 1 .. Len(payload) : payload[j] = p.buffer[HeaderSize + j]
  BY <1>5, PayloadOf
<1>7. OnWire(cells, payload, key, e)
  BY <1>5, HeaderSet
<1> HIDE DEF p, payload, e, cells
<1>8. SubSeq(cells, 1, HeaderSize) = Header(PACKET_CODE, Len(payload), key, e[1])
      /\ SubSeq(cells, HeaderSize + 1, Len(cells)) = Tail(e)
  <2>1. SubSeq(cells, 1, HeaderSize) = Header(PACKET_CODE, Len(payload), key, e[1])
    BY <1>7, WireCells, SMT
  <2>2. SubSeq(cells, HeaderSize + 1, Len(cells)) = Tail(e)
    BY <1>7, WireCells, Zenon
  <2> QED BY <2>1, <2>2
<1>9. Genuinely(q, payload, key, e)
  BY <1>7, <1>8 DEF OnWire, Genuinely
<1> DEFINE Packets == [bufferSize : Int, front : Nat, rear : Nat, buffer : Seq(Nat)]
<1> HIDE DEF q
<1>10. /\ ValidateReceived(q)
       /\ q.front = HeaderSize /\ q.rear = HeaderSize + Len(payload)
       /\ q.buffer = Header(PACKET_CODE, Len(payload), key, GetCheckSum(payload)) \o payload
  BY <1>9, GenuineReceived, Zenon
<1>11. /\ q.buffer \in Seq(Nat)
       /\ \A j \in 1 .. Len(payload) : q.buffer[HeaderSize + j] = payload[j]
  <2> DEFINE b == q.buffer
             sum == GetCheckSum(payload)
  <2>1. Len(payload) \in Nat /\ PACKET_CODE \in Nat /\ key \in Nat /\ sum \in Nat
    <3>1. PACKET_CODE \in Byte /\ key \in Byte /\ sum \in Byte /\ Byte \subseteq Nat
      BY <1>6, Bytes, PlainBytes
    <3> QED BY <1>6, <3>1
  <2>2. payload \in Seq(Nat)
    BY <1>6, ByteSeq
  <2> HIDE DEF sum
  <2>3. b = Header(PACKET_CODE, Len(payload), key, sum) \o payload
    BY <1>10 DEF sum
  <2> HIDE DEF b
  <2>4. HeaderAndRest(b, PACKET_CODE, Len(payload), key, sum, payload)
    BY <2>1, <2>2, <2>3 DEF HeaderAndRest
  <2>5. b \in Seq(Nat) /\ \A j \in 1 .. Len(payload) : b[4 + j] = payload[j]
    BY <2>4, FourAndRest
  <2> QED BY <2>5 DEF b, HeaderSize
<1>12. q \in Packets
  <2>1. PICK x, y : q = [NewPacket EXCEPT !.rear = x, !.buffer = y]
    BY DEF q, Received
  <2>2. NewPacket \in [bufferSize : Int, front : Nat, rear : Nat, buffer : Seq(Byte)]
    BY NewWritten DEF Written
  <2>3. q.rear = x /\ q.buffer = y
    BY <2>1, <2>2
  <2>4. q.rear \in Nat
    BY <1>6, <1>10 DEF HeaderSize
  <2>5. q.buffer \in Seq(Nat)
    BY <1>11
  <2> QED BY <2>1, <2>2, <2>3, <2>4, <2>5
<1>13. TakenAt(at, fields, q, n)
  BY <1>2, TakenExists
<1> HIDE DEF at
<1>14. \A i \in 1 .. n :
          at[i] = IF i = 1 THEN q ELSE AfterExtract(at[i - 1], Len(fields[i - 1]))
  BY <1>13 DEF TakenAt
<1> DEFINE S == {i \in Nat : i + 1 <= n => /\ at[i + 1] \in Packets
                                           /\ at[i + 1].front = f[i].rear
                                           /\ at[i + 1].rear = q.rear
                                           /\ at[i + 1].buffer = q.buffer}
<1>15. 0 \in S
  <2>1. SUFFICES ASSUME 1 <= n
                 PROVE  /\ at[1] \in Packets /\ at[1].front = f[0].rear
                        /\ at[1].rear = q.rear /\ at[1].buffer = q.buffer
    OBVIOUS
  <2>2. at[1] = q
    BY <1>2, <1>14, <2>1
  <2>3. f[0].rear = q.front
    BY <1>3, <1>10, NewWritten
  <2> HIDE DEF Packets
  <2> QED BY <1>12, <2>2, <2>3
<1>16. ASSUME NEW i \in Nat, i \in S PROVE i + 1 \in S
  <2> DEFINE before == at[i + 1]
             after == at[(i + 1) + 1]
  <2>1. SUFFICES ASSUME (i + 1) + 1 <= n
                 PROVE  /\ after \in Packets /\ after.front = f[i + 1].rear
                        /\ after.rear = q.rear /\ after.buffer = q.buffer
    OBVIOUS
  <2>2. (i + 1) + 1 \in 1 .. n /\ i + 1 \in 1 .. n /\ (i + 1) + 1 # 1
        /\ ((i + 1) + 1) - 1 = i + 1 /\ (i + 1) - 1 = i
    BY <1>2, <2>1
  <2>3. after = AfterExtract(before, Len(fields[i + 1]))
    BY <1>14, <2>2
  <2>4. /\ before \in Packets /\ before.front = f[i].rear
        /\ before.rear = q.rear /\ before.buffer = q.buffer
    BY <1>16, <2>2
  <2>5. f[i + 1].rear = f[i].rear + Len(fields[i + 1])
    BY <1>3, <2>2
  <2>6. Len(fields[i + 1]) \in Nat
    BY <1>2, <2>2
  <2> HIDE DEF before, after
  <2> HIDE DEF Packets
  <2>7. /\ after \in Packets /\ after.front = before.front + Len(fields[i + 1])
        /\ after.rear = before.rear /\ after.buffer = before.buffer
    BY <2>3, <2>4, <2>6, Taken DEF Packets
  <2> QED BY <2>4, <2>5, <2>7
<1> HIDE DEF S
<1>17. \A i \in Nat : i \in S
  BY <1>15, <1>16, Induction
<1>18. ASSUME NEW i \in 1 .. n
       PROVE  /\ CanExtract(at[i], Len(fields[i]))
              /\ Extracted(at[i], Len(fields[i])) = fields[i]
  <2> DEFINE base == f[i - 1].rear
             field == fields[i]
             m == Len(fields[i])
             b == q.buffer
  <2>1. i \in Nat /\ i - 1 \in Nat /\ (i - 1) + 1 = i /\ i - 1 \in 0 .. n /\ i \in 0 .. n
        /\ n \in 0 .. n
    BY <1>2
  <2>2. i - 1 \in S /\ (i - 1) + 1 <= n
    BY <1>2, <1>17, <2>1
  <2>3. at[i].front = base /\ at[i].rear = q.rear /\ at[i].buffer = b
    BY <2>1, <2>2 DEF S
  <2>4. base \in Nat /\ base >= HeaderSize /\ m \in Nat /\ f[i].rear = base + m
        /\ field \in Seq(Byte)
    BY <1>2, <1>3, <2>1
  <2>5. base + m <= p.rear /\ p.rear \in Nat
    <3>1. f[i].rear <= f[n].rear
      BY <1>1, <2>1, FieldsStay
    <3>2. f[n].rear \in Nat
      BY <1>3, <2>1
    <3> QED BY <1>3, <2>4, <3>1, <3>2
  <2>6. \A j \in 1 .. m : p.buffer[base + j] = field[j]
    <3>1. \A k \in 0 .. n : \A i0 \in 1 .. k : \A j \in 1 .. Len(fields[i0]) :
            f[k].buffer[f[i0 - 1].rear + j] = fields[i0][j]
      BY <1>1, FieldsStay
    <3>2. \A j \in 1 .. Len(fields[i]) : f[n].buffer[f[i - 1].rear + j] = fields[i][j]
      BY <2>1, <3>1
    <3> QED BY <1>3, <3>2
  <2>7. q.rear = p.rear
    BY <1>6, <1>10, <2>5 DEF HeaderSize
  <2> HIDE DEF base, field, m, b
  <2>8. CanExtract(at[i], m)
    BY <2>3, <2>4, <2>5, <2>7 DEF CanExtract, UsedDataSize
  <2>9. ASSUME NEW j \in 1 .. m PROVE b[base + j] = field[j]
    <3>1. (base + j) - HeaderSize \in 1 .. Len(payload)
          /\ HeaderSize + ((base + j) - HeaderSize) = base + j
      BY <1>6, <2>4, <2>5 DEF HeaderSize
    <3>2. q.buffer[base + j] = p.buffer[base + j]
      BY <1>6, <1>11, <3>1
    <3> QED BY <2>6, <3>2 DEF b
  <2>10. SubSeq(b, base + 1, base + m) = field
    <3> DEFINE w == SubSeq(b, base + 1, base + m)
    <3>1. \A j \in base + 1 .. base + m : b[j] \in Byte
      <4>1. SUFFICES ASSUME NEW j \in base + 1 .. base + m PROVE b[j] \in Byte
        OBVIOUS
      <4>2. j - base \in 1 .. m /\ base + (j - base) = j
        BY <2>4
      <4>3. b[j] = field[j - base]
        BY <2>9, <4>2
      <4>4. Len(field) = m
        BY DEF field, m
      <4> QED BY <2>4, <4>2, <4>3, <4>4, ElementOfSeq
    <3>2. w \in Seq(Byte) /\ Len(w) = m /\ \A j \in 1 .. m : w[j] = b[base + j]
      BY <2>4, <3>1, SubSeqProperties
    <3> HIDE DEF w
    <3>3. Len(w) = Len(field) /\ \A j \in 1 .. Len(w) : w[j] = field[j]
      BY <2>9, <3>2 DEF field, m
    <3>4. w = field
      BY <2>4, <3>2, <3>3, SeqEqual
    <3> QED BY <3>4 DEF w
  <2>11. Extracted(at[i], m) = field
    BY <2>3, <2>10 DEF Extracted
  <2> QED BY <2>8, <2>11 DEF field, m
<1>19. \A i \in DOMAIN fields :
          /\ CanExtract(at[i], Len(fields[i]))
          /\ Extracted(at[i], Len(fields[i])) = fields[i]
  BY <1>18
<1> QED BY <1>4, <1>10, <1>19 DEF RoundTrip, TakenAt, at, q, cells, p

\* Among them the fields the run looks at, and so it goes for every size in which they
\* fit; the code's are 256, 500 and 10000 (CodecInverse; Packet.h:67, 134, 497-531).
THEOREM EveryFieldBack ==
  ASSUME BYTE >= 4, INITIAL_PAYLOAD >= 2, RINGBUFFER_SIZE >= HeaderSize + 8,
         RINGBUFFER_SIZE >= HeaderSize + INITIAL_PAYLOAD
  PROVE  Spec => []CodecInverse
<1> DEFINE Some == {<<1>>, <<2, 3>>}
<1>1. Some \subseteq Seq(Byte) /\ \A s \in Some : Len(s) \in 0 .. 2
  <2>1. 1 \in Byte /\ 2 \in Byte /\ 3 \in Byte
    BY ByteAssumption DEF Byte
  <2> QED BY <2>1
<1>2. ASSUME NEW fields \in SomeFields, NEW key \in Byte PROVE RoundTrip(fields, key)
  <2>1. PICK m \in 0 .. 4 : fields \in [1 .. m -> Some]
    BY DEF SomeFields, SeqOf
  <2> HIDE DEF Some
  <2>2. fields \in Seq(Seq(Byte)) /\ Len(fields) = m /\ m \in Nat
    <3>1. \A i \in 1 .. m : fields[i] \in Seq(Byte)
      BY <1>1, <2>1
    <3> QED BY <2>1, <3>1
  <2>3. \A i \in 1 .. m : Len(fields[i]) \in 0 .. 2
    BY <1>1, <2>1
  <2>4. PICK f : BuildTrace(f, fields)
    BY <2>2, BuildSteps
  <2>5. /\ Build(fields) = f[m] /\ f[0].rear = HeaderSize
        /\ \A k \in 1 .. m : f[k].rear = f[k - 1].rear + Len(fields[k])
    BY <2>2, <2>4, NewWritten DEF BuildTrace
  <2>6. \A k \in 0 .. m : f[k].rear \in Nat
    BY <2>2, <2>4 DEF BuildTrace, Written
  <2>7. f[m].rear <= HeaderSize + 8
    <3> DEFINE S == {k \in Nat : k <= m => f[k].rear <= HeaderSize + 2 * k}
    <3>1. 0 \in S
      BY <2>5 DEF HeaderSize
    <3>2. ASSUME NEW k \in Nat, k \in S PROVE k + 1 \in S
      <4>1. SUFFICES ASSUME k + 1 <= m PROVE f[k + 1].rear <= HeaderSize + 2 * (k + 1)
        OBVIOUS
      <4>2. k + 1 \in 1 .. m /\ (k + 1) - 1 = k /\ k \in 0 .. m
        BY <2>1, <4>1
      <4>3. f[k + 1].rear = f[k].rear + Len(fields[k + 1]) /\ Len(fields[k + 1]) \in 0 .. 2
        BY <2>3, <2>5, <4>2
      <4>4. f[k].rear <= HeaderSize + 2 * k /\ f[k].rear \in Nat
        BY <2>1, <2>6, <3>2, <4>1, <4>2
      <4>5. ASSUME NEW a \in Nat, NEW b \in 0 .. 2, a <= 4 + 2 * k
            PROVE  a + b <= 4 + 2 * (k + 1)
        BY <4>5
      <4>6. HeaderSize = 4
        BY DEF HeaderSize
      <4> QED BY <4>3, <4>4, <4>5, <4>6
    <3> HIDE DEF S
    <3>3. \A k \in Nat : k \in S
      BY <3>1, <3>2, Induction
    <3>4. f[m].rear <= HeaderSize + 2 * m
      BY <2>1, <3>3 DEF S
    <3>5. f[m].rear \in Nat
      BY <2>1, <2>6
    <3> QED BY <2>1, <3>4, <3>5 DEF HeaderSize
  <2>8. Build(fields).rear <= RINGBUFFER_SIZE
    <3>1. f[m].rear \in Nat
      BY <2>1, <2>6
    <3> QED BY <2>5, <2>7, <3>1, PayloadAssumption DEF HeaderSize
  <2>9. \A i \in 1 .. Len(fields) : Len(fields[i]) <= INITIAL_PAYLOAD
    <3>1. ASSUME NEW i \in 1 .. m PROVE Len(fields[i]) <= INITIAL_PAYLOAD
      <4>1. Len(fields[i]) \in 0 .. 2
        BY <2>3
      <4>2. \A b \in 0 .. 2 : b <= INITIAL_PAYLOAD
        BY PayloadAssumption
      <4> QED BY <4>1, <4>2
    <3> QED BY <2>2, <3>1
  <2>10. HeaderSize + INITIAL_PAYLOAD <= RINGBUFFER_SIZE
    BY PayloadAssumption DEF HeaderSize
  <2> QED BY <2>2, <2>8, <2>9, <2>10, FieldsComeBack
<1>3. CodecInverse
  BY <1>2 DEF CodecInverse
<1> QED BY <1>3, PTL

-----------------------------------------------------------------------------
(* The ring *)

\* One move goes round the end at most once.
LEMMA OneRound ==
  ASSUME NEW p \in Positions, NEW n \in 0 .. BUFFER_SIZE
  PROVE  /\ MoveInOrOutPos(p, n) \in Positions
         /\ MoveInOrOutPos(p, n) = IF p + n <= BUFFER_SIZE THEN p + n
                                   ELSE p + n - ACTUAL_SIZE
<1>1. BUFFER_SIZE \in Nat /\ ACTUAL_SIZE = BUFFER_SIZE + 1 /\ p \in Nat /\ n \in Nat
      /\ p <= BUFFER_SIZE /\ n <= BUFFER_SIZE
  BY BufferAssumption DEF Positions, ACTUAL_SIZE
<1>2. CASE p + n <= BUFFER_SIZE
  <2>1. (p + n) % ACTUAL_SIZE = p + n
    BY <1>1, <1>2
  <2> QED BY <1>1, <1>2, <2>1 DEF MoveInOrOutPos, Positions
<1>3. CASE p + n > BUFFER_SIZE
  <2>1. (p + n) % ACTUAL_SIZE = p + n - ACTUAL_SIZE
    BY <1>1, <1>3
  <2> QED BY <1>1, <1>3, <2>1 DEF MoveInOrOutPos, Positions
<1> QED BY <1>1, <1>2, <1>3

\* The use size counts from out to in; the direct sizes are the part of the used and
\* of the free cells before the end, and the free part that is not direct lies at the
\* start, before out (RecvPost's second WSABUF, NetClient.cpp:507-508).
THEOREM SizesFit ==
  ASSUME NEW in \in Positions, NEW out \in Positions
  PROVE  LET use == GetUseSize(in, out)
             free == GetFreeSize(in, out)
             direct == GetDirectEnqueueSize(in, out)
         IN /\ use \in 0 .. BUFFER_SIZE /\ free \in 0 .. BUFFER_SIZE
            /\ use = 0 <=> in = out
            /\ GetDirectDequeueSize(in, out) \in 0 .. use
            /\ out + GetDirectDequeueSize(in, out) <= ACTUAL_SIZE
            /\ direct \in 0 .. free /\ in + direct <= ACTUAL_SIZE
            /\ free - direct > 0 => in + direct = ACTUAL_SIZE /\ free - direct < out
BY BufferAssumption
DEF Positions, ACTUAL_SIZE, GetUseSize, GetFreeSize, GetDirectEnqueueSize,
    GetDirectDequeueSize

\* A receive of n cells into the free part and a message of n cells taken out change
\* the use size by n, and full is never mistaken for empty (RingBuffer.cpp:65).
THEOREM MovesCount ==
  ASSUME NEW in \in Positions, NEW out \in Positions, NEW n \in 0 .. BUFFER_SIZE
  PROVE  /\ n <= GetFreeSize(in, out) =>
              GetUseSize(MoveInOrOutPos(in, n), out) = GetUseSize(in, out) + n
         /\ n <= GetUseSize(in, out) =>
              GetUseSize(in, MoveInOrOutPos(out, n)) = GetUseSize(in, out) - n
<1>1. MoveInOrOutPos(in, n) = IF in + n <= BUFFER_SIZE THEN in + n ELSE in + n - ACTUAL_SIZE
  BY OneRound
<1>2. MoveInOrOutPos(out, n) =
        IF out + n <= BUFFER_SIZE THEN out + n ELSE out + n - ACTUAL_SIZE
  BY OneRound
<1> QED BY <1>1, <1>2, BufferAssumption DEF Positions, ACTUAL_SIZE, GetUseSize, GetFreeSize

\* A ring with its positions and cells
IsRing(r) ==
    r \in [iInPos : Positions, iOutPos : Positions, buffer : [Positions -> Nat]]

\* Its use size is within bounds, and RingContents is a sequence of as many cells.
LEMMA RingFacts ==
  ASSUME NEW r, IsRing(r)
  PROVE  /\ r.iInPos \in Positions /\ r.iOutPos \in Positions
         /\ \A i \in Positions : r.buffer[i] \in Nat
         /\ UseSize(r) \in 0 .. BUFFER_SIZE /\ UseSize(r) \in Nat
         /\ RingContents(r) \in Seq(Nat) /\ Len(RingContents(r)) = UseSize(r)
         /\ \A i \in 1 .. UseSize(r) :
              /\ MoveInOrOutPos(r.iOutPos, i - 1) \in Positions
              /\ RingContents(r)[i] = r.buffer[MoveInOrOutPos(r.iOutPos, i - 1)]
<1>1. /\ r.iInPos \in Positions /\ r.iOutPos \in Positions
      /\ \A i \in Positions : r.buffer[i] \in Nat
  BY DEF IsRing
<1>2. UseSize(r) \in 0 .. BUFFER_SIZE /\ BUFFER_SIZE \in Nat
  BY <1>1, SizesFit, BufferAssumption DEF UseSize
<1>3. UseSize(r) \in Nat
  BY <1>2
<1>4. ASSUME NEW i \in 1 .. UseSize(r)
      PROVE  MoveInOrOutPos(r.iOutPos, i - 1) \in Positions
  <2>1. i - 1 \in 0 .. BUFFER_SIZE
    BY <1>2
  <2> QED BY <1>1, <2>1, OneRound
<1> DEFINE n == UseSize(r)
           Cell(i) == r.buffer[MoveInOrOutPos(r.iOutPos, i - 1)]
<1>5. \A i \in 1 .. n : Cell(i) \in Nat
  BY <1>1, <1>4
<1>6. RingContents(r) = [i \in 1 .. n |-> Cell(i)]
  BY DEF RingContents
<1> HIDE DEF n, Cell
<1>7. [i \in 1 .. n |-> Cell(i)] \in [1 .. n -> Nat] /\ n \in Nat
  BY <1>3, <1>5 DEF n
<1>8. RingContents(r) \in Seq(Nat) /\ Len(RingContents(r)) = n
      /\ \A i \in 1 .. n : RingContents(r)[i] = Cell(i)
  BY <1>6, <1>7
<1> QED BY <1>1, <1>2, <1>3, <1>4, <1>8 DEF n, Cell

\* Peek gives the first cells in the ring, whether it copies one part or two.
LEMMA PeekIsFirst ==
  ASSUME NEW r, IsRing(r), NEW n \in Nat, n <= UseSize(r)
  PROVE  /\ Peek(r, n) \in Seq(Nat) /\ Len(Peek(r, n)) = n
         /\ \A i \in 1 .. n : Peek(r, n)[i] = RingContents(r)[i]
<1> DEFINE in == r.iInPos
           out == r.iOutPos
           direct == GetDirectDequeueSize(in, out)
           first == IF direct > n THEN n ELSE direct
           one == Load(r.buffer, out, first)
           two == Load(r.buffer, 0, n - first)
<1>1. in \in Positions /\ out \in Positions /\ in \in Nat /\ out \in Nat /\ BUFFER_SIZE \in Nat
      /\ in <= BUFFER_SIZE /\ out <= BUFFER_SIZE
      /\ \A i \in Positions : r.buffer[i] \in Nat
  BY RingFacts, BufferAssumption DEF Positions
<1>2. UseSize(r) = IF in >= out THEN in - out ELSE BUFFER_SIZE + 1 - out + in
  BY <1>1 DEF UseSize, GetUseSize, ACTUAL_SIZE
<1>3. direct = IF in >= out THEN in - out ELSE BUFFER_SIZE + 1 - out
  BY <1>1 DEF GetDirectDequeueSize, ACTUAL_SIZE
<1>4. Peek(r, n) = one \o two
  <2>1. ~(n > UseSize(r))
    BY RingFacts
  <2> QED BY <2>1 DEF Peek
<1> HIDE DEF in, out, direct
<1>5. first \in Nat /\ n - first \in Nat /\ first <= n /\ out + first <= BUFFER_SIZE + 1
      /\ n - first <= BUFFER_SIZE /\ (n - first > 0 => out + first = BUFFER_SIZE + 1)
  BY <1>1, <1>2, <1>3
<1> HIDE DEF first
<1>6. one \in Seq(Nat) /\ Len(one) = first /\ \A i \in 1 .. first : one[i] = r.buffer[out + i - 1]
  <2>1. \A i \in 1 .. first : out + i - 1 \in Positions
    BY <1>1, <1>5 DEF Positions
  <2>2. one = [i \in 1 .. first |-> r.buffer[out + i - 1]]
    BY DEF Load
  <2>3. one \in [1 .. first -> Nat]
    BY <1>1, <2>1, <2>2
  <2> QED BY <1>5, <2>2, <2>3
<1>7. two \in Seq(Nat) /\ Len(two) = n - first
      /\ \A i \in 1 .. n - first : two[i] = r.buffer[i - 1]
  <2>1. \A i \in 1 .. n - first : i - 1 \in Positions /\ 0 + i - 1 = i - 1
    BY <1>1, <1>5 DEF Positions
  <2>2. two = [i \in 1 .. n - first |-> r.buffer[0 + i - 1]]
    BY DEF Load
  <2>3. two \in [1 .. n - first -> Nat]
    BY <1>1, <2>1, <2>2
  <2>4. \A i \in 1 .. n - first : two[i] = r.buffer[i - 1]
    BY <2>1, <2>2
  <2> HIDE DEF two
  <2>5. ASSUME NEW k \in Nat, NEW t \in [1 .. k -> Nat] PROVE t \in Seq(Nat) /\ Len(t) = k
    OBVIOUS
  <2> QED BY <1>5, <2>3, <2>4, <2>5
<1> HIDE DEF one, two
<1>8. /\ one \o two \in Seq(Nat) /\ Len(one \o two) = Len(one) + Len(two)
      /\ \A i \in 1 .. Len(one) + Len(two) :
            (one \o two)[i] = IF i <= Len(one) THEN one[i] ELSE two[i - Len(one)]
  BY <1>6, <1>7, ConcatProperties, Zenon
<1> DEFINE peeked == one \o two
<1> HIDE DEF peeked
<1>9. /\ peeked \in Seq(Nat) /\ Len(peeked) = n
      /\ \A i \in 1 .. n : peeked[i] = IF i <= first THEN one[i] ELSE two[i - first]
  <2>1. Len(one) + Len(two) = n
    BY <1>5, <1>6, <1>7
  <2> QED BY <1>6, <1>8, <2>1, Zenon DEF peeked
<1>10. ASSUME NEW i \in 1 .. n PROVE peeked[i] = RingContents(r)[i]
  <2> DEFINE pos == MoveInOrOutPos(out, i - 1)
  <2>1. i - 1 \in 0 .. BUFFER_SIZE /\ i \in 1 .. UseSize(r)
    BY <1>1, <1>2
  <2>2. pos = IF out + (i - 1) <= BUFFER_SIZE THEN out + (i - 1)
              ELSE out + (i - 1) - (BUFFER_SIZE + 1)
    BY <1>1, <2>1, OneRound DEF ACTUAL_SIZE
  <2>3. RingContents(r)[i] = r.buffer[pos]
    BY <2>1, RingFacts DEF out
  <2> HIDE DEF pos
  <2>4. CASE i <= first
    <3>1. pos = out + i - 1
      BY <1>1, <1>5, <2>2, <2>4
    <3> QED BY <1>6, <1>9, <2>3, <2>4, <3>1
  <2>5. CASE ~(i <= first)
    <3>1. i - first \in 1 .. n - first /\ pos = (i - first) - 1
      BY <1>1, <1>5, <2>2, <2>5
    <3> QED BY <1>7, <1>9, <2>3, <2>5, <3>1
  <2> QED BY <2>4, <2>5
<1> QED BY <1>4, <1>9, <1>10 DEF peeked

\* MoveOutPos takes the first n cells and keeps the rest.
LEMMA TakenFromRing ==
  ASSUME NEW r, IsRing(r), NEW n \in Nat, n <= UseSize(r)
  PROVE  /\ IsRing(MoveOutPos(r, n)) /\ UseSize(MoveOutPos(r, n)) = UseSize(r) - n
         /\ \A i \in 1 .. UseSize(r) - n :
              RingContents(MoveOutPos(r, n))[i] = RingContents(r)[n + i]
<1> DEFINE in == r.iInPos
           out == r.iOutPos
           after == MoveInOrOutPos(out, n)
           s == MoveOutPos(r, n)
<1>1. in \in Positions /\ out \in Positions /\ BUFFER_SIZE \in Nat
      /\ UseSize(r) \in 0 .. BUFFER_SIZE /\ n \in 0 .. BUFFER_SIZE
  <2>1. in \in Positions /\ out \in Positions /\ UseSize(r) \in 0 .. BUFFER_SIZE
    BY RingFacts
  <2> QED BY <2>1, BufferAssumption
<1>2. after \in Positions
      /\ after = IF out + n <= BUFFER_SIZE THEN out + n ELSE out + n - (BUFFER_SIZE + 1)
  BY <1>1, OneRound DEF ACTUAL_SIZE
<1>3. IsRing(s) /\ s.iInPos = in /\ s.iOutPos = after /\ s.buffer = r.buffer
  BY <1>2 DEF IsRing, MoveOutPos
<1>4. UseSize(s) = UseSize(r) - n
  <2>1. n <= GetUseSize(in, out) => GetUseSize(in, after) = GetUseSize(in, out) - n
    BY <1>1, MovesCount
  <2> QED BY <1>3, <2>1 DEF UseSize
<1> HIDE DEF in, out, after, s
<1>5. ASSUME NEW i \in 1 .. UseSize(r) - n PROVE RingContents(s)[i] = RingContents(r)[n + i]
  <2>1. i \in 1 .. UseSize(s) /\ n + i \in 1 .. UseSize(r)
        /\ i - 1 \in 0 .. BUFFER_SIZE /\ (n + i) - 1 \in 0 .. BUFFER_SIZE
    BY <1>1, <1>4
  <2>2. MoveInOrOutPos(after, i - 1)
        = IF after + (i - 1) <= BUFFER_SIZE THEN after + (i - 1)
          ELSE after + (i - 1) - (BUFFER_SIZE + 1)
    BY <1>1, <1>2, <2>1, OneRound DEF ACTUAL_SIZE
  <2>3. MoveInOrOutPos(out, (n + i) - 1)
        = IF out + ((n + i) - 1) <= BUFFER_SIZE THEN out + ((n + i) - 1)
          ELSE out + ((n + i) - 1) - (BUFFER_SIZE + 1)
    BY <1>1, <2>1, OneRound DEF ACTUAL_SIZE
  <2>4. MoveInOrOutPos(after, i - 1) = MoveInOrOutPos(out, (n + i) - 1)
    BY <1>1, <1>2, <2>1, <2>2, <2>3 DEF Positions
  <2>5. RingContents(s)[i] = r.buffer[MoveInOrOutPos(after, i - 1)]
    BY <1>3, <2>1, RingFacts
  <2>6. RingContents(r)[n + i] = r.buffer[MoveInOrOutPos(out, (n + i) - 1)]
    BY <2>1, RingFacts DEF out
  <2> QED BY <2>4, <2>5, <2>6
<1> QED BY <1>3, <1>4, <1>5 DEF s

\* What RecvPost hands out is the free part of the ring, in two pieces.
LEMMA PostedIsFree ==
  ASSUME NEW r, IsRing(r)
  PROVE  LET p == RecvPost(r)
         IN /\ p.at = r.iInPos /\ p.direct \in Nat /\ p.around \in Nat
            /\ p.direct + p.around = BUFFER_SIZE - UseSize(r)
            /\ p.at + p.direct <= BUFFER_SIZE + 1
            /\ p.around > 0 => p.at + p.direct = BUFFER_SIZE + 1 /\ p.around < r.iOutPos
<1> DEFINE in == r.iInPos
           out == r.iOutPos
<1>1. in \in Positions /\ out \in Positions
  BY RingFacts
<1>2. /\ GetFreeSize(in, out) \in 0 .. BUFFER_SIZE
      /\ GetDirectEnqueueSize(in, out) \in 0 .. GetFreeSize(in, out)
      /\ in + GetDirectEnqueueSize(in, out) <= BUFFER_SIZE + 1
      /\ GetFreeSize(in, out) - GetDirectEnqueueSize(in, out) > 0
           => /\ in + GetDirectEnqueueSize(in, out) = BUFFER_SIZE + 1
              /\ GetFreeSize(in, out) - GetDirectEnqueueSize(in, out) < out
  BY <1>1, SizesFit DEF ACTUAL_SIZE
<1>3. GetFreeSize(in, out) = BUFFER_SIZE - UseSize(r)
  BY DEF GetFreeSize, UseSize
<1> DEFINE free == GetFreeSize(in, out)
           direct == GetDirectEnqueueSize(in, out)
<1> HIDE DEF free, direct
<1>4. RecvPost(r) = [at |-> in, direct |-> direct, around |-> free - direct]
  BY DEF RecvPost, free, direct
<1>5. BUFFER_SIZE \in Nat /\ free \in Nat /\ direct \in Nat /\ direct <= free
  BY <1>2, BufferAssumption DEF free, direct
<1> QED BY <1>2, <1>3, <1>4, <1>5 DEF free, direct

\* The ring after a completion with n cells of w
Filled(r, w, n) ==
    LET p == RecvPost(r)
        first == IF n < p.direct THEN n ELSE p.direct
    IN MoveInPos([r EXCEPT !.buffer = Store(Store(r.buffer, p.at, SubSeq(w, 1, first)),
                                            0, SubSeq(w, first + 1, n))], n)

\* Store writes the places from at on and leaves the others alone.
LEMMA StoreCells ==
  ASSUME NEW b \in [Positions -> Nat], NEW at \in Nat, NEW t \in Seq(Nat)
  PROVE  /\ Store(b, at, t) \in [Positions -> Nat]
         /\ \A i \in Positions : i \in at .. at + Len(t) - 1 => Store(b, at, t)[i] = t[i - at + 1]
         /\ \A i \in Positions : i \notin at .. at + Len(t) - 1 => Store(b, at, t)[i] = b[i]
<1> DEFINE c(i) == IF i \in at .. at + Len(t) - 1 THEN t[i - at + 1] ELSE b[i]
<1>1. ASSUME NEW i \in Positions PROVE c(i) \in Nat
  <2>1. CASE i \in at .. at + Len(t) - 1
    <3>1. i - at + 1 \in 1 .. Len(t)
      BY <2>1
    <3>2. t[i - at + 1] \in Nat
      BY <3>1, ElementOfSeq
    <3> QED BY <2>1, <3>2
  <2>2. CASE i \notin at .. at + Len(t) - 1
    BY <2>2
  <2> QED BY <2>1, <2>2
<1>2. Store(b, at, t) = [i \in Positions |-> c(i)]
  BY DEF Store
<1>3. Store(b, at, t) \in [Positions -> Nat] /\ \A i \in Positions : Store(b, at, t)[i] = c(i)
  <2> HIDE DEF c
  <2> QED BY <1>1, <1>2
<1> QED BY <1>3

\* The two pieces take n cells from the front of what is under way, after all that the
\* ring holds and over none of it (NetClient.cpp:505-537).
LEMMA FilledRing ==
  ASSUME NEW r, IsRing(r), NEW w \in Seq(Nat), NEW n \in 1 .. Len(w),
         n <= BUFFER_SIZE - UseSize(r)
  PROVE  /\ IsRing(Filled(r, w, n)) /\ UseSize(Filled(r, w, n)) = UseSize(r) + n
         /\ \A i \in 1 .. UseSize(r) : RingContents(Filled(r, w, n))[i] = RingContents(r)[i]
         /\ \A i \in 1 .. n : RingContents(Filled(r, w, n))[UseSize(r) + i] = w[i]
<1> DEFINE in == r.iInPos
           out == r.iOutPos
           use == UseSize(r)
           p == RecvPost(r)
           first == IF n < p.direct THEN n ELSE p.direct
           one == SubSeq(w, 1, first)
           two == SubSeq(w, first + 1, n)
           b1 == Store(r.buffer, in, one)
           b2 == Store(b1, 0, two)
           after == MoveInOrOutPos(in, n)
           s == Filled(r, w, n)
<1>1. /\ in \in Positions /\ out \in Positions /\ BUFFER_SIZE \in Nat
      /\ in \in Nat /\ out \in Nat /\ in <= BUFFER_SIZE /\ out <= BUFFER_SIZE
      /\ use \in 0 .. BUFFER_SIZE /\ r.buffer \in [Positions -> Nat]
  <2>1. in \in Positions /\ out \in Positions /\ use \in 0 .. BUFFER_SIZE
    BY RingFacts
  <2> QED BY <2>1, BufferAssumption, SMTT(40) DEF IsRing, Positions
<1>2. use = IF in >= out THEN in - out ELSE BUFFER_SIZE + 1 - out + in
  <2>1. in \in Nat /\ out \in Nat /\ BUFFER_SIZE \in Nat
    BY <1>1
  <2> QED BY <2>1, SMTT(40) DEF UseSize, GetUseSize, ACTUAL_SIZE
<1>3. n \in Nat /\ n > 0 /\ n \in 0 .. BUFFER_SIZE /\ use + n <= BUFFER_SIZE /\ Len(w) \in Nat
      /\ n <= Len(w)
  <2>1. Len(w) \in Nat
    BY LenProperties
  <2> QED BY <1>1, <2>1
<1>4. /\ p.at = in /\ p.direct \in Nat /\ p.around \in Nat
      /\ p.direct + p.around = BUFFER_SIZE - use
      /\ in + p.direct <= BUFFER_SIZE + 1
      /\ p.around > 0 => in + p.direct = BUFFER_SIZE + 1 /\ p.around < out
  BY PostedIsFree
<1>5. s.iInPos = after /\ s.iOutPos = out /\ s.buffer = b2
  <2>1. s = MoveInPos([r EXCEPT !.buffer = b2], n)
    BY <1>4 DEF Filled
  <2> HIDE DEF s, b2
  <2>2. r \in [iInPos : Positions, iOutPos : Positions, buffer : [Positions -> Nat]]
    BY DEF IsRing
  <2> QED BY <2>1, <2>2 DEF MoveInPos
<1> HIDE DEF in, out, use, s
<1>6. first \in Nat /\ first <= n /\ in + first <= BUFFER_SIZE + 1
      /\ (first < n => in + first = BUFFER_SIZE + 1 /\ n - first < out)
  <2> DEFINE direct == p.direct
             around == p.around
  <2>1. /\ direct \in Nat /\ around \in Nat /\ direct + around = BUFFER_SIZE - use
        /\ in + direct <= BUFFER_SIZE + 1
        /\ around > 0 => in + direct = BUFFER_SIZE + 1 /\ around < out
    BY <1>4
  <2>2. first = IF n < direct THEN n ELSE direct
    OBVIOUS
  <2> HIDE DEF direct, around, first
  <2> QED BY <1>1, <1>3, <2>1, <2>2
<1> HIDE DEF p, first
<1>7. one \in Seq(Nat) /\ Len(one) = first /\ \A i \in 1 .. first : one[i] = w[i]
  <2>1. \A i \in 1 .. first : w[i] \in Nat
    BY <1>3, <1>6, ElementOfSeq
  <2> QED BY <1>6, <2>1, SubSeqProperties
<1>8. two \in Seq(Nat) /\ Len(two) = n - first /\ \A i \in 1 .. n - first : two[i] = w[first + i]
  <2>1. \A i \in first + 1 .. n : w[i] \in Nat
    BY <1>3, <1>6, ElementOfSeq
  <2> QED BY <1>3, <1>6, <2>1, SubSeqProperties
<1> HIDE DEF one, two
<1>9. /\ b1 \in [Positions -> Nat]
      /\ \A i \in Positions : i \in in .. in + first - 1 => b1[i] = one[i - in + 1]
      /\ \A i \in Positions : i \notin in .. in + first - 1 => b1[i] = r.buffer[i]
  <2>1. /\ b1 \in [Positions -> Nat]
        /\ \A i \in Positions : i \in in .. in + Len(one) - 1 => b1[i] = one[i - in + 1]
        /\ \A i \in Positions : i \notin in .. in + Len(one) - 1 => b1[i] = r.buffer[i]
    BY <1>1, <1>7, StoreCells, Zenon
  <2> QED BY <1>7, <2>1, Zenon
<1> HIDE DEF b1
<1>10. /\ b2 \in [Positions -> Nat]
       /\ \A i \in Positions : i \in 0 .. 0 + (n - first) - 1 => b2[i] = two[i - 0 + 1]
       /\ \A i \in Positions : i \notin 0 .. 0 + (n - first) - 1 => b2[i] = b1[i]
  <2>1. 0 \in Nat
    OBVIOUS
  <2>2. /\ b2 \in [Positions -> Nat]
        /\ \A i \in Positions : i \in 0 .. 0 + Len(two) - 1 => b2[i] = two[i - 0 + 1]
        /\ \A i \in Positions : i \notin 0 .. 0 + Len(two) - 1 => b2[i] = b1[i]
    BY <1>8, <1>9, <2>1, StoreCells, Zenon
  <2> QED BY <1>8, <2>2, Zenon
<1> HIDE DEF b2
<1>11. after \in Positions
  BY <1>1, <1>3, OneRound
<1>12. IsRing(s)
  <2>1. s = [[r EXCEPT !.buffer = b2] EXCEPT !.iInPos = after]
    <3>1. s = MoveInPos([r EXCEPT !.buffer = b2], n)
      BY <1>4 DEF Filled, s, b2, b1, one, two, first, p
    <3>2. r \in [iInPos : Positions, iOutPos : Positions, buffer : [Positions -> Nat]]
      BY DEF IsRing
    <3> QED BY <3>1, <3>2 DEF MoveInPos, in
  <2> QED BY <1>10, <1>11, <2>1 DEF IsRing
<1>13. UseSize(s) = use + n
  <2>1. n <= GetFreeSize(in, out) => GetUseSize(after, out) = GetUseSize(in, out) + n
    BY <1>1, <1>3, MovesCount
  <2>2. use = GetUseSize(in, out) /\ GetFreeSize(in, out) = BUFFER_SIZE - use
    BY DEF use, UseSize, GetFreeSize, in, out
  <2> QED BY <1>1, <1>3, <1>5, <2>1, <2>2 DEF UseSize
<1>14. ASSUME NEW i \in 1 .. use PROVE RingContents(s)[i] = RingContents(r)[i]
  <2> DEFINE pos == MoveInOrOutPos(out, i - 1)
  <2>1. i - 1 \in 0 .. BUFFER_SIZE /\ i \in 1 .. UseSize(s)
    BY <1>1, <1>3, <1>13
  <2>2. pos \in Positions
        /\ pos = IF out + (i - 1) <= BUFFER_SIZE THEN out + (i - 1)
                 ELSE out + (i - 1) - (BUFFER_SIZE + 1)
    BY <1>1, <2>1, OneRound DEF ACTUAL_SIZE
  <2>3. RingContents(s)[i] = b2[pos]
    BY <1>5, <1>12, <2>1, RingFacts
  <2>4. RingContents(r)[i] = r.buffer[pos]
    BY RingFacts DEF use, out
  <2> HIDE DEF pos
  <2>5. pos \notin in .. in + first - 1 /\ pos \notin 0 .. 0 + (n - first) - 1
    BY <1>1, <1>2, <1>3, <1>6, <2>1, <2>2
  <2> QED BY <1>9, <1>10, <2>2, <2>3, <2>4, <2>5
<1>15. ASSUME NEW i \in 1 .. n PROVE RingContents(s)[use + i] = w[i]
  <2> DEFINE pos == MoveInOrOutPos(out, (use + i) - 1)
  <2>1. (use + i) - 1 \in 0 .. BUFFER_SIZE /\ use + i \in 1 .. UseSize(s)
    BY <1>1, <1>3, <1>13
  <2>2. pos \in Positions
        /\ pos = IF out + ((use + i) - 1) <= BUFFER_SIZE THEN out + ((use + i) - 1)
                 ELSE out + ((use + i) - 1) - (BUFFER_SIZE + 1)
    BY <1>1, <2>1, OneRound DEF ACTUAL_SIZE
  <2>3. RingContents(s)[use + i] = b2[pos]
    BY <1>5, <1>12, <2>1, RingFacts
  <2> HIDE DEF pos
  <2>4. CASE i <= first
    <3>1. pos = in + i - 1 /\ pos \in in .. in + first - 1 /\ pos - in + 1 = i /\ i \in 1 .. first
          /\ pos \notin 0 .. 0 + (n - first) - 1
      BY <1>1, <1>2, <1>3, <1>6, <2>1, <2>2, <2>4
    <3> QED BY <1>7, <1>9, <1>10, <2>2, <2>3, <3>1
  <2>5. CASE ~(i <= first)
    <3>1. pos = (i - first) - 1 /\ pos \in 0 .. 0 + (n - first) - 1 /\ pos - 0 + 1 = i - first
          /\ i - first \in 1 .. n - first /\ first + (i - first) = i
      BY <1>1, <1>2, <1>3, <1>6, <2>1, <2>2, <2>5
    <3> QED BY <1>8, <1>10, <2>2, <2>3, <3>1, SMTT(40)
  <2> QED BY <2>4, <2>5
<1> QED BY <1>12, <1>13, <1>14, <1>15 DEF s, use

-----------------------------------------------------------------------------
(* What may be sent *)

\* A message on the wire: its length is that of its payload, and if RecvProc lets it
\* through it is genuine and its payload is what was put into it.
IsMessage(m) ==
    /\ m.payload \in Seq(Byte) /\ m.cells \in Seq(Nat)
    /\ Len(m.cells) = HeaderSize + Len(m.payload) /\ m.cells[2] = Len(m.payload)
    /\ LET q == Received(SubSeq(m.cells, 1, HeaderSize),
                         SubSeq(m.cells, HeaderSize + 1, Len(m.cells)))
       IN m.cells[1] = PACKET_CODE /\ ValidateReceived(q)
            => m.genuine /\ Payload(q) = m.payload

\* A message as SetHeader makes it
LEMMA GenuineIsMessage ==
  ASSUME NEW payload, NEW key, NEW e, NEW cells, OnWire(cells, payload, key, e)
  PROVE  IsMessage([payload |-> payload, cells |-> cells, genuine |-> TRUE])
<1> DEFINE q == Received(SubSeq(cells, 1, HeaderSize),
                         SubSeq(cells, HeaderSize + 1, Len(cells)))
<1>1. /\ cells \in Seq(Nat) /\ Len(cells) = HeaderSize + Len(payload)
      /\ cells[2] = Len(payload)
      /\ SubSeq(cells, 1, HeaderSize) = Header(PACKET_CODE, Len(payload), key, e[1])
      /\ SubSeq(cells, HeaderSize + 1, Len(cells)) = Tail(e)
  <2>1. SubSeq(cells, 1, HeaderSize) = Header(PACKET_CODE, Len(payload), key, e[1])
    BY WireCells, SMT
  <2>2. SubSeq(cells, HeaderSize + 1, Len(cells)) = Tail(e)
    BY WireCells, Zenon
  <2>3. /\ cells \in Seq(Nat) /\ Len(cells) = HeaderSize + Len(payload)
        /\ cells[2] = Len(payload)
    BY WireCells
  <2> QED BY <2>1, <2>2, <2>3
<1>2. Genuinely(q, payload, key, e)
  BY <1>1 DEF OnWire, Genuinely
<1> HIDE DEF q
<1>3. Payload(q) = payload
  BY <1>2, GenuineReceived, Zenon
<1>4. payload \in Seq(Byte)
  BY DEF OnWire
<1> QED BY <1>1, <1>3, <1>4 DEF IsMessage, q

\* One with a code that is not PACKET_CODE
LEMMA WrongCodeIsMessage ==
  ASSUME NEW payload, NEW key, NEW e, NEW cells, OnWire(cells, payload, key, e),
         NEW x \in Byte, x # PACKET_CODE, NEW genuine
  PROVE  IsMessage([payload |-> payload, cells |-> [cells EXCEPT ![1] = x],
                    genuine |-> genuine])
<1>1. /\ cells \in Seq(Nat) /\ Len(cells) = HeaderSize + Len(payload) /\ Len(payload) \in Nat
      /\ cells[2] = Len(payload)
  BY WireCells
<1>2. payload \in Seq(Byte) /\ x \in Nat
  BY Bytes DEF OnWire
<1> DEFINE altered == [cells EXCEPT ![1] = x]
<1>3. altered \in Seq(Nat) /\ Len(altered) = Len(cells) /\ altered[1] = x
      /\ altered[2] = cells[2]
  BY <1>1, <1>2 DEF HeaderSize
<1> HIDE DEF altered
<1> QED BY <1>1, <1>2, <1>3 DEF IsMessage, altered

\* One with a last cell that is not what SetHeader made
LEMMA WrongLastIsMessage ==
  ASSUME NEW payload, NEW key, NEW e, NEW cells, OnWire(cells, payload, key, e),
         NEW x \in Byte, x # cells[Len(cells)], NEW genuine
  PROVE  IsMessage([payload |-> payload, cells |-> [cells EXCEPT ![Len(cells)] = x],
                    genuine |-> genuine])
<1> DEFINE n == Len(payload) + 1
           c == [e EXCEPT ![n] = x]
           w == Header(PACKET_CODE, Len(payload), key, c[1]) \o Tail(c)
           h == Header(PACKET_CODE, Len(payload), key, c[1])
           t == Tail(c)
           q == Received(h, t)
           altered == [cells EXCEPT ![Len(cells)] = x]
<1>1. /\ cells \in Seq(Nat) /\ Len(cells) = HeaderSize + Len(payload) /\ Len(payload) \in Nat
      /\ cells[1] = PACKET_CODE /\ cells[2] = Len(payload)
      /\ cells[3] = key /\ cells[4] = e[1]
      /\ \A i \in 1 .. Len(payload) : cells[4 + i] = e[i + 1]
      /\ e \in Seq(Byte) /\ Len(e) = Len(payload) + 1
  BY WireCells
<1>2. payload \in Seq(Byte) /\ key \in Byte /\ e = Encode(payload, key)
      /\ x \in Nat /\ key \in Nat /\ PACKET_CODE \in Nat
  BY Bytes DEF OnWire
<1>3. n \in Nat /\ n > 0 /\ Len(cells) = 3 + n /\ n \in 1 .. n
  BY <1>1 DEF HeaderSize
<1>4. cells[Len(cells)] = e[n]
  <2>1. CASE Len(payload) = 0
    BY <1>1, <2>1 DEF HeaderSize
  <2>2. CASE Len(payload) # 0
    <3>1. Len(payload) \in 1 .. Len(payload) /\ Len(cells) = 4 + Len(payload)
      BY <1>1, <2>2 DEF HeaderSize
    <3> QED BY <1>1, <3>1
  <2> QED BY <2>1, <2>2
<1>5. x # Encode(payload, key)[Len(payload) + 1]
  BY <1>2, <1>4
<1>6. ~ValidateReceived(q)
  BY <1>2, <1>5, AlteredTold
<1>7. c \in Seq(Byte) /\ Len(c) = n /\ c[n] = x /\ \A i \in 1 .. n - 1 : c[i] = e[i]
  BY <1>1, <1>3
<1> HIDE DEF c, n
<1>8. c[1] \in Byte /\ t \in Seq(Byte) /\ Len(t) = n - 1 /\ \A i \in 1 .. n - 1 : t[i] = c[i + 1]
  BY <1>3, <1>7
<1> HIDE DEF h, t, q
<1>9. HeaderAndRest(w, PACKET_CODE, Len(payload), key, c[1], t)
  <2>1. c[1] \in Nat
    BY <1>8, Bytes
  <2>2. t \in Seq(Nat)
    BY <1>8, ByteSeq
  <2> QED BY <1>1, <1>2, <2>1, <2>2 DEF HeaderAndRest, t
<1> HIDE DEF w
<1>10. /\ w \in Seq(Nat) /\ Len(w) = 4 + Len(t) /\ Len(t) \in Nat
       /\ w[1] = PACKET_CODE /\ w[2] = Len(payload) /\ w[3] = key /\ w[4] = c[1]
       /\ \A i \in 1 .. Len(t) : w[4 + i] = t[i]
       /\ SubSeq(w, 1, 4) = Header(PACKET_CODE, Len(payload), key, c[1])
       /\ SubSeq(w, 5, Len(w)) = t
  BY <1>9, FourAndRest, Zenon
<1>11. altered \in Seq(Nat) /\ Len(altered) = 3 + n /\ altered[3 + n] = x
       /\ \A i \in 1 .. 3 + n : i # 3 + n => altered[i] = cells[i]
  BY <1>1, <1>2, <1>3, SMTT(40)
<1> HIDE DEF altered
<1>12. w = altered
  <2>1. Len(w) = 3 + n
    BY <1>3, <1>8, <1>10
  <2>2. ASSUME NEW i \in 1 .. 3 + n PROVE w[i] = altered[i]
    <3>1. CASE i \in 1 .. 3
      <4>1. i # 3 + n /\ altered[i] = cells[i]
        BY <1>3, <1>11, <3>1
      <4>2. i = 1 \/ i = 2 \/ i = 3
        BY <3>1
      <4> QED BY <1>1, <1>10, <4>1, <4>2
    <3>2. CASE i \notin 1 .. 3 /\ i # 3 + n
      <4>1. i - 3 \in 1 .. n - 1 /\ altered[i] = cells[i]
        BY <1>3, <1>11, <3>2
      <4>2. w[i] = c[i - 3]
        <5>1. CASE i = 4
          BY <1>10, <5>1
        <5>2. CASE i # 4
          <6>1. i - 4 \in 1 .. Len(t) /\ 4 + (i - 4) = i /\ (i - 4) + 1 = i - 3
                /\ i - 4 \in 1 .. n - 1
            BY <1>3, <1>8, <3>2, <5>2
          <6>2. w[i] = t[i - 4] /\ t[i - 4] = c[i - 3]
            BY <1>8, <1>10, <6>1
          <6> QED BY <6>2
        <5> QED BY <5>1, <5>2
      <4>3. cells[i] = e[i - 3]
        <5>1. CASE i = 4
          BY <1>1, <5>1
        <5>2. CASE i # 4
          <6>1. i - 4 \in 1 .. Len(payload) /\ 4 + (i - 4) = i /\ (i - 4) + 1 = i - 3
            BY <1>1, <1>3, <3>2, <5>2 DEF n
          <6> QED BY <1>1, <6>1
        <5> QED BY <5>1, <5>2
      <4> QED BY <1>7, <4>1, <4>2, <4>3
    <3>3. CASE i = 3 + n
      <4>1. CASE n = 1
        BY <1>7, <1>10, <1>11, <3>3, <4>1
      <4>2. CASE n # 1
        <5>1. n - 1 \in 1 .. Len(t) /\ 4 + (n - 1) = 3 + n /\ (n - 1) + 1 = n
              /\ n - 1 \in 1 .. n - 1
          BY <1>3, <1>8, <4>2
        <5>2. w[3 + n] = t[n - 1] /\ t[n - 1] = c[n]
          BY <1>8, <1>10, <5>1
        <5> QED BY <1>7, <1>11, <3>3, <5>2
      <4> QED BY <4>1, <4>2
    <3> QED BY <3>1, <3>2, <3>3
  <2>3. Len(w) = Len(altered) /\ \A i \in 1 .. Len(w) : w[i] = altered[i]
    BY <1>11, <2>1, <2>2
  <2> QED BY <1>10, <1>11, <2>3, SeqEqual
<1>13. q = Received(SubSeq(altered, 1, HeaderSize),
                    SubSeq(altered, HeaderSize + 1, Len(altered)))
  <2>1. HeaderSize = 4 /\ HeaderSize + 1 = 5
    BY DEF HeaderSize
  <2>2. SubSeq(altered, 1, HeaderSize) = h
    BY <1>10, <1>12, <2>1 DEF h
  <2>3. SubSeq(altered, HeaderSize + 1, Len(altered)) = t
    BY <1>10, <1>12, <2>1
  <2> QED BY <2>2, <2>3 DEF q
<1>14. altered[2] = Len(payload)
  BY <1>10, <1>12
<1> QED BY <1>1, <1>2, <1>3, <1>6, <1>11, <1>13, <1>14 DEF IsMessage, altered

\* Whatever the peer may send, genuine or forged, is a message in that sense.
LEMMA SendableIsMessage ==
  ASSUME NEW message \in Sendable
  PROVE  IsMessage(message)
<1>1. PICK m \in Messages \X Keys :
        \E cells \in {Genuine[m]} \cup Forged(Genuine[m]) :
            message = [payload |-> Payload(Build(m[1])), cells |-> cells,
                       genuine |-> cells = Genuine[m]]
  BY DEF Sendable
<1> DEFINE p == Build(m[1])
           key == m[2]
           payload == Payload(p)
           e == Encode(payload, key)
           wire0 == Genuine[m]
<1>2. m[1] \in Seq(Seq(Byte)) /\ key \in Byte
  BY MessageAssumption
<1>3. Written(p)
  <2>1. PICK f : BuildTrace(f, m[1])
    BY <1>2, BuildSteps
  <2>2. Len(m[1]) \in 0 .. Len(m[1])
    BY <1>2
  <2> QED BY <2>1, <2>2 DEF BuildTrace
<1>4. wire0 = SetHeader(p, key)
  BY DEF Genuine
<1> HIDE DEF wire0, p, key
<1>5. OnWire(wire0, payload, key, e)
  BY <1>2, <1>3, <1>4, HeaderSet
<1>6. PICK cells \in {wire0} \cup Forged(wire0) :
        message = [payload |-> payload, cells |-> cells, genuine |-> cells = wire0]
  BY <1>1 DEF p, wire0
<1> HIDE DEF payload, e
<1>7. /\ wire0 \in Seq(Nat) /\ Len(wire0) \in Nat /\ Len(wire0) >= 4 /\ wire0[1] = PACKET_CODE
      /\ wire0[1] \in Nat /\ wire0[Len(wire0)] \in Nat
  <2>1. wire0 \in Seq(Nat) /\ Len(wire0) = 4 + Len(payload) /\ Len(payload) \in Nat
        /\ wire0[1] = PACKET_CODE
    BY <1>5, WireCells DEF HeaderSize
  <2>2. 1 \in 1 .. Len(wire0) /\ Len(wire0) \in 1 .. Len(wire0)
    BY <2>1
  <2> QED BY <2>1, <2>2, ElementOfSeq
<1> DEFINE first == (wire0[1] + 1) % BYTE
           last == (wire0[Len(wire0)] + 1) % BYTE
<1>8. first \in Byte /\ last \in Byte
  BY <1>7, Bytes
<1>9. cells = wire0 \/ cells = [wire0 EXCEPT ![1] = first]
       \/ cells = [wire0 EXCEPT ![Len(wire0)] = last]
  BY <1>6 DEF Forged
<1> HIDE DEF first, last
<1>10. CASE cells = wire0
  <2>1. message = [payload |-> payload, cells |-> cells, genuine |-> TRUE]
    BY <1>6, <1>10
  <2> QED BY <1>5, <1>10, <2>1, GenuineIsMessage
<1>11. CASE cells # wire0 /\ cells = [wire0 EXCEPT ![1] = first]
  <2>1. first # PACKET_CODE
    BY <1>7, <1>11
  <2> QED BY <1>5, <1>6, <1>8, <1>11, <2>1, WrongCodeIsMessage
<1>12. CASE cells # wire0 /\ cells = [wire0 EXCEPT ![Len(wire0)] = last]
  <2>1. last # wire0[Len(wire0)]
    BY <1>7, <1>12
  <2> QED BY <1>5, <1>6, <1>8, <1>12, <2>1, WrongLastIsMessage
<1> QED BY <1>9, <1>10, <1>11, <1>12

-----------------------------------------------------------------------------
(* What has been sent and not delivered *)

CellsFrom(s, k) ==
    LET after[n \in 0 .. Len(s)] ==
            IF n = Len(s) THEN <<>> ELSE s[n + 1].cells \o after[n + 1]
    IN after[k]

\* The function of CellsFrom on its last m + 1 places
After(g, s, m) ==
    g = [n \in Len(s) - m .. Len(s) |->
            IF n = Len(s) THEN <<>> ELSE s[n + 1].cells \o g[n + 1]]

\* There is such a function for every number of places.
LEMMA AfterExists ==
  ASSUME NEW s, Len(s) \in Nat PROVE \A m \in Nat : \E g : After(g, s, m)
<1> DEFINE L == Len(s)
           S == {m \in Nat : \E g : After(g, s, m)}
<1>1. 0 \in S
  <2> DEFINE g == [n \in L - 0 .. L |-> <<>>]
  <2>1. \A n \in L - 0 .. L : n = L
    OBVIOUS
  <2>2. g = [n \in L - 0 .. L |-> IF n = L THEN <<>> ELSE s[n + 1].cells \o g[n + 1]]
    BY <2>1
  <2>3. After(g, s, 0)
    BY <2>2 DEF After
  <2> QED BY <2>3
<1>2. ASSUME NEW m \in Nat, m \in S PROVE m + 1 \in S
  <2>1. PICK g : After(g, s, m)
    BY <1>2
  <2> DEFINE a == L - (m + 1)
             h == [n \in a .. L |-> IF n = a THEN s[n + 1].cells \o g[n + 1] ELSE g[n]]
  <2>2. \A n \in L - m .. L : g[n] = IF n = L THEN <<>> ELSE s[n + 1].cells \o g[n + 1]
    BY <2>1 DEF After
  <2>3. ASSUME NEW n \in a .. L
        PROVE  h[n] = IF n = L THEN <<>> ELSE s[n + 1].cells \o h[n + 1]
    <3>1. CASE n = a
      <4>1. n # L /\ n + 1 # a /\ n + 1 \in a .. L
        BY <3>1
      <4> QED BY <3>1, <4>1
    <3>2. CASE n # a
      <4>1. n \in L - m .. L /\ (n # L => n + 1 # a /\ n + 1 \in a .. L)
        BY <3>2
      <4>2. h[n] = g[n] /\ (n # L => h[n + 1] = g[n + 1])
        BY <3>2, <4>1
      <4> QED BY <2>2, <4>1, <4>2
    <3> QED BY <3>1, <3>2
  <2>4. h = [n \in a .. L |-> IF n = L THEN <<>> ELSE s[n + 1].cells \o h[n + 1]]
    BY <2>3
  <2>5. After(h, s, m + 1)
    BY <2>4 DEF After
  <2> QED BY <2>5
<1> HIDE DEF S
<1>3. \A m \in Nat : m \in S
  BY <1>1, <1>2, Induction
<1> QED BY <1>3 DEF S

\* CellsFrom goes from message to message.
LEMMA CellsSteps ==
  ASSUME NEW s, Len(s) \in Nat
  PROVE  \A k \in 0 .. Len(s) :
            CellsFrom(s, k) = IF k = Len(s) THEN <<>> ELSE s[k + 1].cells \o CellsFrom(s, k + 1)
<1> DEFINE L == Len(s)
           Body(g) == [n \in 0 .. L |-> IF n = L THEN <<>> ELSE s[n + 1].cells \o g[n + 1]]
           g == CHOOSE f : f = Body(f)
<1>1. g = Body(g)
  <2>1. PICK f : After(f, s, L)
    BY AfterExists
  <2>2. L - L = 0
    OBVIOUS
  <2>3. f = Body(f)
    BY <2>1, <2>2 DEF After
  <2> QED BY <2>3
<1>2. \A k : CellsFrom(s, k) = g[k]
  BY DEF CellsFrom
<1> HIDE DEF g
<1>3. \A k \in 0 .. L : g[k] = IF k = L THEN <<>> ELSE s[k + 1].cells \o g[k + 1]
  BY <1>1
<1> QED BY <1>2, <1>3

\* What has been sent is a sequence of cells.
LEMMA CellsType ==
  ASSUME NEW s, Len(s) \in Nat, \A i \in 1 .. Len(s) : s[i].cells \in Seq(Nat)
  PROVE  \A k \in 0 .. Len(s) : CellsFrom(s, k) \in Seq(Nat)
<1> DEFINE L == Len(s)
           S == {m \in Nat : m <= L => CellsFrom(s, L - m) \in Seq(Nat)}
<1>1. 0 \in S
  <2>1. L - 0 = L /\ L \in 0 .. L
    OBVIOUS
  <2>2. CellsFrom(s, L) = <<>>
    BY <2>1, CellsSteps
  <2> QED BY <2>1, <2>2
<1>2. ASSUME NEW m \in Nat, m \in S PROVE m + 1 \in S
  <2>1. SUFFICES ASSUME m + 1 <= L PROVE CellsFrom(s, L - (m + 1)) \in Seq(Nat)
    OBVIOUS
  <2> DEFINE a == L - (m + 1)
  <2>2. a \in 0 .. L /\ a # L /\ a + 1 = L - m /\ a + 1 \in 1 .. L
    BY <2>1
  <2>3. CellsFrom(s, a) = s[a + 1].cells \o CellsFrom(s, a + 1)
    BY <2>2, CellsSteps
  <2>4. s[a + 1].cells \in Seq(Nat) /\ CellsFrom(s, a + 1) \in Seq(Nat)
    <3>1. CellsFrom(s, L - m) \in Seq(Nat)
      BY <1>2, <2>1
    <3> HIDE DEF a
    <3> QED BY <2>2, <3>1
  <2> HIDE DEF a
  <2>5. s[a + 1].cells \o CellsFrom(s, a + 1) \in Seq(Nat)
    BY <2>4, ConcatProperties
  <2>6. CellsFrom(s, a) \in Seq(Nat)
    BY <2>3, <2>5
  <2> QED BY <2>6 DEF a
<1> HIDE DEF S
<1>3. \A m \in Nat : m \in S
  BY <1>1, <1>2, Induction
<1>4. ASSUME NEW k \in 0 .. L PROVE CellsFrom(s, k) \in Seq(Nat)
  <2>1. L - k \in Nat /\ L - k <= L /\ L - (L - k) = k
    OBVIOUS
  <2> QED BY <1>3, <2>1 DEF S
<1> QED BY <1>4

\* A message that is sent comes behind all that has not been delivered.
LEMMA CellsAppend ==
  ASSUME NEW s, NEW t, Len(s) \in Nat, Len(t) = Len(s) + 1,
         \A i \in 1 .. Len(t) : t[i].cells \in Seq(Nat),
         \A i \in 1 .. Len(s) : t[i] = s[i]
  PROVE  \A k \in 0 .. Len(s) : CellsFrom(t, k) = CellsFrom(s, k) \o t[Len(t)].cells
<1> DEFINE L == Len(s)
           c == t[L + 1].cells
           S == {m \in Nat : m <= L => CellsFrom(t, L - m) = CellsFrom(s, L - m) \o c}
<1>1. Len(t) = L + 1 /\ L \in Nat /\ L + 1 \in 1 .. Len(t) /\ Len(t) \in Nat /\ c \in Seq(Nat)
  OBVIOUS
<1> HIDE DEF c
<1>2. \A k \in 0 .. L : CellsFrom(s, k) \in Seq(Nat)
  <2>1. \A i \in 1 .. L : s[i].cells \in Seq(Nat)
    OBVIOUS
  <2> QED BY <2>1, CellsType
<1>3. 0 \in S
  <2>1. L - 0 = L /\ L \in 0 .. L /\ L \in 0 .. Len(t) /\ L # Len(t) /\ L + 1 \in 0 .. Len(t)
    BY <1>1
  <2>2. CellsFrom(s, L) = <<>>
    BY <2>1, CellsSteps
  <2>3. CellsFrom(t, L + 1) = <<>>
    BY <1>1, <2>1, CellsSteps
  <2>4. CellsFrom(t, L) = t[L + 1].cells \o CellsFrom(t, L + 1)
    BY <1>1, <2>1, CellsSteps
  <2>5. c \o <<>> = c /\ <<>> \o c = c
    BY <1>1, ConcatEmptySeq
  <2> QED BY <2>1, <2>2, <2>3, <2>4, <2>5 DEF c
<1>4. ASSUME NEW m \in Nat, m \in S PROVE m + 1 \in S
  <2>1. SUFFICES ASSUME m + 1 <= L
                 PROVE  CellsFrom(t, L - (m + 1)) = CellsFrom(s, L - (m + 1)) \o c
    OBVIOUS
  <2>0. CellsFrom(t, L - m) = CellsFrom(s, L - m) \o c
    BY <1>4, <2>1
  <2> DEFINE a == L - (m + 1)
  <2>2. a \in 0 .. L /\ a # L /\ a + 1 = L - m /\ a + 1 \in 1 .. L /\ a + 1 \in 0 .. L
        /\ a \in 0 .. Len(t) /\ a # Len(t)
    BY <1>1, <2>1
  <2> DEFINE x == s[a + 1].cells
             y == CellsFrom(s, a + 1)
  <2>3. CellsFrom(s, a) = x \o y
    BY <2>2, CellsSteps
  <2>4. CellsFrom(t, a) = t[a + 1].cells \o CellsFrom(t, a + 1)
    BY <1>1, <2>2, CellsSteps
  <2>5. CellsFrom(t, a + 1) = y \o c
    <3> HIDE DEF a
    <3> QED BY <2>0, <2>2
  <2>6. t[a + 1].cells = x /\ x \in Seq(Nat)
    <3> HIDE DEF a
    <3>1. a \in Nat /\ a + 1 <= L
      BY <1>1, <2>2
    <3>2. a + 1 \in 1 .. Len(t) /\ a + 1 \in 1 .. L
      BY <1>1, <3>1
    <3> QED BY <3>2
  <2>7. y \in Seq(Nat)
    BY <1>2, <2>2
  <2> HIDE DEF a, x, y
  <2>8. (x \o y) \o c = x \o (y \o c)
    BY <1>1, <2>6, <2>7, ConcatAssociative, SMTT(40)
  <2>9. CellsFrom(t, a) = CellsFrom(s, a) \o c
    BY <2>3, <2>4, <2>5, <2>6, <2>8
  <2> QED BY <2>9 DEF a
<1> HIDE DEF S
<1>5. \A m \in Nat : m \in S
  BY <1>3, <1>4, Induction
<1>6. ASSUME NEW k \in 0 .. L PROVE CellsFrom(t, k) = CellsFrom(s, k) \o c
  <2>1. L - k \in Nat /\ L - k <= L /\ L - (L - k) = k
    OBVIOUS
  <2> QED BY <1>5, <2>1 DEF S
<1> QED BY <1>1, <1>6 DEF c

-----------------------------------------------------------------------------
(* The ring holds the front of what has been sent *)

\* The cells of a ring and those behind it are those of the messages from k on.
Holds(r, w, s, k) ==
    /\ IsRing(r) /\ w \in Seq(Nat)
    /\ Len(s) \in Nat /\ \A i \in 1 .. Len(s) : IsMessage(s[i])
    /\ k \in 0 .. Len(s)
    /\ RingContents(r) \o w = CellsFrom(s, k)

\* What stands in front is a message that has been sent.
LEMMA HeaderInFront ==
  ASSUME NEW r, NEW w, NEW s, NEW k, Holds(r, w, s, k), HeaderHere(r)
  PROVE  /\ k + 1 \in 1 .. Len(s) /\ IsMessage(s[k + 1])
         /\ CellsFrom(s, k) = s[k + 1].cells \o CellsFrom(s, k + 1)
         /\ s[k + 1].cells \in Seq(Nat) /\ CellsFrom(s, k + 1) \in Seq(Nat)
         /\ Len(s[k + 1].cells) = HeaderSize + Len(s[k + 1].payload)
         /\ Len(s[k + 1].payload) \in Nat
<1> USE DEF Holds
<1>1. UseSize(r) >= 4 /\ RingContents(r) \in Seq(Nat) /\ Len(RingContents(r)) = UseSize(r)
      /\ UseSize(r) \in Nat
  BY RingFacts DEF HeaderHere, HeaderSize
<1>2. \A i \in 1 .. Len(s) : s[i].cells \in Seq(Nat)
  BY DEF IsMessage
<1>3. k # Len(s)
  <2> DEFINE c == RingContents(r)
  <2> HIDE DEF c
  <2>1. c \in Seq(Nat) /\ Len(c) >= 4 /\ w \in Seq(Nat)
    BY <1>1 DEF c
  <2>2. Len(c \o w) = Len(c) + Len(w)
    BY <2>1, ConcatProperties, Zenon
  <2>3. Len(c) + Len(w) > 0
    BY <2>1, LenProperties
  <2>4. c \o w # <<>>
    BY <2>2, <2>3
  <2>5. CellsFrom(s, k) # <<>>
    BY <2>4 DEF c
  <2> QED BY <2>5, CellsSteps
<1>4. k + 1 \in 1 .. Len(s) /\ k + 1 \in 0 .. Len(s)
  BY <1>3
<1>5. CellsFrom(s, k) = s[k + 1].cells \o CellsFrom(s, k + 1)
  BY <1>3, CellsSteps
<1>6. CellsFrom(s, k + 1) \in Seq(Nat)
  BY <1>2, <1>4, CellsType
<1>7. IsMessage(s[k + 1])
  BY <1>4
<1>8. s[k + 1].cells \in Seq(Nat) /\ Len(s[k + 1].cells) = HeaderSize + Len(s[k + 1].payload)
      /\ Len(s[k + 1].payload) \in Nat
  BY <1>7 DEF IsMessage
<1> QED BY <1>4, <1>5, <1>6, <1>7, <1>8

\* RecvProc finds it by Peek, and takes it and nothing else (NetClient.cpp:581-607).
LEMMA MessageTaken ==
  ASSUME NEW r, NEW w, NEW s, NEW k, Holds(r, w, s, k), HeaderHere(r)
  PROVE  LET cells == s[k + 1].cells
             body == MoveOutPos(r, HeaderSize)
             next == Dequeue(body, PayloadLen(r))
         IN /\ PeekHeader(r) = SubSeq(cells, 1, HeaderSize)
            /\ PayloadLen(r) = Len(s[k + 1].payload)
            /\ CodeGood(r) <=> cells[1] = PACKET_CODE
            /\ MessageHere(r) =>
                 /\ Peek(body, PayloadLen(r)) = SubSeq(cells, HeaderSize + 1, Len(cells))
                 /\ Holds(next, w, s, k + 1)
<1> DEFINE cells == s[k + 1].cells
           rest == CellsFrom(s, k + 1)
           c == RingContents(r)
           u == UseSize(r)
           n == Len(s[k + 1].payload)
           x == CellsFrom(s, k)
<1>1. /\ IsRing(r) /\ w \in Seq(Nat) /\ c \o w = x
      /\ k + 1 \in 1 .. Len(s) /\ k + 1 \in 0 .. Len(s)
  <2>1. k + 1 \in 1 .. Len(s)
    BY HeaderInFront, Zenon
  <2>2. IsRing(r) /\ w \in Seq(Nat) /\ c \o w = x /\ Len(s) \in Nat
    BY DEF Holds
  <2>3. k + 1 \in 0 .. Len(s)
    BY <2>1, <2>2
  <2> QED BY <2>1, <2>2, <2>3
<1>2. IsMessage(s[k + 1]) /\ x = cells \o rest /\ cells \in Seq(Nat) /\ rest \in Seq(Nat)
      /\ Len(cells) = 4 + n /\ n \in Nat
  <2>1. IsMessage(s[k + 1]) /\ x = cells \o rest /\ cells \in Seq(Nat) /\ rest \in Seq(Nat)
        /\ Len(cells) = HeaderSize + n /\ n \in Nat
    BY HeaderInFront, ZenonT(60)
  <2> QED BY <2>1 DEF HeaderSize
<1>3. cells[2] = n
  BY <1>2 DEF IsMessage
<1>4. c \in Seq(Nat) /\ Len(c) = u /\ u \in Nat /\ u >= 4
  BY <1>1, RingFacts DEF HeaderHere, HeaderSize
<1> HIDE DEF cells, rest, c, u, n, x
<1>5. /\ Len(x) = u + Len(w) /\ Len(w) \in Nat /\ Len(rest) \in Nat
      /\ \A i \in 1 .. u : x[i] = c[i]
      /\ \A i \in 1 .. Len(w) : x[u + i] = w[i]
  <2>1. /\ Len(c \o w) = Len(c) + Len(w)
        /\ \A i \in 1 .. Len(c) + Len(w) :
              (c \o w)[i] = IF i <= Len(c) THEN c[i] ELSE w[i - Len(c)]
    BY <1>1, <1>4, ConcatProperties, Zenon
  <2>2. /\ Len(x) = u + Len(w)
        /\ \A i \in 1 .. u + Len(w) : x[i] = IF i <= u THEN c[i] ELSE w[i - u]
    BY <1>1, <1>4, <2>1, Zenon
  <2>3. Len(w) \in Nat /\ Len(rest) \in Nat
    BY <1>1, <1>2, LenProperties
  <2>4. ASSUME NEW i \in 1 .. Len(w) PROVE x[u + i] = w[i]
    <3>1. u + i \in 1 .. u + Len(w) /\ ~(u + i <= u) /\ (u + i) - u = i
      BY <1>4, <2>3
    <3> QED BY <2>2, <3>1
  <2>5. ASSUME NEW i \in 1 .. u PROVE x[i] = c[i]
    <3>1. i \in 1 .. u + Len(w) /\ i <= u
      BY <1>4, <2>3
    <3> QED BY <2>2, <3>1
  <2> QED BY <2>2, <2>3, <2>4, <2>5
<1>6. /\ Len(x) = (4 + n) + Len(rest)
      /\ \A i \in 1 .. 4 + n : x[i] = cells[i]
      /\ \A i \in 1 .. Len(rest) : x[(4 + n) + i] = rest[i]
  <2>1. /\ Len(cells \o rest) = Len(cells) + Len(rest)
        /\ \A i \in 1 .. Len(cells) + Len(rest) :
              (cells \o rest)[i] = IF i <= Len(cells) THEN cells[i] ELSE rest[i - Len(cells)]
    BY <1>2, ConcatProperties, Zenon
  <2>2. /\ Len(x) = (4 + n) + Len(rest)
        /\ \A i \in 1 .. (4 + n) + Len(rest) :
              x[i] = IF i <= 4 + n THEN cells[i] ELSE rest[i - (4 + n)]
    BY <1>2, <2>1, Zenon
  <2>3. ASSUME NEW i \in 1 .. Len(rest) PROVE x[(4 + n) + i] = rest[i]
    <3>1. (4 + n) + i \in 1 .. (4 + n) + Len(rest) /\ ~((4 + n) + i <= 4 + n)
          /\ ((4 + n) + i) - (4 + n) = i
      BY <1>2, <1>5
    <3> QED BY <2>2, <3>1
  <2>4. ASSUME NEW i \in 1 .. 4 + n PROVE x[i] = cells[i]
    <3>1. i \in 1 .. (4 + n) + Len(rest) /\ i <= 4 + n
      BY <1>2, <1>5
    <3> QED BY <2>2, <3>1
  <2> QED BY <2>2, <2>3, <2>4
<1>7. PeekHeader(r) \in Seq(Nat) /\ Len(PeekHeader(r)) = 4
      /\ \A i \in 1 .. 4 : PeekHeader(r)[i] = cells[i]
  <2>1. 4 \in Nat /\ 4 <= UseSize(r)
    BY <1>4 DEF u
  <2>2. Peek(r, 4) \in Seq(Nat) /\ Len(Peek(r, 4)) = 4 /\ \A i \in 1 .. 4 : Peek(r, 4)[i] = c[i]
    BY <1>1, <2>1, PeekIsFirst DEF c
  <2>3. PeekHeader(r) = Peek(r, 4)
    BY DEF PeekHeader, HeaderSize
  <2>4. \A i \in 1 .. 4 : c[i] = cells[i]
    BY <1>2, <1>4, <1>5, <1>6
  <2> QED BY <2>2, <2>3, <2>4
<1>8. PeekHeader(r) = SubSeq(cells, 1, 4)
  <2> DEFINE h == SubSeq(cells, 1, 4)
  <2>1. \A i \in 1 .. 4 : cells[i] \in Nat
    <3>1. \A i \in 1 .. 4 : i \in 1 .. Len(cells)
      BY <1>2
    <3> QED BY <1>2, <3>1, ElementOfSeq
  <2>0. /\ h \in Seq(Nat) /\ Len(h) = (IF 1 <= 4 THEN 4 - 1 + 1 ELSE 0)
        /\ \A i \in 1 .. 4 - 1 + 1 : h[i] = cells[1 + i - 1]
    <3>1. 1 \in Int /\ 4 \in Int
      OBVIOUS
    <3> QED BY <2>1, <3>1, SubSeqProperties
  <2> HIDE DEF h
  <2>2. h \in Seq(Nat) /\ Len(h) = 4 /\ \A i \in 1 .. 4 : h[i] = cells[i]
    <3>1. \A i \in 1 .. 4 : i \in 1 .. 4 - 1 + 1 /\ 1 + i - 1 = i
      OBVIOUS
    <3> QED BY <2>0, <3>1
  <2>3. Len(PeekHeader(r)) = Len(h)
        /\ \A i \in 1 .. Len(PeekHeader(r)) : PeekHeader(r)[i] = h[i]
    BY <1>7, <2>2
  <2>4. PeekHeader(r) = h
    BY <1>7, <2>2, <2>3, SeqEqual
  <2> QED BY <2>4 DEF h
<1>9. PayloadLen(r) = n /\ (CodeGood(r) <=> cells[1] = PACKET_CODE)
  BY <1>3, <1>7 DEF PayloadLen, CodeGood
<1> DEFINE body == MoveOutPos(r, HeaderSize)
           next == Dequeue(body, PayloadLen(r))
<1>10. ASSUME MessageHere(r)
       PROVE  /\ Peek(body, PayloadLen(r)) = SubSeq(cells, 5, Len(cells))
              /\ IsRing(next) /\ RingContents(next) \o w = rest
  <2>1. u >= 4 + n
    BY <1>9, <1>10 DEF MessageHere, HeaderSize, u
  <2>2. body = MoveOutPos(r, 4)
    BY DEF HeaderSize
  <2>3. next = Dequeue(body, n)
    BY <1>9
  <2> HIDE DEF body, next
  <2>4. /\ IsRing(body) /\ UseSize(body) = u - 4
        /\ \A i \in 1 .. u - 4 : RingContents(body)[i] = c[4 + i]
    <3>1. 4 \in Nat /\ 4 <= UseSize(r)
      BY <1>4 DEF u
    <3> QED BY <1>1, <2>2, <3>1, TakenFromRing DEF u, c
  <2>5. n <= UseSize(body)
    BY <1>2, <1>4, <2>1, <2>4
  <2>6. next = MoveOutPos(body, n)
    BY <1>2, <1>4, <2>3, <2>4, <2>5 DEF Dequeue
  <2>7. /\ IsRing(next) /\ UseSize(next) = (u - 4) - n
        /\ \A i \in 1 .. (u - 4) - n : RingContents(next)[i] = RingContents(body)[n + i]
    BY <1>2, <2>4, <2>5, <2>6, TakenFromRing
  <2> DEFINE got == Peek(body, n)
             t == SubSeq(cells, 5, Len(cells))
             d == RingContents(next)
  <2>8. got \in Seq(Nat) /\ Len(got) = n /\ \A i \in 1 .. n : got[i] = RingContents(body)[i]
    BY <1>2, <2>4, <2>5, PeekIsFirst
  <2>9. t \in Seq(Nat) /\ Len(t) = n /\ \A i \in 1 .. n : t[i] = cells[4 + i]
    <3>1. \A i \in 5 .. Len(cells) : cells[i] \in Nat
      BY <1>2, ElementOfSeq
    <3>2. 5 \in Int /\ Len(cells) \in Int
      BY <1>2
    <3>3. /\ t \in Seq(Nat) /\ Len(t) = IF 5 <= Len(cells) THEN Len(cells) - 5 + 1 ELSE 0
          /\ \A i \in 1 .. Len(cells) - 5 + 1 : t[i] = cells[5 + i - 1]
      BY <3>1, <3>2, SubSeqProperties
    <3> HIDE DEF t
    <3>4. \A i \in 1 .. n : i \in 1 .. Len(cells) - 5 + 1 /\ 5 + i - 1 = 4 + i
      BY <1>2
    <3>5. Len(t) = n
      BY <1>2, <3>3
    <3> QED BY <3>3, <3>4, <3>5
  <2> HIDE DEF got, t, d
  <2>10. got = t
    <3>1. ASSUME NEW i \in 1 .. n PROVE got[i] = t[i]
      <4>1. i \in 1 .. u - 4 /\ 4 + i \in 1 .. u /\ 4 + i \in 1 .. 4 + n
        BY <1>2, <1>4, <2>1
      <4>2. got[i] = c[4 + i]
        BY <2>4, <2>8, <4>1
      <4>3. c[4 + i] = cells[4 + i]
        BY <1>5, <1>6, <4>1
      <4> QED BY <2>9, <4>2, <4>3
    <3>2. Len(got) = Len(t) /\ \A i \in 1 .. Len(got) : got[i] = t[i]
      BY <2>8, <2>9, <3>1
    <3> QED BY <2>8, <2>9, <3>2, SeqEqual
  <2>11. d \in Seq(Nat) /\ Len(d) = (u - 4) - n
    BY <2>7, RingFacts DEF d
  <2>12. /\ d \o w \in Seq(Nat) /\ Len(d \o w) = Len(d) + Len(w)
         /\ \A i \in 1 .. Len(d) + Len(w) :
              (d \o w)[i] = IF i <= Len(d) THEN d[i] ELSE w[i - Len(d)]
    BY <1>1, <2>11, ConcatProperties, Zenon
  <2> DEFINE y == d \o w
  <2> HIDE DEF y
  <2>13. /\ y \in Seq(Nat) /\ Len(y) = Len(d) + Len(w)
         /\ \A i \in 1 .. Len(d) + Len(w) : y[i] = IF i <= Len(d) THEN d[i] ELSE w[i - Len(d)]
    BY <2>12, Zenon DEF y
  <2>14. Len(y) = Len(rest)
    BY <1>2, <1>4, <1>5, <1>6, <2>11, <2>13
  <2>15. ASSUME NEW i \in 1 .. Len(y) PROVE y[i] = rest[i]
    <3>1. i \in Nat /\ i \in 1 .. Len(rest) /\ i \in 1 .. Len(d) + Len(w) /\ Len(y) \in Nat
      BY <1>5, <2>13, <2>14
    <3>2. rest[i] = x[(4 + n) + i]
      BY <1>6, <3>1
    <3>3. CASE i <= Len(d)
      <4>1. i \in 1 .. (u - 4) - n /\ n + i \in 1 .. u - 4 /\ 4 + (n + i) \in 1 .. u
            /\ 4 + (n + i) = (4 + n) + i
        BY <1>2, <1>4, <2>11, <3>1, <3>3
      <4>2. y[i] = d[i] /\ d[i] = RingContents(body)[n + i]
        BY <2>7, <2>13, <3>1, <3>3, <4>1 DEF d
      <4>3. RingContents(body)[n + i] = c[4 + (n + i)]
        BY <2>4, <4>1
      <4>4. c[4 + (n + i)] = x[(4 + n) + i]
        BY <1>5, <4>1
      <4> QED BY <3>2, <4>2, <4>3, <4>4
    <3>4. CASE ~(i <= Len(d))
      <4>1. i - Len(d) \in 1 .. Len(w) /\ u + (i - Len(d)) = (4 + n) + i
        <5>1. i \in 1 .. ((u - 4) - n) + Len(w) /\ ~(i <= (u - 4) - n)
          BY <2>11, <3>1, <3>4
        <5>2. i - ((u - 4) - n) \in 1 .. Len(w)
              /\ u + (i - ((u - 4) - n)) = (4 + n) + i
          BY <1>2, <1>4, <1>5, <3>1, <5>1
        <5> QED BY <2>11, <5>2
      <4>2. y[i] = w[i - Len(d)]
        BY <2>13, <3>1, <3>4
      <4>3. x[u + (i - Len(d))] = w[i - Len(d)]
        BY <1>5, <4>1
      <4> QED BY <3>2, <4>1, <4>2, <4>3
    <3> QED BY <3>3, <3>4
  <2>16. y = rest
    BY <1>2, <2>13, <2>14, <2>15, SeqEqual
  <2>17. Peek(body, PayloadLen(r)) = t
    BY <1>9, <2>10 DEF got
  <2> QED BY <2>7, <2>16, <2>17 DEF y, d, t
<1>11. MessageHere(r) => Holds(next, w, s, k + 1)
  <2> HIDE DEF next
  <2>1. w \in Seq(Nat) /\ Len(s) \in Nat /\ \A i \in 1 .. Len(s) : IsMessage(s[i])
    BY DEF Holds
  <2> QED BY <1>1, <1>10, <2>1 DEF Holds, rest
<1>12. PeekHeader(r) = SubSeq(cells, 1, HeaderSize)
  BY <1>8 DEF HeaderSize
<1>13. MessageHere(r) =>
          Peek(body, PayloadLen(r)) = SubSeq(cells, HeaderSize + 1, Len(cells))
  <2>1. HeaderSize + 1 = 5
    BY DEF HeaderSize
  <2> HIDE DEF body
  <2> QED BY <1>10, <2>1
<1> QED BY <1>9, <1>11, <1>12, <1>13 DEF cells, n

\* An empty ring holds the front of nothing.
LEMMA EmptyHolds ==
  ASSUME NEW r, IsRing(r), r.iInPos = r.iOutPos
  PROVE  ~HeaderHere(r) /\ Holds(r, <<>>, <<>>, 0)
<1>1. r.iInPos \in Nat /\ UseSize(r) = 0
  BY RingFacts, BufferAssumption DEF Positions, UseSize, GetUseSize
<1>2. ~HeaderHere(r)
  BY <1>1 DEF HeaderHere, HeaderSize
<1>3. RingContents(r) = <<>>
  <2>1. RingContents(r) \in Seq(Nat) /\ Len(RingContents(r)) = 0
    BY <1>1, RingFacts
  <2> QED BY <2>1, EmptySeq
<1>4. <<>> \in Seq(Nat) /\ <<>> \o <<>> = <<>> /\ Len(<<>>) = 0
  OBVIOUS
<1>5. CellsFrom(<<>>, 0) = <<>>
  <2> DEFINE none == <<>>
  <2>1. Len(none) = 0 /\ Len(none) \in Nat /\ 0 \in 0 .. Len(none)
    OBVIOUS
  <2> HIDE DEF none
  <2>2. CellsFrom(none, 0) = <<>>
    BY <2>1, CellsSteps
  <2> QED BY <2>2 DEF none
<1> QED BY <1>2, <1>3, <1>4, <1>5 DEF Holds

\* Concatenation of cells is associative.
LEMMA CellsAssociate ==
  \A x, y, z \in Seq(Nat) : (x \o y) \o z = x \o (y \o z)
BY ConcatAssociative, SMTT(40)

\* ClearBuffer empties it (RingBuffer.h).
LEMMA ClearedRing ==
  ASSUME NEW r, IsRing(r)
  PROVE  IsRing(ClearBuffer(r)) /\ ClearBuffer(r).iInPos = ClearBuffer(r).iOutPos
<1>1. 0 \in Positions
  BY BufferAssumption DEF Positions
<1>2. r \in [iInPos : Positions, iOutPos : Positions, buffer : [Positions -> Nat]]
  BY DEF IsRing
<1>3. /\ ClearBuffer(r) \in [iInPos : Positions, iOutPos : Positions, buffer : [Positions -> Nat]]
      /\ ClearBuffer(r).iInPos = 0 /\ ClearBuffer(r).iOutPos = 0
  BY <1>1, <1>2 DEF ClearBuffer
<1> QED BY <1>3 DEF IsRing

\* A message that is sent goes behind what is under way.
LEMMA SentBehind ==
  ASSUME NEW r, NEW w, NEW s \in Seq(Sendable), NEW k, Holds(r, w, s, k),
         NEW message \in Sendable
  PROVE  Holds(r, w \o message.cells, Append(s, message), k)
<1> DEFINE t == Append(s, message)
           c == RingContents(r)
           e == message.cells
<1>1. t \in Seq(Sendable) /\ Len(t) = Len(s) + 1 /\ Len(s) \in Nat /\ t[Len(t)] = message
      /\ \A i \in 1 .. Len(s) : t[i] = s[i]
  OBVIOUS
<1> HIDE DEF t
<1>2. \A i \in 1 .. Len(t) : IsMessage(t[i])
  <2>1. \A i \in 1 .. Len(t) : t[i] \in Sendable
    BY <1>1, ElementOfSeq
  <2> QED BY <2>1, SendableIsMessage
<1>3. \A i \in 1 .. Len(t) : t[i].cells \in Seq(Nat)
  BY <1>2 DEF IsMessage
<1>4. IsRing(r) /\ w \in Seq(Nat) /\ k \in 0 .. Len(s) /\ c \o w = CellsFrom(s, k)
  BY DEF Holds
<1>5. CellsFrom(t, k) = CellsFrom(s, k) \o e
  <2>1. \A j \in 0 .. Len(s) : CellsFrom(t, j) = CellsFrom(s, j) \o t[Len(t)].cells
    BY <1>1, <1>3, CellsAppend
  <2> QED BY <1>1, <1>4, <2>1
<1>6. c \in Seq(Nat) /\ e \in Seq(Nat)
  <2>1. c \in Seq(Nat)
    BY <1>4, RingFacts
  <2>2. Len(t) \in 1 .. Len(t)
    BY <1>1
  <2>3. e \in Seq(Nat)
    BY <1>1, <1>3, <2>2
  <2> QED BY <2>1, <2>3
<1> HIDE DEF c, e
<1>7. c \o (w \o e) = CellsFrom(t, k)
  <2>1. c \in Seq(Nat) /\ w \in Seq(Nat) /\ e \in Seq(Nat)
    BY <1>4, <1>6
  <2>2. (c \o w) \o e = c \o (w \o e)
    BY <2>1, CellsAssociate, Zenon
  <2> QED BY <1>4, <1>5, <2>2
<1>8. w \o e \in Seq(Nat)
  BY <1>4, <1>6, ConcatProperties
<1>9. k \in 0 .. Len(t) /\ Len(t) \in Nat
  BY <1>1, <1>4
<1> QED BY <1>2, <1>4, <1>7, <1>8, <1>9 DEF Holds, c, e, t

\* What comes into the ring leaves the wire, and nothing is lost between.
LEMMA ReceivedInPlace ==
  ASSUME NEW r, NEW w, NEW s, NEW k, Holds(r, w, s, k),
         NEW n \in 1 .. Len(w), n <= BUFFER_SIZE - UseSize(r)
  PROVE  Holds(Filled(r, w, n), SubSeq(w, n + 1, Len(w)), s, k)
<1> DEFINE q == Filled(r, w, n)
           v == SubSeq(w, n + 1, Len(w))
           c == RingContents(r)
           d == RingContents(q)
           u == UseSize(r)
           m == Len(w)
           x == CellsFrom(s, k)
<1>1. IsRing(r) /\ w \in Seq(Nat) /\ c \o w = x
  BY DEF Holds
<1>2. /\ IsRing(q) /\ UseSize(q) = u + n
      /\ \A i \in 1 .. u : d[i] = c[i]
      /\ \A i \in 1 .. n : d[u + i] = w[i]
  BY <1>1, FilledRing
<1> HIDE DEF q
<1>3. /\ c \in Seq(Nat) /\ Len(c) = u /\ u \in Nat /\ d \in Seq(Nat) /\ Len(d) = u + n
      /\ m \in Nat /\ n \in Nat /\ n <= m
  <2>1. c \in Seq(Nat) /\ Len(c) = u /\ u \in Nat
    BY <1>1, RingFacts
  <2>2. d \in Seq(Nat) /\ Len(d) = u + n
    BY <1>2, RingFacts
  <2>3. m \in Nat
    BY <1>1, LenProperties
  <2> HIDE DEF m
  <2>4. n \in 1 .. m
    BY DEF m
  <2> QED BY <2>1, <2>2, <2>3, <2>4
<1> HIDE DEF c, d, u, m, x
<1>4. v \in Seq(Nat) /\ Len(v) = m - n /\ \A i \in 1 .. m - n : v[i] = w[n + i]
  <2>1. \A i \in n + 1 .. m : w[i] \in Nat
    <3>1. \A i \in n + 1 .. m : i \in 1 .. m
      BY <1>3
    <3> QED BY <1>1, <3>1, ElementOfSeq DEF m
  <2>2. n + 1 \in Int /\ m \in Int /\ v = SubSeq(w, n + 1, m)
    BY <1>3 DEF m
  <2> HIDE DEF v
  <2>3. /\ v \in Seq(Nat) /\ Len(v) = (IF n + 1 <= m THEN m - (n + 1) + 1 ELSE 0)
        /\ \A i \in 1 .. m - (n + 1) + 1 : v[i] = w[(n + 1) + i - 1]
    BY <2>1, <2>2, SubSeqProperties
  <2>4. Len(v) = m - n
    BY <1>3, <2>3
  <2>5. \A i \in 1 .. m - n : i \in 1 .. m - (n + 1) + 1 /\ (n + 1) + i - 1 = n + i
    BY <1>3
  <2> QED BY <2>3, <2>4, <2>5
<1> HIDE DEF v
<1>5. /\ Len(x) = u + m /\ x \in Seq(Nat)
      /\ \A i \in 1 .. u + m : x[i] = IF i <= u THEN c[i] ELSE w[i - u]
  <2>1. /\ c \o w \in Seq(Nat) /\ Len(c \o w) = Len(c) + Len(w)
        /\ \A i \in 1 .. Len(c) + Len(w) :
              (c \o w)[i] = IF i <= Len(c) THEN c[i] ELSE w[i - Len(c)]
    BY <1>1, <1>3, ConcatProperties, Zenon
  <2> QED BY <1>1, <1>3, <2>1, Zenon DEF m
<1> DEFINE y == d \o v
<1>6. /\ Len(y) = (u + n) + (m - n) /\ y \in Seq(Nat)
      /\ \A i \in 1 .. (u + n) + (m - n) : y[i] = IF i <= u + n THEN d[i] ELSE v[i - (u + n)]
  <2>1. /\ d \o v \in Seq(Nat) /\ Len(d \o v) = Len(d) + Len(v)
        /\ \A i \in 1 .. Len(d) + Len(v) :
              (d \o v)[i] = IF i <= Len(d) THEN d[i] ELSE v[i - Len(d)]
    BY <1>3, <1>4, ConcatProperties, Zenon
  <2> QED BY <1>3, <1>4, <2>1, Zenon
<1> HIDE DEF y
<1>7. Len(y) = Len(x) /\ Len(y) = u + m
  BY <1>3, <1>5, <1>6
<1>8. ASSUME NEW i \in 1 .. u + m PROVE y[i] = x[i]
  <2>1. i \in Nat /\ i \in 1 .. (u + n) + (m - n)
    BY <1>3
  <2>2. y[i] = IF i <= u + n THEN d[i] ELSE v[i - (u + n)]
    BY <1>6, <2>1
  <2>3. x[i] = IF i <= u THEN c[i] ELSE w[i - u]
    BY <1>5
  <2>4. CASE i <= u
    <3>1. i \in 1 .. u /\ i <= u + n
      BY <1>3, <2>1, <2>4
    <3> QED BY <1>2, <2>2, <2>3, <2>4, <3>1
  <2>5. CASE ~(i <= u) /\ i <= u + n
    <3>1. i - u \in 1 .. n /\ u + (i - u) = i
      BY <1>3, <2>1, <2>5
    <3>2. d[u + (i - u)] = w[i - u]
      BY <1>2, <3>1
    <3>3. d[i] = w[i - u]
      BY <3>1, <3>2
    <3> QED BY <2>2, <2>3, <2>5, <3>3
  <2>6. CASE ~(i <= u + n)
    <3>1. i - (u + n) \in 1 .. m - n /\ n + (i - (u + n)) = i - u /\ ~(i <= u)
      BY <1>3, <2>1, <2>6
    <3>2. v[i - (u + n)] = w[n + (i - (u + n))]
      BY <1>4, <3>1
    <3>3. v[i - (u + n)] = w[i - u]
      BY <3>1, <3>2
    <3> QED BY <2>2, <2>3, <2>6, <3>1, <3>3
  <2> QED BY <2>4, <2>5, <2>6
<1>9. y = x
  BY <1>5, <1>6, <1>7, <1>8, SeqEqual
<1>10. RingContents(q) \o v = CellsFrom(s, k)
  BY <1>9 DEF y, d, x
<1>11. Len(s) \in Nat /\ (\A i \in 1 .. Len(s) : IsMessage(s[i])) /\ k \in 0 .. Len(s)
  BY DEF Holds
<1> QED BY <1>2, <1>4, <1>10, <1>11 DEF Holds, q, v

-----------------------------------------------------------------------------
(* The invariant, and that every step keeps it *)

\* What RecvPost posted is still the free part, and RecvProc left no whole message.
PostedRest ==
    step = "posted" =>
        /\ posted = RecvPost(ring)
        /\ HeaderHere(ring) => CodeGood(ring) /\ ~MessageHere(ring)

\* The ring and the wire hold what has been sent and not delivered, as long as the
\* connection lasts; a broken message ends it with its header already taken.
FramingInv ==
    /\ IsRing(ring) /\ wire \in Seq(Nat)
    /\ sent \in Seq(Sendable) /\ delivered \in Seq(Seq(Byte))
    /\ InOrder
    /\ PostedRest
    /\ step # "ended" => Holds(ring, wire, sent, Len(delivered))

\* Nothing delivered, nothing sent
LEMMA NothingInOrder ==
  ASSUME sent = <<>>, delivered = <<>> PROVE InOrder
BY DEF InOrder

\* The first connection starts with all of it empty.
LEMMA FramingStart == Init => FramingInv
<1> SUFFICES ASSUME Init PROVE FramingInv
  OBVIOUS
<1>1. IsRing(EmptyRing)
  BY BufferAssumption DEF IsRing, EmptyRing, Positions
<1>2. EmptyRing.iInPos = EmptyRing.iOutPos
  BY DEF EmptyRing
<1>3. ~HeaderHere(EmptyRing) /\ Holds(EmptyRing, <<>>, <<>>, 0)
  BY <1>1, <1>2, EmptyHolds
<1>4. ring = EmptyRing /\ wire = <<>> /\ sent = <<>> /\ delivered = <<>>
      /\ posted = RecvPost(ring)
  BY DEF Init
<1>5. wire \in Seq(Nat) /\ sent \in Seq(Sendable) /\ delivered \in Seq(Seq(Byte))
      /\ Len(delivered) = 0
  BY <1>4
<1>6. InOrder
  BY <1>4, NothingInOrder
<1>7. PostedRest
  BY <1>3, <1>4 DEF PostedRest
<1>8. Holds(ring, wire, sent, Len(delivered))
  BY <1>3, <1>4, <1>5
<1> QED BY <1>1, <1>4, <1>5, <1>6, <1>7, <1>8 DEF FramingInv

\* Send puts a message behind the others.
LEMMA SendKeeps ==
  ASSUME FramingInv, NEW message \in Sendable, Send(message) PROVE FramingInv'
<1> USE DEF FramingInv
<1>1. sent' = Append(sent, message) /\ wire' = wire \o message.cells /\ step # "ended"
      /\ ring' = ring /\ posted' = posted /\ step' = step /\ delivered' = delivered
  BY DEF Send
<1>2. sent \in Seq(Sendable) /\ Len(sent) \in Nat
  OBVIOUS
<1>3. sent' \in Seq(Sendable) /\ Len(sent') = Len(sent) + 1
      /\ \A i \in 1 .. Len(sent) : sent'[i] = sent[i]
  BY <1>1, <1>2, AppendProperties
<1>4. Holds(ring, wire \o message.cells, Append(sent, message), Len(delivered))
  BY <1>1, <1>2, SentBehind
<1>5. Holds(ring', wire', sent', Len(delivered'))
  BY <1>1, <1>4
<1>6. wire' \in Seq(Nat)
  BY <1>5 DEF Holds
<1>7. InOrder'
  <2>1. Len(delivered) \in Nat /\ DOMAIN delivered = 1 .. Len(delivered)
    BY LenProperties
  <2>2. Len(delivered) <= Len(sent)
    BY DEF InOrder
  <2>3. ASSUME NEW i \in DOMAIN delivered
        PROVE  sent'[i].genuine /\ delivered[i] = sent'[i].payload
    <3>1. i \in 1 .. Len(sent)
      BY <1>2, <2>1, <2>2
    <3>2. sent'[i] = sent[i]
      BY <1>3, <3>1
    <3> QED BY <3>2 DEF InOrder
  <2>4. Len(delivered) <= Len(sent')
    BY <1>2, <1>3, <2>1, <2>2
  <2> QED BY <1>1, <2>3, <2>4 DEF InOrder
<1>8. PostedRest'
  BY <1>1 DEF PostedRest
<1> QED BY <1>1, <1>3, <1>5, <1>6, <1>7, <1>8

\* A completion moves cells from the wire to the ring, into what was posted.
LEMMA ReceiveKeeps ==
  ASSUME FramingInv, NEW n \in 1 .. BUFFER_SIZE, Receive(n) PROVE FramingInv'
<1> USE DEF FramingInv
<1>1. step = "posted" /\ n \in 1 .. Len(wire) /\ n <= posted.direct + posted.around
      /\ wire' = SubSeq(wire, n + 1, Len(wire)) /\ step' = "recvProc"
      /\ sent' = sent /\ delivered' = delivered
  BY DEF Receive
<1>2. posted = RecvPost(ring)
  BY <1>1 DEF PostedRest
<1>3. ring' = Filled(ring, wire, n)
  BY <1>2 DEF Receive, Filled
<1>4. n <= BUFFER_SIZE - UseSize(ring)
  BY <1>1, <1>2, PostedIsFree
<1>5. Holds(ring, wire, sent, Len(delivered))
  BY <1>1
<1>6. Holds(Filled(ring, wire, n), SubSeq(wire, n + 1, Len(wire)), sent, Len(delivered))
  BY <1>1, <1>4, <1>5, ReceivedInPlace
<1>7. Holds(ring', wire', sent', Len(delivered'))
  BY <1>1, <1>3, <1>6
<1>8. IsRing(ring') /\ wire' \in Seq(Nat)
  BY <1>7 DEF Holds
<1>9. InOrder'
  BY <1>1 DEF InOrder
<1>10. PostedRest'
  BY <1>1 DEF PostedRest
<1> QED BY <1>1, <1>7, <1>8, <1>9, <1>10

\* The end of a connection changes nothing but step.
LEMMA EndKeeps ==
  ASSUME FramingInv, End \/ RefuseHeader PROVE FramingInv'
<1>1. step' = "ended" /\ ring' = ring /\ wire' = wire /\ sent' = sent
      /\ delivered' = delivered
  BY DEF End, RefuseHeader
<1>2. PostedRest'
  BY <1>1 DEF PostedRest
<1>3. InOrder'
  BY <1>1 DEF FramingInv, InOrder
<1> QED BY <1>1, <1>2, <1>3 DEF FramingInv

\* A new connection starts with all of it empty.
LEMMA ConnectKeeps == ASSUME FramingInv, ConnectProc PROVE FramingInv'
<1>1. ring' = ClearBuffer(ring) /\ posted' = RecvPost(ring')
      /\ wire' = <<>> /\ sent' = <<>> /\ delivered' = <<>>
  BY DEF ConnectProc
<1>2. IsRing(ring') /\ ring'.iInPos = ring'.iOutPos
  <2>1. IsRing(ring)
    BY DEF FramingInv
  <2>2. IsRing(ClearBuffer(ring)) /\ ClearBuffer(ring).iInPos = ClearBuffer(ring).iOutPos
    BY <2>1, ClearedRing
  <2> QED BY <1>1, <2>2
<1>3. ~HeaderHere(ring') /\ Holds(ring', <<>>, <<>>, 0)
  BY <1>2, EmptyHolds
<1>4. wire' \in Seq(Nat) /\ sent' \in Seq(Sendable) /\ delivered' \in Seq(Seq(Byte))
      /\ Len(delivered') = 0
  BY <1>1
<1>5. InOrder'
  BY <1>1 DEF InOrder
<1>6. PostedRest'
  BY <1>1, <1>3 DEF PostedRest
<1>7. Holds(ring', wire', sent', Len(delivered'))
  BY <1>1, <1>3, <1>4
<1> QED BY <1>2, <1>4, <1>5, <1>6, <1>7 DEF FramingInv

\* Wait posts what is free, behind less than a message.
LEMMA WaitKeeps == ASSUME FramingInv, Wait PROVE FramingInv'
<1>1. /\ step = "recvProc" /\ posted' = RecvPost(ring) /\ ring' = ring /\ wire' = wire
      /\ sent' = sent /\ delivered' = delivered
      /\ HeaderHere(ring) => CodeGood(ring) /\ ~MessageHere(ring)
  BY DEF Wait
<1>2. PostedRest'
  BY <1>1 DEF PostedRest
<1>3. InOrder'
  BY <1>1 DEF FramingInv, InOrder
<1> QED BY <1>1, <1>2, <1>3 DEF FramingInv

\* What is taken out of the ring is the next message sent, and if it is let through it
\* goes behind what has been delivered.
LEMMA TakeKeeps == ASSUME FramingInv, TakeMessage PROVE FramingInv'
<1> DEFINE k == Len(delivered)
           m == sent[k + 1]
           n == PayloadLen(ring)
           body == MoveOutPos(ring, HeaderSize)
           next == Dequeue(body, n)
           p == Received(PeekHeader(ring), Peek(body, n))
<1>1. step = "recvProc" /\ HeaderHere(ring) /\ CodeGood(ring) /\ MessageHere(ring)
      /\ ring' = next /\ wire' = wire /\ sent' = sent
  BY DEF TakeMessage
<1>2. IF ValidateReceived(p)
      THEN delivered' = Append(delivered, Payload(p)) /\ step' = step
      ELSE step' = "ended" /\ delivered' = delivered
  BY DEF TakeMessage
<1>3. Holds(ring, wire, sent, k) /\ wire \in Seq(Nat) /\ sent \in Seq(Sendable)
      /\ delivered \in Seq(Seq(Byte)) /\ k \in Nat /\ Len(sent) \in Nat
  BY <1>1 DEF FramingInv
<1>4. /\ PeekHeader(ring) = SubSeq(m.cells, 1, HeaderSize)
      /\ CodeGood(ring) <=> m.cells[1] = PACKET_CODE
      /\ MessageHere(ring) =>
           /\ Peek(body, n) = SubSeq(m.cells, HeaderSize + 1, Len(m.cells))
           /\ Holds(next, wire, sent, k + 1)
  BY <1>1, <1>3, MessageTaken, ZenonT(60)
<1>5. k + 1 \in 1 .. Len(sent) /\ IsMessage(m)
  BY <1>1, <1>3, HeaderInFront, Zenon
<1> DEFINE q == Received(SubSeq(m.cells, 1, HeaderSize),
                         SubSeq(m.cells, HeaderSize + 1, Len(m.cells)))
<1>6. p = q
  BY <1>1, <1>4
<1>7. m.cells[1] = PACKET_CODE /\ ValidateReceived(q) => m.genuine /\ Payload(q) = m.payload
  BY <1>5 DEF IsMessage
<1>8. m.payload \in Seq(Byte)
  BY <1>5 DEF IsMessage
<1> HIDE DEF p, q, next, body, n
<1>9. ValidateReceived(p) => m.genuine /\ Payload(p) = m.payload
  BY <1>1, <1>4, <1>6, <1>7
<1>10. IsRing(next) /\ Holds(next, wire, sent, k + 1)
  BY <1>1, <1>4 DEF Holds
<1>11. step' # "posted"
  BY <1>1, <1>2
<1>12. PostedRest'
  BY <1>11 DEF PostedRest
<1>13. CASE ValidateReceived(p)
  <2>1. delivered' = Append(delivered, m.payload)
    BY <1>2, <1>9, <1>13
  <2>2. delivered' \in Seq(Seq(Byte)) /\ Len(delivered') = k + 1
        /\ delivered'[k + 1] = m.payload /\ \A i \in 1 .. k : delivered'[i] = delivered[i]
    BY <1>3, <1>8, <2>1, AppendProperties
  <2>3. Holds(ring', wire', sent', Len(delivered'))
    BY <1>1, <1>10, <2>2
  <2>4. DOMAIN delivered' = 1 .. k + 1 /\ DOMAIN delivered = 1 .. k
    BY <1>3, <2>2, LenProperties
  <2>5. ASSUME NEW i \in 1 .. k + 1
        PROVE  sent[i].genuine /\ delivered'[i] = sent[i].payload
    <3>1. CASE i = k + 1
      BY <1>9, <1>13, <2>2, <3>1
    <3>2. CASE i # k + 1
      <4>1. i \in 1 .. k
        BY <1>3, <3>2
      <4>2. delivered'[i] = delivered[i]
        BY <2>2, <4>1
      <4>3. sent[i].genuine /\ delivered[i] = sent[i].payload
        BY <2>4, <4>1 DEF FramingInv, InOrder
      <4> QED BY <4>2, <4>3
    <3> QED BY <3>1, <3>2
  <2>6. InOrder'
    <3>1. Len(delivered') <= Len(sent)
      BY <1>3, <1>5, <2>2
    <3> QED BY <1>1, <2>4, <2>5, <3>1 DEF InOrder
  <2> QED BY <1>1, <1>3, <1>10, <1>12, <2>2, <2>3, <2>6 DEF FramingInv
<1>14. CASE ~ValidateReceived(p)
  <2>1. step' = "ended" /\ delivered' = delivered
    BY <1>2, <1>14
  <2>2. InOrder'
    BY <1>1, <2>1 DEF FramingInv, InOrder
  <2> QED BY <1>1, <1>3, <1>10, <1>12, <2>1, <2>2 DEF FramingInv
<1> QED BY <1>13, <1>14

\* Every step keeps the invariant.
LEMMA FramingStep == FramingInv /\ [Next]_vars => FramingInv'
<1> SUFFICES ASSUME FramingInv, [Next]_vars PROVE FramingInv'
  OBVIOUS
<1>1. CASE \E message \in Sendable : Send(message)
  BY <1>1, SendKeeps
<1>2. CASE Network
  BY <1>2, ReceiveKeeps DEF Network
<1>3. CASE End
  BY <1>3, EndKeeps
<1>4. CASE ConnectProc
  BY <1>4, ConnectKeeps
<1>5. CASE RecvProc
  BY <1>5, WaitKeeps, EndKeeps, TakeKeeps DEF RecvProc
<1>6. CASE UNCHANGED vars
  <2>1. ring' = ring /\ posted' = posted /\ step' = step /\ wire' = wire /\ sent' = sent
        /\ delivered' = delivered
    BY <1>6 DEF vars
  <2>2. PostedRest' <=> PostedRest
    BY <2>1 DEF PostedRest
  <2>3. InOrder' <=> InOrder
    BY <2>1 DEF InOrder
  <2> QED BY <2>1, <2>2, <2>3 DEF FramingInv
<1> QED BY <1>1, <1>2, <1>3, <1>4, <1>5, <1>6 DEF Next

\* The ring and the wire hold what has been sent and not delivered.
THEOREM FramingHolds == Spec => []FramingInv
<1>1. Init => FramingInv
  BY FramingStart
<1>2. FramingInv /\ [Next]_vars => FramingInv'
  BY FramingStep
<1> QED BY <1>1, <1>2, PTL DEF Spec

\* OnRecv gets what the peer sent, in order and unaltered, and no message with a wrong
\* code or another last byte than was sent (NetClient.cpp:590-612).
THEOREM DeliveredInOrder == Spec => []InOrder
<1>1. FramingInv => InOrder
  BY DEF FramingInv
<1> QED BY <1>1, FramingHolds, PTL

\* No cell is lost, doubled or out of place between the wire and OnRecv
\* (RingBuffer.cpp:65, NetClient.cpp:505-537).
THEOREM NoCellLost == Spec => []RingExact
<1>1. FramingInv => RingExact
  BY DEF FramingInv, Holds, RingExact, CellsAfter, CellsFrom
<1> QED BY <1>1, FramingHolds, PTL

\* What is posted is the free part of the ring, and empty only behind a message that
\* can never be whole (NetClient.cpp:590).
THEOREM PostedIsRight == Spec => []PostedRight
<1>1. ASSUME FramingInv, step = "posted"
      PROVE  PostedRight
  <2> DEFINE n == PayloadLen(ring)
             u == UseSize(ring)
  <2>1. /\ IsRing(ring) /\ posted = RecvPost(ring)
        /\ HeaderHere(ring) => CodeGood(ring) /\ ~MessageHere(ring)
    BY <1>1 DEF FramingInv, PostedRest
  <2>2. posted.around \in Nat /\ posted.direct + posted.around = BUFFER_SIZE - UseSize(ring)
    BY <2>1, PostedIsFree
  <2>3. u \in Nat /\ BUFFER_SIZE \in Nat /\ BUFFER_SIZE >= HeaderSize /\ HeaderSize = 4
    BY <2>1, RingFacts, BufferAssumption, RingAssumption DEF HeaderSize
  <2>4. ASSUME HeaderHere(ring) PROVE u < HeaderSize + n /\ n \in Nat
    <3>1. 4 \in Nat /\ 4 <= UseSize(ring)
      BY <2>3, <2>4 DEF HeaderHere
    <3>2. Peek(ring, 4) \in Seq(Nat) /\ Len(Peek(ring, 4)) = 4
      BY <2>1, <3>1, PeekIsFirst
    <3> DEFINE h == Peek(ring, 4)
    <3> HIDE DEF h
    <3>3. h \in Seq(Nat) /\ 2 \in 1 .. Len(h)
      <4>1. h \in Seq(Nat) /\ Len(h) = 4
        BY <3>2, Zenon DEF h
      <4> QED BY <4>1
    <3>4. n \in Nat
      <4>1. h[2] \in Nat
        BY <3>3, ElementOfSeq
      <4> QED BY <2>3, <4>1 DEF PayloadLen, PeekHeader, h
    <3>5. ~(u >= HeaderSize + n)
      BY <2>1, <2>4 DEF MessageHere
    <3> HIDE DEF n, u
    <3> QED BY <2>3, <3>4, <3>5
  <2>5. u = BUFFER_SIZE => HeaderHere(ring)
    BY <2>3 DEF HeaderHere
  <2> HIDE DEF n, u
  <2>6. u = BUFFER_SIZE => n > BUFFER_SIZE - HeaderSize
    BY <2>3, <2>4, <2>5
  <2>7. posted.around >= 0
    BY <2>2
  <2> QED BY <2>1, <2>2, <2>4, <2>6, <2>7 DEF PostedRight, n, u
<1>2. FramingInv => PostedRight
  BY <1>1 DEF PostedRight
<1> QED BY <1>2, FramingHolds, PTL
=============================================================================
