----------------------------- MODULE MCFraming -----------------------------
(* A small instance of Framing for TLC. *)
EXTENDS Framing, Bitwise

XorTable == [a \in Byte |-> [b \in Byte |-> a ^^ b]]

\* Payloads of 1 and 3 cells; one that has no place beside its header in a ring
\* of 8; and one that is longer than the ring
SomeMessages ==
    {<<<<1>>>>, <<<<2, 3>>, <<1>>>>, <<<<2, 3>>, <<2, 0>>, <<1>>>>,
     <<<<1, 2>>, <<3, 0>>, <<1, 2>>, <<3, 0>>, <<1>>>>}
=============================================================================
