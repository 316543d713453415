-------------------------- MODULE MCLockFreeStack --------------------------
(* A small instance of LockFreeStack for TLC. *)
EXTENDS LockFreeStack, TLC

\* Threads run the same code; nodes and values are only compared.
StackSymmetry ==
    Permutations(Threads) \cup Permutations(Nodes) \cup Permutations(Values)
=============================================================================
