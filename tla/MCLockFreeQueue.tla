-------------------------- MODULE MCLockFreeQueue --------------------------
(* A small instance of LockFreeQueue for TLC. *)
EXTENDS LockFreeQueue, TLC

\* Threads run the same code; queues and nodes are only compared.
QueueSymmetry ==
    Permutations(Threads) \cup Permutations(Queues) \cup Permutations(Nodes)
=============================================================================
