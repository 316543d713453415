-------------------------- MODULE MCTlsObjectPool --------------------------
(* A small instance of TlsObjectPool for TLC. *)
EXTENDS TlsObjectPool, TLC

\* Threads run the same code; buckets are only compared.
PoolSymmetry == Permutations(Threads) \cup Permutations(Buckets)
=============================================================================
