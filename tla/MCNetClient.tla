---------------------------- MODULE MCNetClient ----------------------------
(* Small instances of NetClient for TLC. *)
EXTENDS NetClientProps, TLC

\* The workers run the same code and no property tells them apart.
WorkerSymmetry == Permutations(Workers)
=============================================================================
