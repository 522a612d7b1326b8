--------------------------- MODULE MCTokenBucket ---------------------------
(***************************************************************************)
(* TLC instance of TokenBucket.                                            *)
(***************************************************************************)
EXTENDS TokenBucket, TLC

Symm == Permutations(Threads)
============================================================================
