-------------------------- MODULE MCMaxBinaryHeap --------------------------
(* Both heaps, accounts enough for a heap of depth three, keys with ties.  *)
EXTENDS MaxBinaryHeap, TLC

AccountSymmetry == Permutations(Accounts)
=============================================================================
