----------------------------- MODULE MCRcuLock -----------------------------
(* RcuLock for model checking.  Threads of a kind are interchangeable. *)
EXTENDS RcuLock, TLC

Symmetry == Permutations(Readers) \cup Permutations(Writers)
=============================================================================
