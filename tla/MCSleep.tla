------------------------------ MODULE MCSleep -------------------------------
(* Three waiters and two wakers on one channel. *)
EXTENDS Sleep, TLC

Symmetry == Permutations(Waiters) \cup Permutations(Wakers)
=============================================================================
