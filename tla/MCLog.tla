------------------------------- MODULE MCLog --------------------------------
(* Small instances of the log: two processes, a few blocks. *)
EXTENDS Log, TLC

Symmetry == Permutations(Proc) \cup Permutations(Blocks)
=============================================================================
