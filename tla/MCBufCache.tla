----------------------------- MODULE MCBufCache -----------------------------
(* Instances of BufCache for TLC. *)
EXTENDS BufCache, TLC

\* Processes are interchangeable, blocks too; buffers are not (the list orders
\* them).
Symmetry == Permutations(Proc) \cup Permutations(Blocks)
=============================================================================
