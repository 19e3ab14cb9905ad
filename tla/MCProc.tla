------------------------------- MODULE MCProc -------------------------------
(* Small process tables. *)
EXTENDS Proc, TLC

CONSTANTS c1, c2, ch

OneCPU == {c1}
TwoCPUs == {c1, c2}
OneChan == {ch}
Symmetry == Permutations(CPUs)
=============================================================================
