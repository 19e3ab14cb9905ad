------------------------------- MODULE MCPipe -------------------------------
(* Instances of Pipe for TLC. *)
EXTENDS Pipe, TLC

\* The processes other than the creator are interchangeable.
Symmetry == Permutations(Proc \ {Creator})
=============================================================================
