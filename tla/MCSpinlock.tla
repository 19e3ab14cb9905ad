----------------------------- MODULE MCSpinlock -----------------------------
(* Two CPUs and two nested locks, with room for a handler to be interrupted. *)
EXTENDS Spinlock, TLC

CONSTANTS c1, c2, outer, inner

MCRank == outer :> 1 @@ inner :> 2
MCCPUs == {c1, c2}
MCLocks == {outer, inner}
=============================================================================
