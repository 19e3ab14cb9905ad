----------------------------- MODULE AtomicDisk -----------------------------
(***************************************************************************)
(* What the logging layer promises its callers: a disk on which the block  *)
(* writes of a file-system operation, begin_op() to end_op(), reach stable *)
(* storage together or not at all.  A commit makes stable the writes of    *)
(* every operation since the last one and happens only when none is        *)
(* active; a crash throws away what was not committed.                     *)
(***************************************************************************)
CONSTANTS Proc, Blocks, Vals

VARIABLES stable,   \* block contents a crash would leave, after recovery
          view,     \* block contents operations read and write
          inop      \* processes between begin_op and end_op

diskvars == <<stable, view, inop>>

Init ==
  /\ stable \in [Blocks -> Vals]
  /\ view = stable
  /\ inop = {}

Begin(p) ==
  /\ p \notin inop
  /\ inop' = inop \cup {p}
  /\ UNCHANGED <<stable, view>>

Write(p, b, v) ==
  /\ p \in inop
  /\ view' = [view EXCEPT ![b] = v]
  /\ UNCHANGED <<stable, inop>>

End(p) ==
  /\ p \in inop
  /\ inop' = inop \ {p}
  /\ UNCHANGED <<stable, view>>

Commit ==
  /\ inop = {}
  /\ stable' = view
  /\ UNCHANGED <<view, inop>>

Crash ==
  /\ view' = stable
  /\ inop' = {}
  /\ UNCHANGED stable

Next ==
  \/ Commit
  \/ Crash
  \/ \E p \in Proc : Begin(p) \/ End(p)
  \/ \E p \in Proc, b \in Blocks, v \in Vals : Write(p, b, v)

Spec == Init /\ [][Next]_diskvars
=============================================================================
