----------------------------- MODULE BlockStore -----------------------------
(***************************************************************************)
(* What the buffer cache promises the file system: every disk block is one *)
(* value, held by one process at a time, changed by its holder only.       *)
(* BufCache.tla is shown to implement it.                                  *)
(***************************************************************************)
CONSTANTS Proc, NoProc, Blocks, Vals

VARIABLES val,      \* the contents of each block
          holder    \* the process between bread and brelse of the block

vars == <<val, holder>>

Init == /\ val \in [Blocks -> Vals]
        /\ holder = [k \in Blocks |-> NoProc]

Hold(p, k) == /\ holder[k] = NoProc
              /\ holder' = [holder EXCEPT ![k] = p]
              /\ UNCHANGED val

Change(p, k) == /\ holder[k] = p
                /\ \E v \in Vals : val' = [val EXCEPT ![k] = v]
                /\ UNCHANGED holder

LetGo(p, k) == /\ holder[k] = p
               /\ holder' = [holder EXCEPT ![k] = NoProc]
               /\ UNCHANGED val

Next == \E p \in Proc, k \in Blocks : Hold(p, k) \/ Change(p, k) \/ LetGo(p, k)

Spec == Init /\ [][Next]_vars
=============================================================================
