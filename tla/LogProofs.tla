----------------------------- MODULE LogProofs ------------------------------
(***************************************************************************)
(* Proofs about kernel/log.c for any number of processes and blocks and    *)
(* any sizes: begin_op's reservation keeps every transaction inside the    *)
(* header, logged blocks stay pinned until they are installed, nobody is   *)
(* left asleep in begin_op, and the log implements a disk on which the     *)
(* writes of a transaction happen together or, at a crash, not at all.     *)
(***************************************************************************)
EXTENDS Log, FiniteSetTheorems, TLAPS

\* Zenon is the prover of a leaf that names none; the leaves that need arithmetic or
\* rewriting of functions name SMT.
USE Zenon

-----------------------------------------------------------------------------
(* The inductive invariant *)

\* Places of the process that runs commit().
CommitPCs == {"commit", "write_log", "write_head", "install", "clear", "done",
              "panic: incorrect blockno"}

\* Places outside begin_op ... end_op while the machine is up.
OutsidePCs == {"idle", "sleep", "retry"}

\* From begin_op until the transaction is on the disk.
LoggedPCs == InOpPCs \cup {"commit", "write_log", "write_head",
                           "panic: incorrect blockno"}

InOp == {p \in Proc : pc[p] \in InOpPCs}

\* outstanding counts the operations in progress, committing says that one
\* process commits while there are none, recovery runs alone.
Phases ==
  /\ \A p \in Proc : pc[p] \in InOpPCs \cup CommitPCs \cup OutsidePCs \cup RecoveryPCs
  /\ outstanding = Cardinality(InOp)
  /\ committing <=> \E p \in Proc : pc[p] \in CommitPCs
  /\ \A p, q \in Proc : pc[p] \in CommitPCs /\ pc[q] \in CommitPCs => p = q
  /\ committing => InOp = {}
  /\ \A p, q \in Proc : pc[p] \in RecoveryPCs => pc[q] \in RecoveryPCs

\* The loops over tail stay inside the header and inside the on-disk log.
Loops(p) ==
  /\ pc[p] \in {"write_log", "install", "r_install"} => tail[p] + 1 <= Len(lh)
  /\ pc[p] \in {"write_head", "install", "r_install"} => Len(lh) <= LOGDISK - 1
  /\ pc[p] \in {"write_head", "down"} => tail[p] = 0
  /\ pc[p] = "write_head" => lh # <<>>

\* The blocks that the operations in progress may still add to the header.
Reserved ==
  {s \in InOp \X (1..MAXOPBLOCKS) : s[2] > Cardinality(wrote[s[1]])}

\* What an operation has logged is in the header, and it keeps to its share.
OpInv(p) ==
  /\ IsFiniteSet(wrote[p])
  /\ wrote[p] \subseteq Range(lh)
  /\ Cardinality(wrote[p]) <= MAXOPBLOCKS
  /\ pc[p] \in {"check", "append"} => Cardinality(wrote[p] \cup {buf[p]}) <= MAXOPBLOCKS

\* There is room in the header for all that is reserved.
Space ==
  /\ Len(lh) + Cardinality(Reserved) <= LOGSIZE
  /\ Len(dhead) <= LOGSIZE
  /\ Len(dhead) <= LOGDISK - 1
  /\ \A p \in InOp : OpInv(p)

\* The header lists exactly the pinned buffers until they are installed, and
\* both are empty when nothing is going on.
Pinned ==
  /\ (\E p \in Proc : pc[p] \in LoggedPCs) => Range(lh) = dirty
  /\ \A p \in Proc :
       /\ pc[p] = "install" =>
            \A b \in dirty : \E i \in 1..Len(lh) : i > tail[p] /\ lh[i] = b
       /\ pc[p] \in {"clear", "done"} \cup RecoveryPCs => dirty = {}
       /\ pc[p] = "done" => lh = <<>>
  /\ (\A p \in Proc : pc[p] \in OutsidePCs) => lh = <<>> /\ dirty = {}

LogInv ==
  /\ TypeOK
  /\ Phases
  /\ \A p \in Proc : Loops(p)
  /\ Space
  /\ Pinned
  /\ SleepersHaveAWaker

-----------------------------------------------------------------------------
(* Typing *)

\* The operations in progress are finitely many.
LEMMA InOpFinite == IsFiniteSet(InOp)
BY LogAssumption, FS_Subset DEF InOp

\* Every step of log.c preserves the types; the indices of the copies into and
\* out of the log are those of on-disk log blocks.
LEMMA TypeStep ==
  ASSUME TypeOK, \A p \in Proc : Loops(p), Phases, [Next]_vars
  PROVE  TypeOK'
<1> USE LogAssumption DEF TypeOK, Goto, diskside, bcache, logstate, locals
<1>a. {"op", "check", "append", "idle", "sleep", "retry", "commit", "write_log",
       "write_head", "install", "clear", "done", "down", "r_install", "r_clear",
       "panic: too big a transaction", "panic: outside of trans",
       "panic: log.committing", "panic: incorrect blockno"} \subseteq PCs
  BY DEF PCs, InOpPCs, RecoveryPCs
<1>1. ASSUME NEW p \in Proc, BeginOpSleep(p) PROVE TypeOK'
  BY <1>1, <1>a DEF BeginOpSleep
<1>2. ASSUME NEW p \in Proc, BeginOpEnter(p) PROVE TypeOK'
  <2>1. lh' \in Seq(Blocks) /\ dhead' \in Seq(Blocks)
    BY <1>2 DEF BeginOpEnter
  <2>2. outstanding' \in Nat /\ tail' \in [Proc -> Nat]
    BY <1>2, SMTT(20) DEF BeginOpEnter
  <2>3. /\ disk' \in [Blocks -> Vals]
        /\ dlog' \in [LogSlots -> Vals]
        /\ cache' \in [Blocks -> Vals \cup {NotCached}]
    BY <1>a, <1>2 DEF BeginOpEnter
  <2>4. /\ dirty' \subseteq Blocks
        /\ busy' \subseteq Blocks
        /\ committing' \in BOOLEAN
        /\ pc' \in [Proc -> PCs]
        /\ buf' \in [Proc -> Blocks]
        /\ wrote' \in [Proc -> SUBSET Blocks]
    BY <1>a, <1>2 DEF BeginOpEnter
  <2> QED
    BY <2>1, <2>2, <2>3, <2>4
<1>3. ASSUME NEW p \in Proc, NEW b \in Blocks, NEW v \in Vals, ModifyBuf(p, b, v)
      PROVE TypeOK'
  BY <1>3, <1>a DEF ModifyBuf
<1>4. ASSUME NEW p \in Proc, LogWriteCheck(p) PROVE TypeOK'
  BY <1>4, <1>a DEF LogWriteCheck
<1>5. ASSUME NEW p \in Proc, LogWriteAppend(p) PROVE TypeOK'
  <2>1. lh' \in Seq(Blocks) /\ dhead' \in Seq(Blocks)
    BY <1>5, SMTT(20) DEF LogWriteAppend
  <2>2. outstanding' \in Nat /\ tail' \in [Proc -> Nat]
    BY <1>5 DEF LogWriteAppend
  <2>3. /\ disk' \in [Blocks -> Vals]
        /\ dlog' \in [LogSlots -> Vals]
        /\ cache' \in [Blocks -> Vals \cup {NotCached}]
    BY <1>a, <1>5 DEF LogWriteAppend
  <2>4. /\ dirty' \subseteq Blocks
        /\ busy' \subseteq Blocks
        /\ committing' \in BOOLEAN
        /\ pc' \in [Proc -> PCs]
        /\ buf' \in [Proc -> Blocks]
        /\ wrote' \in [Proc -> SUBSET Blocks]
    BY <1>a, <1>5 DEF LogWriteAppend
  <2> QED
    BY <2>1, <2>2, <2>3, <2>4
<1>6. ASSUME NEW p \in Proc, EndOp(p) PROVE TypeOK'
  <2>1. outstanding' \in Nat
    <3>1. p \in InOp
      BY <1>6 DEF EndOp, InOp, InOpPCs
    <3>2. outstanding # 0
      BY <3>1, InOpFinite, FS_EmptySet DEF Phases
    <3>3. outstanding \in Nat /\ outstanding' = outstanding - 1
      BY <1>a, <1>6 DEF EndOp
    <3> QED
      BY <3>2, <3>3, SMTT(20)
  <2>2. pc' \in [Proc -> PCs] /\ committing' \in BOOLEAN
    <3>1. CASE committing
      BY <1>a, <1>6, <3>1 DEF EndOp
    <3>2. CASE ~committing /\ outstanding = 1
      BY <1>a, <1>6, <3>2 DEF EndOp
    <3>3. CASE ~committing /\ outstanding # 1
      BY <1>a, <1>6, <3>3 DEF EndOp, GotoAndWakeup
    <3> QED
      BY <3>1, <3>2, <3>3
  <2> QED
    BY <1>a, <1>6, <2>1, <2>2 DEF EndOp
<1>7. ASSUME NEW p \in Proc, Commit(p) PROVE TypeOK'
  BY <1>7, <1>a DEF Commit
<1>8. ASSUME NEW p \in Proc, WriteLog(p) PROVE TypeOK'
  <2> tail[p] \in Nat /\ Len(lh) \in Nat
    BY SMTT(20)
  <2> tail[p] + 1 <= Len(lh)
    BY <1>a, <1>8 DEF WriteLog, Loops
  <2> lh[tail[p] + 1] \in Blocks
    BY SMTT(20)
  <2> Bread(lh[tail[p] + 1]) \in Vals
    BY DEF Bread
  <2>1. dlog' \in [LogSlots -> Vals]
    BY <1>8 DEF WriteLog
  <2>2. tail' \in [Proc -> Nat]
    <3>1. \/ tail' = tail
          \/ tail' = [tail EXCEPT ![p] = tail[p] + 1]
          \/ tail' = [tail EXCEPT ![p] = 0]
      BY <1>8 DEF WriteLog, Advance
    <3>2. tail \in [Proc -> Nat] /\ tail[p] + 1 \in Nat /\ 0 \in Nat
      BY SMTT(20)
    <3> QED
      BY ONLY <3>1, <3>2, p \in Proc
  <2>3. pc' \in [Proc -> PCs]
    BY <1>a, <1>8 DEF WriteLog, Advance
  <2> QED
    BY <1>8, <2>1, <2>2, <2>3 DEF WriteLog
<1>9. ASSUME NEW p \in Proc, WriteHead(p) PROVE TypeOK'
  BY <1>9, <1>a DEF WriteHead
<1>10. ASSUME NEW p \in Proc, InstallTrans(p) PROVE TypeOK'
  <2> tail[p] \in Nat /\ Len(lh) \in Nat /\ LOGDISK \in Nat
    BY SMTT(20)
  <2> tail[p] + 1 <= Len(lh) /\ Len(lh) <= LOGDISK - 1
    BY <1>a, <1>10 DEF InstallTrans, InstallBlock, Loops
  <2> lh[tail[p] + 1] \in Blocks
    BY SMTT(20)
  <2> dlog[tail[p] + 1] \in Vals
    BY SMTT(20) DEF LogSlots
  <2>1. lh' \in Seq(Blocks) /\ dhead' \in Seq(Blocks)
    BY <1>10 DEF InstallTrans, InstallBlock, Advance
  <2>2. outstanding' \in Nat /\ tail' \in [Proc -> Nat]
    BY <1>10, SMTT(20) DEF InstallTrans, InstallBlock, Advance
  <2>3. /\ disk' \in [Blocks -> Vals]
        /\ dlog' \in [LogSlots -> Vals]
        /\ cache' \in [Blocks -> Vals \cup {NotCached}]
    BY <1>a, <1>10 DEF InstallTrans, InstallBlock, Advance
  <2>4. /\ dirty' \subseteq Blocks
        /\ busy' \subseteq Blocks
        /\ committing' \in BOOLEAN
        /\ pc' \in [Proc -> PCs]
        /\ buf' \in [Proc -> Blocks]
        /\ wrote' \in [Proc -> SUBSET Blocks]
    BY <1>a, <1>10 DEF InstallTrans, InstallBlock, Advance
  <2> QED
    BY <2>1, <2>2, <2>3, <2>4
<1>11. ASSUME NEW p \in Proc, ClearHead(p) PROVE TypeOK'
  <2>1. lh' \in Seq(Blocks) /\ dhead' \in Seq(Blocks)
    BY <1>11, SMTT(20) DEF ClearHead
  <2>2. outstanding' \in Nat /\ tail' \in [Proc -> Nat]
    BY <1>11 DEF ClearHead
  <2>3. /\ disk' \in [Blocks -> Vals]
        /\ dlog' \in [LogSlots -> Vals]
        /\ cache' \in [Blocks -> Vals \cup {NotCached}]
    BY <1>a, <1>11 DEF ClearHead
  <2>4. /\ dirty' \subseteq Blocks
        /\ busy' \subseteq Blocks
        /\ committing' \in BOOLEAN
        /\ pc' \in [Proc -> PCs]
        /\ buf' \in [Proc -> Blocks]
        /\ wrote' \in [Proc -> SUBSET Blocks]
    BY <1>a, <1>11 DEF ClearHead
  <2> QED
    BY <2>1, <2>2, <2>3, <2>4
<1>12. ASSUME NEW p \in Proc, CommitDone(p) PROVE TypeOK'
  BY <1>a, <1>12 DEF CommitDone, GotoAndWakeup
<1>13. ASSUME NEW p \in Proc, InitLog(p) PROVE TypeOK'
  BY <1>13, <1>a DEF InitLog
<1>14. ASSUME NEW p \in Proc, RecoverInstall(p) PROVE TypeOK'
  <2> tail[p] \in Nat /\ Len(lh) \in Nat /\ LOGDISK \in Nat
    BY SMTT(20)
  <2> tail[p] + 1 <= Len(lh) /\ Len(lh) <= LOGDISK - 1
    BY <1>a, <1>14 DEF RecoverInstall, InstallBlock, Loops
  <2> lh[tail[p] + 1] \in Blocks
    BY SMTT(20)
  <2> dlog[tail[p] + 1] \in Vals
    BY SMTT(20) DEF LogSlots
  <2>1. lh' \in Seq(Blocks) /\ dhead' \in Seq(Blocks)
    BY <1>14 DEF RecoverInstall, InstallBlock, Advance
  <2>2. outstanding' \in Nat /\ tail' \in [Proc -> Nat]
    BY <1>14, SMTT(20) DEF RecoverInstall, InstallBlock, Advance
  <2>3. /\ disk' \in [Blocks -> Vals]
        /\ dlog' \in [LogSlots -> Vals]
        /\ cache' \in [Blocks -> Vals \cup {NotCached}]
    BY <1>a, <1>14 DEF RecoverInstall, InstallBlock, Advance
  <2>4. /\ dirty' \subseteq Blocks
        /\ busy' \subseteq Blocks
        /\ committing' \in BOOLEAN
        /\ pc' \in [Proc -> PCs]
        /\ buf' \in [Proc -> Blocks]
        /\ wrote' \in [Proc -> SUBSET Blocks]
    BY <1>a, <1>14 DEF RecoverInstall, InstallBlock, Advance
  <2> QED
    BY <2>1, <2>2, <2>3, <2>4
<1>15. ASSUME NEW p \in Proc, RecoverClear(p) PROVE TypeOK'
  <2>1. lh' \in Seq(Blocks) /\ dhead' \in Seq(Blocks)
    BY <1>15, SMTT(20) DEF RecoverClear
  <2>2. outstanding' \in Nat /\ tail' \in [Proc -> Nat]
    BY <1>15 DEF RecoverClear
  <2>3. /\ disk' \in [Blocks -> Vals]
        /\ dlog' \in [LogSlots -> Vals]
        /\ cache' \in [Blocks -> Vals \cup {NotCached}]
    BY <1>a, <1>15 DEF RecoverClear
  <2>4. /\ dirty' \subseteq Blocks
        /\ busy' \subseteq Blocks
        /\ committing' \in BOOLEAN
        /\ pc' \in [Proc -> PCs]
        /\ buf' \in [Proc -> Blocks]
        /\ wrote' \in [Proc -> SUBSET Blocks]
    BY <1>a, <1>15 DEF RecoverClear
  <2> QED
    BY <2>1, <2>2, <2>3, <2>4
<1>16. ASSUME NEW b \in Blocks, Evict(b) PROVE TypeOK'
  BY <1>16, <1>a DEF Evict
<1>17. ASSUME Crash PROVE TypeOK'
  <2>1. lh' \in Seq(Blocks) /\ dhead' \in Seq(Blocks)
    BY <1>17, SMTT(20) DEF Crash
  <2>2. outstanding' \in Nat /\ tail' \in [Proc -> Nat]
    BY <1>17 DEF Crash
  <2>3. /\ disk' \in [Blocks -> Vals]
        /\ dlog' \in [LogSlots -> Vals]
        /\ cache' \in [Blocks -> Vals \cup {NotCached}]
    BY <1>a, <1>17 DEF Crash
  <2>4. /\ dirty' \subseteq Blocks
        /\ busy' \subseteq Blocks
        /\ committing' \in BOOLEAN
        /\ pc' \in [Proc -> PCs]
        /\ buf' \in [Proc -> Blocks]
        /\ wrote' \in [Proc -> SUBSET Blocks]
    BY <1>a, <1>17 DEF Crash
  <2> QED
    BY <2>1, <2>2, <2>3, <2>4
<1>18. ASSUME UNCHANGED vars PROVE TypeOK'
  BY <1>18 DEF vars
<1> QED
  BY <1>1, <1>2, <1>3, <1>4, <1>5, <1>6, <1>7, <1>8, <1>9, <1>10,
     <1>11, <1>12, <1>13, <1>14, <1>15, <1>16, <1>17, <1>18 DEF Next

-----------------------------------------------------------------------------
(* Who is where *)

\* outstanding is zero exactly when no operation is in progress.
LEMMA NoneOutstanding ==
  ASSUME Phases
  PROVE  outstanding = 0 <=> InOp = {}
BY InOpFinite, FS_EmptySet DEF Phases

\* A process is in exactly one of an operation, a commit, recovery, or none.
LEMMA KindsDisjoint ==
  /\ InOpPCs \cap CommitPCs = {} /\ InOpPCs \cap OutsidePCs = {}
  /\ InOpPCs \cap RecoveryPCs = {} /\ CommitPCs \cap OutsidePCs = {}
  /\ CommitPCs \cap RecoveryPCs = {} /\ OutsidePCs \cap RecoveryPCs = {}
BY DEF InOpPCs, CommitPCs, OutsidePCs, RecoveryPCs

\* Process q stays in an operation, in a commit, in recovery or outside.
SameKind(q) ==
  /\ pc'[q] \in InOpPCs <=> pc[q] \in InOpPCs
  /\ pc'[q] \in CommitPCs <=> pc[q] \in CommitPCs
  /\ pc'[q] \in OutsidePCs <=> pc[q] \in OutsidePCs
  /\ pc'[q] \in RecoveryPCs <=> pc[q] \in RecoveryPCs

\* A step in which nobody changes kind preserves the counting.
LEMMA KindsKept ==
  ASSUME Phases, \A q \in Proc : SameKind(q), UNCHANGED <<outstanding, committing>>
  PROVE  Phases' /\ InOp' = InOp
<1>1. InOp' = InOp
  BY DEF InOp, SameKind
<1>2. \A q \in Proc : pc'[q] \in InOpPCs \cup CommitPCs \cup OutsidePCs \cup RecoveryPCs
  BY DEF Phases, SameKind
<1>3. /\ committing' <=> \E p \in Proc : pc'[p] \in CommitPCs
      /\ \A p, q \in Proc : pc'[p] \in CommitPCs /\ pc'[q] \in CommitPCs => p = q
      /\ \A p, q \in Proc : pc'[p] \in RecoveryPCs => pc'[q] \in RecoveryPCs
  BY DEF Phases, SameKind
<1> QED
  BY <1>1, <1>2, <1>3 DEF Phases

\* A step of one process that stays inside its kind preserves the counting.
LEMMA MoveInKind ==
  ASSUME TypeOK, Phases, NEW p \in Proc, NEW w, Goto(p, w),
         UNCHANGED <<outstanding, committing>>,
         \/ pc[p] \in InOpPCs /\ w \in InOpPCs
         \/ pc[p] \in CommitPCs /\ w \in CommitPCs
         \/ pc[p] \in OutsidePCs /\ w \in OutsidePCs
         \/ pc[p] \in RecoveryPCs /\ w \in RecoveryPCs
  PROVE  Phases' /\ InOp' = InOp
<1>1. \A q \in Proc : SameKind(q)
  BY KindsDisjoint DEF TypeOK, Goto, SameKind
<1> QED
  BY <1>1, KindsKept

\* The counting of begin_op and end_op, and the exclusion of operations, commit
\* and recovery, survive every step; two of the panics are not reached.
LEMMA PhasesStep ==
  ASSUME TypeOK, Phases, [Next]_vars
  PROVE  Phases'
<1> USE DEF diskside, bcache, logstate, locals
<1>1. ASSUME NEW p \in Proc, BeginOpSleep(p) PROVE Phases'
  BY <1>1, MoveInKind DEF BeginOpSleep, OutsidePCs
<1>2. ASSUME NEW p \in Proc, BeginOpEnter(p) PROVE Phases'
  <2>1. pc[p] \in OutsidePCs /\ "op" \in InOpPCs
    BY <1>2 DEF BeginOpEnter, OutsidePCs, InOpPCs
  <2>2. InOp' = InOp \cup {p} /\ p \notin InOp
    BY <1>2, <2>1, KindsDisjoint DEF BeginOpEnter, Goto, TypeOK, InOp
  <2>3. outstanding' = Cardinality(InOp')
    BY <1>2, <2>2, InOpFinite, FS_AddElement DEF BeginOpEnter, Phases
  <2>4. ~committing
    BY <1>2 DEF BeginOpEnter, MustWait
  <2> QED
    BY <1>2, <2>1, <2>3, <2>4, KindsDisjoint DEF BeginOpEnter, Goto, TypeOK, Phases
<1>3. ASSUME NEW p \in Proc, NEW b \in Blocks, NEW v \in Vals, ModifyBuf(p, b, v)
      PROVE Phases'
  BY <1>3, MoveInKind DEF ModifyBuf, InOpPCs
<1>4. ASSUME NEW p \in Proc, LogWriteCheck(p) PROVE Phases'
  <2>1. outstanding >= 1
    <3>1. p \in InOp
      BY <1>4 DEF LogWriteCheck, InOp, InOpPCs
    <3>2. outstanding # 0 /\ outstanding \in Nat
      BY <3>1, NoneOutstanding DEF TypeOK
    <3> QED
      BY <3>2, SMTT(20)
  <2>2. PICK w \in {"panic: too big a transaction", "append"} : Goto(p, w)
    <3>1. ~(outstanding < 1)
      BY <2>1, SMTT(20) DEF TypeOK
    <3>2. CASE Len(lh) >= LOGSIZE \/ Len(lh) >= LOGDISK - 1
      BY <1>4, <3>2 DEF LogWriteCheck
    <3>3. CASE ~(Len(lh) >= LOGSIZE \/ Len(lh) >= LOGDISK - 1)
      BY <1>4, <3>1, <3>3 DEF LogWriteCheck
    <3> QED
      BY <3>2, <3>3
  <2> QED
    BY <1>4, <2>2, MoveInKind DEF LogWriteCheck, InOpPCs
<1>5. ASSUME NEW p \in Proc, LogWriteAppend(p) PROVE Phases'
  BY <1>5, MoveInKind DEF LogWriteAppend, InOpPCs
<1>6. ASSUME NEW p \in Proc, EndOp(p) PROVE Phases'
  <2>1. pc[p] \in InOpPCs /\ p \in InOp
    BY <1>6 DEF EndOp, InOp, InOpPCs
  <2>2. ~committing
    BY <2>1 DEF Phases
  <2>3. outstanding \in Nat /\ outstanding' = outstanding - 1
    BY <1>6 DEF EndOp, TypeOK
  <2>4. /\ "commit" \in CommitPCs
        /\ {"idle", "sleep", "retry"} = OutsidePCs
    BY DEF CommitPCs, OutsidePCs
  <2>5. InOp' = InOp \ {p}
    <3>1. pc'[p] \notin InOpPCs
      BY <1>6, <2>2, <2>4, KindsDisjoint DEF EndOp, GotoAndWakeup, Goto, TypeOK
    <3>2. \A q \in Proc \ {p} : pc'[q] \in InOpPCs <=> pc[q] \in InOpPCs
      BY <1>6, <2>2, <2>4, KindsDisjoint DEF EndOp, GotoAndWakeup, Goto, TypeOK
    <3> QED
      BY <3>1, <3>2 DEF InOp
  <2>6. outstanding' = Cardinality(InOp')
    BY <2>1, <2>3, <2>5, InOpFinite, FS_RemoveElement DEF Phases
  <2>7. CASE outstanding = 1
    <3>1. InOp' = {}
      <4>1. outstanding' = 0
        BY <2>3, <2>7, SMTT(20)
      <4>2. IsFiniteSet(InOp')
        BY <2>5, InOpFinite, FS_RemoveElement
      <4> QED
        BY <2>6, <4>1, <4>2, FS_EmptySet
    <3>2. committing' = TRUE /\ pc' = [pc EXCEPT ![p] = "commit"]
      BY <1>6, <2>2, <2>7 DEF EndOp, Goto
    <3> QED
      BY <2>1, <2>2, <2>4, <2>6, <3>1, <3>2, KindsDisjoint, ZenonT(30) DEF TypeOK, Phases
  <2>8. CASE outstanding # 1
    <3>1. committing' = committing /\ GotoAndWakeup(p, "idle")
      BY <1>6, <2>2, <2>8 DEF EndOp
    <3>2. pc'[p] \in OutsidePCs /\ \A q \in Proc \ {p} : SameKind(q)
      BY <2>4, <3>1, KindsDisjoint DEF GotoAndWakeup, SameKind, TypeOK
    <3> QED
      BY <2>1, <2>2, <2>6, <3>1, <3>2, KindsDisjoint DEF Phases, SameKind
  <2> QED
    BY <2>7, <2>8
<1>7. ASSUME NEW p \in Proc, Commit(p) PROVE Phases'
  <2>1. PICK w \in {"done", "write_log"} : Goto(p, w)
    BY <1>7 DEF Commit
  <2> QED
    BY <1>7, <2>1, MoveInKind DEF Commit, CommitPCs
<1>8. ASSUME NEW p \in Proc, WriteLog(p) PROVE Phases'
  <2>1. PICK w \in {"write_log", "write_head", "panic: incorrect blockno"} : Goto(p, w)
    BY <1>8 DEF WriteLog, Advance
  <2> QED
    BY <1>8, <2>1, MoveInKind DEF WriteLog, CommitPCs
<1>9. ASSUME NEW p \in Proc, WriteHead(p) PROVE Phases'
  BY <1>9, MoveInKind DEF WriteHead, CommitPCs
<1>10. ASSUME NEW p \in Proc, InstallTrans(p) PROVE Phases'
  <2>1. PICK w \in {"install", "clear"} : Goto(p, w)
    BY <1>10 DEF InstallTrans, InstallBlock, Advance
  <2> QED
    BY <1>10, <2>1, MoveInKind DEF InstallTrans, InstallBlock, CommitPCs
<1>11. ASSUME NEW p \in Proc, ClearHead(p) PROVE Phases'
  BY <1>11, MoveInKind DEF ClearHead, CommitPCs
<1>12. ASSUME NEW p \in Proc, CommitDone(p) PROVE Phases'
  <2>1. pc[p] \in CommitPCs /\ {"idle", "sleep", "retry"} = OutsidePCs
    BY <1>12 DEF CommitDone, CommitPCs, OutsidePCs
  <2>2. pc'[p] \in OutsidePCs /\ \A q \in Proc \ {p} : SameKind(q)
    BY <1>12, <2>1, KindsDisjoint DEF CommitDone, GotoAndWakeup, SameKind, TypeOK
  <2>3. InOp' = InOp
    BY <2>1, <2>2, KindsDisjoint DEF InOp, SameKind
  <2>4. outstanding' = outstanding /\ committing' = FALSE
    BY <1>12 DEF CommitDone
  <2> QED
    BY <2>1, <2>2, <2>3, <2>4, KindsDisjoint DEF Phases, SameKind
<1>13. ASSUME NEW p \in Proc, InitLog(p) PROVE Phases'
  <2>1. PICK w \in {"r_install", "r_clear"} : Goto(p, w)
    BY <1>13 DEF InitLog
  <2> QED
    BY <1>13, <2>1, MoveInKind DEF InitLog, RecoveryPCs
<1>14. ASSUME NEW p \in Proc, RecoverInstall(p) PROVE Phases'
  <2>1. PICK w \in {"r_install", "r_clear"} : Goto(p, w)
    BY <1>14 DEF RecoverInstall, InstallBlock, Advance
  <2> QED
    BY <1>14, <2>1, MoveInKind DEF RecoverInstall, InstallBlock, RecoveryPCs
<1>15. ASSUME NEW p \in Proc, RecoverClear(p) PROVE Phases'
  <2>1. \A q \in Proc : pc[q] \in RecoveryPCs
    BY <1>15 DEF RecoverClear, RecoveryPCs, Phases
  <2>2. \A q \in Proc : pc'[q] \in OutsidePCs
    BY <1>15 DEF RecoverClear, OutsidePCs
  <2>3. InOp = {} /\ InOp' = {}
    BY <2>1, <2>2, KindsDisjoint DEF InOp
  <2>4. committing' = committing /\ outstanding' = Cardinality(InOp')
    BY <1>15, <2>3 DEF RecoverClear, Phases
  <2> QED
    BY <1>15, <2>1, <2>2, <2>3, <2>4, KindsDisjoint DEF Phases
<1>16. ASSUME NEW b \in Blocks, Evict(b) PROVE Phases'
  BY <1>16, KindsKept DEF Evict, SameKind
<1>17. ASSUME Crash PROVE Phases'
  <2>1. \A q \in Proc : pc'[q] \in RecoveryPCs
    BY <1>17 DEF Crash, RecoveryPCs
  <2>2. InOp' = {}
    BY <2>1, KindsDisjoint DEF InOp
  <2>3. outstanding' = Cardinality(InOp')
    BY <1>17, <2>2, FS_EmptySet DEF Crash
  <2> QED
    BY <1>17, <2>1, <2>2, <2>3, KindsDisjoint DEF Crash, Phases
<1>18. ASSUME UNCHANGED vars PROVE Phases'
  BY <1>18, KindsKept DEF vars, SameKind
<1> QED
  BY <1>1, <1>2, <1>3, <1>4, <1>5, <1>6, <1>7, <1>8, <1>9, <1>10,
     <1>11, <1>12, <1>13, <1>14, <1>15, <1>16, <1>17, <1>18 DEF Next

-----------------------------------------------------------------------------
(* The loops of commit and recovery *)

\* Nothing is asked of tail inside and outside of operations.
LEMMA LoopsQuiet ==
  ASSUME NEW q \in Proc, pc'[q] \in InOpPCs \cup OutsidePCs
  PROVE  Loops(q)'
<1>1. pc'[q] \notin {"write_log", "install", "r_install", "write_head", "down"}
  BY DEF InOpPCs, OutsidePCs
<1> QED
  BY <1>1 DEF Loops

\* A step of p that leaves the header alone does not disturb the others' loops.
LEMMA LoopsOthers ==
  ASSUME TypeOK, \A q \in Proc : Loops(q), NEW p \in Proc, NEW w, NEW t,
         pc' = [pc EXCEPT ![p] = w], tail' = tail \/ tail' = [tail EXCEPT ![p] = t],
         lh' = lh
  PROVE  \A q \in Proc \ {p} : Loops(q)'
<1>1. \A q \in Proc \ {p} : pc'[q] = pc[q] /\ tail'[q] = tail[q]
  BY DEF TypeOK
<1> QED
  BY <1>1 DEF Loops

\* A step into begin_op, or inside an operation, that leaves header and tail alone.
LEMMA LoopsElsewhere ==
  ASSUME TypeOK, \A q \in Proc : Loops(q), NEW p \in Proc,
         NEW w \in {"sleep", "op", "check", "append", "panic: too big a transaction",
                    "panic: outside of trans"},
         pc' = [pc EXCEPT ![p] = w], tail' = tail, lh' = lh
  PROVE  \A q \in Proc : Loops(q)'
<1>1. \A q \in Proc \ {p} : Loops(q)'
  BY LoopsOthers
<1>2. pc'[p] = w
  BY DEF TypeOK
<1>3. Loops(p)'
  BY <1>2 DEF Loops
<1> QED
  BY <1>1, <1>3

\* The indices of write_log and install_trans stay inside the header and the
\* on-disk log.
LEMMA LoopsStep ==
  ASSUME TypeOK, Phases, Space, \A q \in Proc : Loops(q), [Next]_vars
  PROVE  \A q \in Proc : Loops(q)'
<1> USE DEF diskside, bcache, logstate, locals
<1>1. ASSUME NEW p \in Proc, BeginOpSleep(p) PROVE \A q \in Proc : Loops(q)'
  BY <1>1, LoopsElsewhere DEF BeginOpSleep, Goto
<1>2. ASSUME NEW p \in Proc, BeginOpEnter(p) PROVE \A q \in Proc : Loops(q)'
  BY <1>2, LoopsElsewhere DEF BeginOpEnter, Goto
<1>3. ASSUME NEW p \in Proc, NEW b \in Blocks, NEW v \in Vals, ModifyBuf(p, b, v)
      PROVE \A q \in Proc : Loops(q)'
  BY <1>3, LoopsElsewhere DEF ModifyBuf, Goto
<1>4. ASSUME NEW p \in Proc, LogWriteCheck(p) PROVE \A q \in Proc : Loops(q)'
  <2>1. pc'[p] \in {"panic: too big a transaction", "panic: outside of trans", "append"}
    BY <1>4 DEF LogWriteCheck, Goto, TypeOK
  <2> QED
    BY <1>4, <2>1, LoopsElsewhere DEF LogWriteCheck, Goto
<1>5. ASSUME NEW p \in Proc, LogWriteAppend(p) PROVE \A q \in Proc : Loops(q)'
  <2>1. pc[p] \in InOpPCs /\ p \in InOp
    BY <1>5 DEF LogWriteAppend, InOpPCs, InOp
  <2>2. \A q \in Proc : pc[q] \in InOpPCs \cup OutsidePCs
    BY <2>1, KindsDisjoint DEF Phases
  <2>3. \A q \in Proc : pc'[q] \in InOpPCs \cup OutsidePCs
    BY <1>5, <2>2 DEF LogWriteAppend, Goto, TypeOK, InOpPCs
  <2> QED
    BY <2>3, LoopsQuiet
<1>6. ASSUME NEW p \in Proc, EndOp(p) PROVE \A q \in Proc : Loops(q)'
  <2>1. pc'[p] \in {"panic: log.committing", "commit", "idle"}
    BY <1>6 DEF EndOp, Goto, GotoAndWakeup, TypeOK
  <2>2. \A q \in Proc \ {p} : pc'[q] = pc[q] \/ pc'[q] = "retry"
    BY <1>6 DEF EndOp, Goto, GotoAndWakeup, TypeOK
  <2>3. UNCHANGED <<lh, tail>>
    BY <1>6 DEF EndOp
  <2> QED
    BY <2>1, <2>2, <2>3 DEF Loops
<1>7. ASSUME NEW p \in Proc, Commit(p) PROVE \A q \in Proc : Loops(q)'
  <2>1. \A q \in Proc \ {p} : Loops(q)'
    BY <1>7 DEF Commit, Goto, TypeOK, Loops
  <2>2. lh' = lh /\ tail'[p] = 0
    BY <1>7 DEF Commit, TypeOK
  <2>3. lh # <<>> => Len(lh) >= 1
    BY SMTT(20) DEF TypeOK
  <2>4. pc'[p] = IF lh = <<>> THEN "done" ELSE "write_log"
    BY <1>7 DEF Commit, Goto, TypeOK
  <2> QED
    BY <2>1, <2>2, <2>3, <2>4, SMTT(20) DEF Loops
<1>8. ASSUME NEW p \in Proc, WriteLog(p) PROVE \A q \in Proc : Loops(q)'
  <2>1. \A q \in Proc \ {p} : Loops(q)'
    BY <1>8, LoopsOthers DEF WriteLog, Advance, Goto
  <2>2. lh' = lh /\ Len(lh) \in Nat /\ tail[p] \in Nat /\ LOGDISK \in Nat
    <3>1. lh' = lh
      BY <1>8 DEF WriteLog
    <3>2. Len(lh) \in Nat /\ tail[p] \in Nat
      BY SMTT(20) DEF TypeOK
    <3> QED
      BY <3>1, <3>2, LogAssumption
  <2>3. tail[p] + 1 <= Len(lh)
    BY <1>8 DEF WriteLog, Loops
  <2>4. CASE tail[p] + 1 \notin LogSlots
    <3>1. pc'[p] = "panic: incorrect blockno"
      BY <1>8, <2>4 DEF WriteLog, Goto, TypeOK
    <3> QED
      BY <2>1, <3>1 DEF Loops
  <2>5. CASE tail[p] + 1 \in LogSlots /\ tail[p] + 1 < Len(lh)
    <3>1. pc'[p] = "write_log" /\ tail'[p] = tail[p] + 1
      BY <1>8, <2>5 DEF WriteLog, Advance, Goto, TypeOK
    <3>2. tail'[p] + 1 <= Len(lh')
      BY <2>2, <2>5, <3>1, SMTT(20)
    <3> QED
      BY <2>1, <3>1, <3>2 DEF Loops
  <2>6. CASE tail[p] + 1 \in LogSlots /\ ~(tail[p] + 1 < Len(lh))
    <3>1. pc'[p] = "write_head" /\ tail'[p] = 0
      BY <1>8, <2>6 DEF WriteLog, Advance, Goto, TypeOK
    <3>2. Len(lh) <= LOGDISK - 1
      BY <2>2, <2>3, <2>6, SMTT(20) DEF LogSlots
    <3>3. lh # <<>>
      BY <2>2, <2>3, SMTT(20)
    <3> QED
      BY <2>1, <2>2, <3>1, <3>2, <3>3 DEF Loops
  <2> QED
    BY <2>4, <2>5, <2>6
<1>9. ASSUME NEW p \in Proc, WriteHead(p) PROVE \A q \in Proc : Loops(q)'
  <2>1. \A q \in Proc \ {p} : Loops(q)'
    BY <1>9, LoopsOthers DEF WriteHead, Goto
  <2>2. pc'[p] = "install" /\ tail' = tail /\ lh' = lh
    BY <1>9 DEF WriteHead, Goto, TypeOK
  <2>3. tail[p] = 0 /\ lh # <<>> /\ Len(lh) <= LOGDISK - 1
    BY <1>9 DEF WriteHead, Loops
  <2>4. tail[p] + 1 <= Len(lh)
    BY <2>3, SMTT(20) DEF TypeOK
  <2> QED
    BY <2>1, <2>2, <2>3, <2>4 DEF Loops
<1>10. ASSUME NEW p \in Proc, InstallTrans(p) PROVE \A q \in Proc : Loops(q)'
  <2>1. \A q \in Proc \ {p} : Loops(q)'
    BY <1>10, LoopsOthers DEF InstallTrans, InstallBlock, Advance, Goto
  <2>2. lh' = lh /\ Len(lh) \in Nat /\ tail[p] \in Nat
    BY <1>10, SMTT(20) DEF InstallTrans, InstallBlock, TypeOK
  <2>3. Len(lh) <= LOGDISK - 1
    BY <1>10 DEF InstallTrans, InstallBlock, Loops
  <2>4. CASE tail[p] + 1 < Len(lh)
    <3>1. pc'[p] = "install" /\ tail'[p] = tail[p] + 1
      BY <1>10, <2>4 DEF InstallTrans, InstallBlock, Advance, Goto, TypeOK
    <3>2. tail'[p] + 1 <= Len(lh')
      BY <2>2, <2>4, <3>1, SMTT(20)
    <3> QED
      BY <2>1, <2>2, <2>3, <3>1, <3>2 DEF Loops
  <2>5. CASE ~(tail[p] + 1 < Len(lh))
    <3>1. pc'[p] = "clear"
      BY <1>10, <2>5 DEF InstallTrans, InstallBlock, Advance, Goto, TypeOK
    <3> QED
      BY <2>1, <3>1 DEF Loops
  <2> QED
    BY <2>4, <2>5
<1>11. ASSUME NEW p \in Proc, ClearHead(p) PROVE \A q \in Proc : Loops(q)'
  <2>1. pc[p] \in CommitPCs
    BY <1>11 DEF ClearHead, CommitPCs
  <2>2. \A q \in Proc \ {p} : pc'[q] \in InOpPCs \cup OutsidePCs
    BY <1>11, <2>1, KindsDisjoint, SMTT(20) DEF Phases, ClearHead, Goto
  <2>3. \A q \in Proc \ {p} : Loops(q)'
    BY <2>2, LoopsQuiet
  <2>4. pc'[p] = "done"
    BY <1>11 DEF ClearHead, Goto, TypeOK
  <2> QED
    BY <2>3, <2>4 DEF Loops
<1>12. ASSUME NEW p \in Proc, CommitDone(p) PROVE \A q \in Proc : Loops(q)'
  <2>1. UNCHANGED <<lh, tail>>
    BY <1>12 DEF CommitDone
  <2>2. \A q \in Proc : pc'[q] = pc[q] \/ pc'[q] \in {"retry", "idle"}
    BY <1>12 DEF CommitDone, GotoAndWakeup, TypeOK
  <2> QED
    BY <2>1, <2>2 DEF Loops
<1>13. ASSUME NEW p \in Proc, InitLog(p) PROVE \A q \in Proc : Loops(q)'
  <2>1. lh' = dhead /\ tail' = tail
    BY <1>13 DEF InitLog
  <2>2. \A q \in Proc : pc[q] = "down" /\ tail[q] = 0
    BY <1>13 DEF InitLog, Loops
  <2>3. \A q \in Proc \ {p} : pc'[q] = "down"
    BY <1>13, <2>2 DEF InitLog, Goto, TypeOK
  <2>4. pc'[p] = IF dhead = <<>> THEN "r_clear" ELSE "r_install"
    BY <1>13 DEF InitLog, Goto, TypeOK
  <2>5. Len(dhead) <= LOGDISK - 1
    BY DEF Space
  <2>6. dhead # <<>> => Len(dhead) >= 1
    BY SMTT(20) DEF TypeOK
  <2> QED
    BY <2>1, <2>2, <2>3, <2>4, <2>5, <2>6, SMTT(20) DEF Loops
<1>14. ASSUME NEW p \in Proc, RecoverInstall(p) PROVE \A q \in Proc : Loops(q)'
  <2>1. \A q \in Proc \ {p} : Loops(q)'
    BY <1>14, LoopsOthers DEF RecoverInstall, InstallBlock, Advance, Goto
  <2>2. lh' = lh /\ Len(lh) \in Nat /\ tail[p] \in Nat
    BY <1>14, SMTT(20) DEF RecoverInstall, InstallBlock, TypeOK
  <2>3. Len(lh) <= LOGDISK - 1
    BY <1>14 DEF RecoverInstall, InstallBlock, Loops
  <2>4. CASE tail[p] + 1 < Len(lh)
    <3>1. pc'[p] = "r_install" /\ tail'[p] = tail[p] + 1
      BY <1>14, <2>4 DEF RecoverInstall, InstallBlock, Advance, Goto, TypeOK
    <3>2. tail'[p] + 1 <= Len(lh')
      BY <2>2, <2>4, <3>1, SMTT(20)
    <3> QED
      BY <2>1, <2>2, <2>3, <3>1, <3>2 DEF Loops
  <2>5. CASE ~(tail[p] + 1 < Len(lh))
    <3>1. pc'[p] = "r_clear"
      BY <1>14, <2>5 DEF RecoverInstall, InstallBlock, Advance, Goto, TypeOK
    <3> QED
      BY <2>1, <3>1 DEF Loops
  <2> QED
    BY <2>4, <2>5
<1>15. ASSUME NEW p \in Proc, RecoverClear(p) PROVE \A q \in Proc : Loops(q)'
  <2>1. \A q \in Proc : pc'[q] = "idle"
    BY <1>15 DEF RecoverClear
  <2> QED
    BY <2>1 DEF Loops
<1>16. ASSUME NEW b \in Blocks, Evict(b) PROVE \A q \in Proc : Loops(q)'
  BY <1>16 DEF Evict, Loops
<1>17. ASSUME Crash PROVE \A q \in Proc : Loops(q)'
  <2>1. \A q \in Proc : pc'[q] = "down" /\ tail'[q] = 0
    BY <1>17 DEF Crash
  <2> QED
    BY <2>1 DEF Loops
<1>18. ASSUME UNCHANGED vars PROVE \A q \in Proc : Loops(q)'
  BY <1>18 DEF vars, Loops
<1> QED
  BY <1>1, <1>2, <1>3, <1>4, <1>5, <1>6, <1>7, <1>8, <1>9, <1>10,
     <1>11, <1>12, <1>13, <1>14, <1>15, <1>16, <1>17, <1>18 DEF Next

-----------------------------------------------------------------------------
(* The reservation *)

\* Only finitely many blocks are reserved.
LEMMA ReservedFinite == IsFiniteSet(Reserved)
<1>1. IsFiniteSet(1..MAXOPBLOCKS)
  BY LogAssumption, FS_Interval, SMTT(20)
<1>2. IsFiniteSet(InOp \X (1..MAXOPBLOCKS))
  BY <1>1, InOpFinite, FS_Product
<1> QED
  BY <1>2, FS_Subset DEF Reserved

\* The header has at most LOGSIZE entries.
LEMMA SpaceBounds ==
  ASSUME TypeOK, Space
  PROVE  Len(lh) <= LOGSIZE
<1>1. Cardinality(Reserved) \in Nat
  BY ReservedFinite, FS_CardinalityType
<1>2. Len(lh) \in Nat /\ LOGSIZE \in Nat
  BY LogAssumption, SMTT(20) DEF TypeOK
<1> QED
  BY <1>1, <1>2, SMTT(20) DEF Space

\* A step that reserves nothing new and logs nothing new leaves enough room.
LEMMA ReservedShrinks ==
  ASSUME TypeOK, Space, Reserved' \subseteq Reserved, lh' = lh
  PROVE  Len(lh') + Cardinality(Reserved') <= LOGSIZE
<1>1. Cardinality(Reserved) \in Nat /\ IsFiniteSet(Reserved)
  BY ReservedFinite, FS_CardinalityType
<1>2. Cardinality(Reserved') <= Cardinality(Reserved) /\ Cardinality(Reserved') \in Nat
  BY <1>1, FS_Subset, FS_CardinalityType
<1>3. Len(lh) \in Nat /\ LOGSIZE \in Nat
  BY LogAssumption, SMTT(20) DEF TypeOK
<1> QED
  BY <1>1, <1>2, <1>3, SMTT(20) DEF Space

\* A step that starts no operation and leaves the header, its copy on the disk
\* and the operations' blocks alone.
LEMMA SpaceQuiet ==
  ASSUME TypeOK, Space, UNCHANGED <<lh, dhead, wrote, buf>>,
         \A q \in InOp' : /\ q \in InOp
                          /\ pc'[q] = pc[q] \/ pc[q] = "check"
  PROVE  Space'
<1>1. Reserved' \subseteq Reserved
  BY DEF Reserved
<1>2. Len(lh') + Cardinality(Reserved') <= LOGSIZE
  BY <1>1, ReservedShrinks
<1>3. \A q \in InOp' : OpInv(q)'
  BY DEF Space, OpInv
<1> QED
  BY <1>2, <1>3 DEF Space

\* A step of a process that is in no operation and starts none.
LEMMA SpaceMove ==
  ASSUME TypeOK, Space, UNCHANGED <<lh, dhead, wrote, buf>>,
         NEW p \in Proc, NEW w, Goto(p, w), w \notin InOpPCs
  PROVE  Space'
<1>1. \A q \in InOp' : q \in InOp /\ pc'[q] = pc[q]
  BY DEF Goto, TypeOK, InOp
<1> QED
  BY <1>1, SpaceQuiet

\* Without operations there is room for any header of at most LOGSIZE entries.
LEMMA SpaceNoOps ==
  ASSUME TypeOK, Space, InOp' = {}, lh' \in {<<>>, dhead}, dhead' \in {<<>>, dhead}
  PROVE  Space'
<1>1. Reserved' = {}
  BY DEF Reserved
<1>2. Cardinality(Reserved') = 0
  BY <1>1, FS_EmptySet
<1>3. /\ LOGSIZE \in Nat /\ LOGDISK \in Nat \ {0} /\ Len(dhead) \in Nat
      /\ Len(dhead) <= LOGSIZE /\ Len(dhead) <= LOGDISK - 1
      /\ Len(<<>>) = 0
  BY LogAssumption, SMTT(20) DEF TypeOK, Space
<1>4. /\ Len(lh') \in Nat /\ Len(lh') <= LOGSIZE
      /\ Len(dhead') <= LOGSIZE /\ Len(dhead') <= LOGDISK - 1
  BY <1>3, SMTT(20)
<1>5. Len(lh') + Cardinality(Reserved') <= LOGSIZE
  BY <1>2, <1>3, <1>4, SMTT(20)
<1> QED
  BY <1>4, <1>5 DEF Space

\* log_write's loop and append: the block is in the header afterwards, and
\* nothing else is new.
LEMMA RangeLogged ==
  ASSUME NEW s \in Seq(Blocks), NEW b \in Blocks
  PROVE  Range(IF b \in Range(s) THEN s ELSE Append(s, b)) = Range(s) \cup {b}
<1>1. CASE b \in Range(s)
  BY <1>1 DEF Range
<1>2. CASE b \notin Range(s)
  <2> DEFINE t == Append(s, b)
  <2>1. t \in Seq(Blocks) /\ Len(s) \in Nat /\ Len(t) = Len(s) + 1
    BY SMTT(20)
  <2>2. DOMAIN t = 1..(Len(s) + 1) /\ DOMAIN s = 1..Len(s)
    BY <2>1, SMTT(20)
  <2>3. t[Len(s) + 1] = b /\ \A i \in 1..Len(s) : t[i] = s[i]
    BY SMTT(20)
  <2>4. Range(t) = Range(s) \cup {b}
    BY <2>1, <2>2, <2>3, SMTT(20) DEF Range
  <2> QED
    BY <1>2, <2>4
<1> QED
  BY <1>1, <1>2

\* A count that is not exhausted.
LEMMA OneMoreFits ==
  ASSUME NEW n \in Nat, NEW M \in Nat, NEW m \in Nat, m = n + 1, m <= M
  PROVE  n + 1 \in 1..M
BY SMTT(20)

\* Adding a block to a finite set counts it unless it was there.
LEMMA OneMore ==
  ASSUME NEW W, NEW b, IsFiniteSet(W)
  PROVE  /\ IsFiniteSet(W \cup {b})
         /\ Cardinality(W) \in Nat /\ Cardinality(W \cup {b}) \in Nat
         /\ Cardinality(W \cup {b}) >= Cardinality(W)
         /\ b \notin W => Cardinality(W \cup {b}) = Cardinality(W) + 1
<1>1. Cardinality(W) \in Nat
  BY FS_CardinalityType
<1>2. IsFiniteSet(W \cup {b})
  BY FS_AddElement
<1>3. CASE b \in W
  <2>1. W \cup {b} = W
    BY <1>3
  <2>2. Cardinality(W \cup {b}) = Cardinality(W)
    BY ONLY <2>1, Zenon
  <2> QED BY ONLY <1>1, <1>2, <1>3, <2>2
<1>4. CASE b \notin W
  <2>1. Cardinality(W \cup {b}) = Cardinality(W) + 1
    BY <1>4, FS_AddElement
  <2> QED BY <1>1, <1>2, <2>1, SMTT(20)
<1> QED
  BY <1>3, <1>4

\* begin_op admits an operation only if the header has room for all it may log,
\* and every log_write uses up what was reserved for it.
LEMMA SpaceStep ==
  ASSUME TypeOK, Phases, Space, \A q \in Proc : Loops(q), [Next]_vars
  PROVE  Space'
<1> USE DEF diskside, bcache, logstate, locals
<1>1. ASSUME NEW p \in Proc, BeginOpSleep(p) PROVE Space'
  BY <1>1, SpaceMove DEF BeginOpSleep, InOpPCs
<1>2. ASSUME NEW p \in Proc, BeginOpEnter(p) PROVE Space'
  <2>1. pc[p] \in OutsidePCs /\ "op" \in InOpPCs
    BY <1>2 DEF BeginOpEnter, OutsidePCs, InOpPCs
  <2>2. InOp' = InOp \cup {p} /\ p \notin InOp
    BY <1>2, <2>1, KindsDisjoint DEF BeginOpEnter, Goto, TypeOK, InOp
  <2>3. lh' = lh /\ dhead' = dhead /\ buf' = buf
    BY <1>2 DEF BeginOpEnter
  <2>4. IsFiniteSet(InOp') /\ Cardinality(InOp') = outstanding + 1
    BY <2>2, InOpFinite, FS_AddElement DEF Phases
  <2>5. IsFiniteSet(1..MAXOPBLOCKS) /\ Cardinality(1..MAXOPBLOCKS) = MAXOPBLOCKS
    BY LogAssumption, FS_Interval, SMTT(20)
  <2>6. /\ IsFiniteSet(InOp' \X (1..MAXOPBLOCKS))
        /\ Cardinality(InOp' \X (1..MAXOPBLOCKS)) = (outstanding + 1) * MAXOPBLOCKS
    <3> DEFINE S == InOp'
               T == 1..MAXOPBLOCKS
    <3>1. IsFiniteSet(S) /\ IsFiniteSet(T)
      BY <2>4, <2>5
    <3> HIDE DEF S, T
    <3>2. IsFiniteSet(S \X T) /\ Cardinality(S \X T) = Cardinality(S) * Cardinality(T)
      BY ONLY <3>1, FS_Product
    <3> QED
      BY <2>4, <2>5, <3>2 DEF S, T
  <2>7. Reserved' \in SUBSET (InOp' \X (1..MAXOPBLOCKS))
    BY DEF Reserved
  <2>8. /\ Cardinality(Reserved') <= (outstanding + 1) * MAXOPBLOCKS
        /\ Cardinality(Reserved') \in Nat
    BY <2>6, <2>7, FS_Subset, FS_CardinalityType
  <2>9. Len(lh) + (outstanding + 1) * MAXOPBLOCKS <= LOGSIZE
    <3>1. ~(Len(lh) + (outstanding + 1) * MAXOPBLOCKS > LOGSIZE)
      BY <1>2 DEF BeginOpEnter, MustWait
    <3>2. Len(lh) \in Nat /\ outstanding \in Nat /\ MAXOPBLOCKS \in Nat /\ LOGSIZE \in Nat
      BY LogAssumption, SMTT(20) DEF TypeOK
    <3>3. (outstanding + 1) * MAXOPBLOCKS \in Nat
      BY <3>2, SMTT(20)
    <3> QED
      BY <3>1, <3>2, <3>3, SMTT(20)
  <2>10. Len(lh') + Cardinality(Reserved') <= LOGSIZE
    <3>1. Len(lh) \in Nat /\ outstanding \in Nat /\ MAXOPBLOCKS \in Nat /\ LOGSIZE \in Nat
      BY LogAssumption, SMTT(20) DEF TypeOK
    <3>2. (outstanding + 1) * MAXOPBLOCKS \in Nat
      BY <3>1, SMTT(20)
    <3> QED
      BY <2>3, <2>8, <2>9, <3>1, <3>2, SMTT(20)
  <2>11. \A q \in InOp : OpInv(q)'
    <3>1. \A q \in InOp : q \in Proc /\ pc'[q] = pc[q] /\ wrote'[q] = wrote[q]
      BY <1>2, <2>2 DEF BeginOpEnter, Goto, TypeOK, InOp
    <3> QED
      BY <2>3, <3>1 DEF Space, OpInv
  <2>12. OpInv(p)'
    <3>1. wrote'[p] = {} /\ pc'[p] = "op"
      BY <1>2 DEF BeginOpEnter, Goto, TypeOK
    <3>2. 0 <= MAXOPBLOCKS
      BY LogAssumption, SMTT(20)
    <3> QED
      BY <3>1, <3>2, FS_EmptySet DEF OpInv
  <2> QED
    BY <2>2, <2>3, <2>10, <2>11, <2>12 DEF Space
<1>3. ASSUME NEW p \in Proc, NEW b \in Blocks, NEW v \in Vals, ModifyBuf(p, b, v)
      PROVE Space'
  <2>1. InOp' = InOp
    BY <1>3, MoveInKind DEF ModifyBuf, InOpPCs
  <2>2. lh' = lh /\ dhead' = dhead /\ wrote' = wrote
    BY <1>3 DEF ModifyBuf
  <2>3. Reserved' = Reserved
    BY <2>1, <2>2 DEF Reserved
  <2>4. \A q \in InOp \ {p} : OpInv(q)'
    <3>1. \A q \in Proc \ {p} : pc'[q] = pc[q] /\ buf'[q] = buf[q]
      BY <1>3 DEF ModifyBuf, Goto, TypeOK
    <3> QED
      BY <2>2, <3>1 DEF Space, OpInv, InOp
  <2>5. OpInv(p)'
    <3>1. p \in InOp /\ buf'[p] = b
      BY <1>3 DEF ModifyBuf, TypeOK, InOp, InOpPCs
    <3>2. Cardinality(wrote[p] \cup {b}) <= MAXOPBLOCKS
      BY <1>3 DEF ModifyBuf
    <3> QED
      BY <2>2, <3>1, <3>2 DEF Space, OpInv
  <2> QED
    BY <2>1, <2>2, <2>3, <2>4, <2>5 DEF Space
<1>4. ASSUME NEW p \in Proc, LogWriteCheck(p) PROVE Space'
  <2>1. \A q \in Proc : pc'[q] = pc[q] \/ pc[q] = "check"
    BY <1>4 DEF LogWriteCheck, Goto, TypeOK
  <2>2. \A q \in InOp' : q \in InOp /\ (pc'[q] = pc[q] \/ pc[q] = "check")
    BY <2>1 DEF InOp, InOpPCs
  <2>3. UNCHANGED <<lh, dhead, wrote, buf>>
    BY <1>4 DEF LogWriteCheck
  <2> QED
    BY <2>2, <2>3, SpaceQuiet
<1>5. ASSUME NEW p \in Proc, LogWriteAppend(p) PROVE Space'
  <2>1. InOp' = InOp /\ p \in InOp
    BY <1>5, MoveInKind DEF LogWriteAppend, InOpPCs, InOp
  <2>2. /\ dhead' = dhead /\ buf' = buf
        /\ wrote' = [wrote EXCEPT ![p] = wrote[p] \cup {buf[p]}]
        /\ lh' = IF buf[p] \in Range(lh) THEN lh ELSE Append(lh, buf[p])
    BY <1>5 DEF LogWriteAppend
  <2>3. /\ wrote'[p] = wrote[p] \cup {buf[p]}
        /\ \A q \in Proc \ {p} : wrote'[q] = wrote[q] /\ pc'[q] = pc[q]
        /\ pc'[p] = "op" /\ pc[p] = "append"
    BY <1>5, <2>2 DEF LogWriteAppend, Goto, TypeOK
  <2>4. lh \in Seq(Blocks) /\ buf[p] \in Blocks /\ Len(lh) \in Nat
    BY SMTT(20) DEF TypeOK
  <2>5. Range(lh') = Range(lh) \cup {buf[p]}
    BY <2>2, <2>4, RangeLogged
  <2>6. /\ OpInv(p)
        /\ IsFiniteSet(wrote[p]) /\ wrote[p] \subseteq Range(lh)
        /\ Cardinality(wrote[p] \cup {buf[p]}) <= MAXOPBLOCKS
    BY <2>1, <2>3 DEF Space, OpInv
  <2>7. /\ IsFiniteSet(wrote'[p])
        /\ Cardinality(wrote[p]) \in Nat
        /\ Cardinality(wrote'[p]) \in Nat
        /\ Cardinality(wrote'[p]) >= Cardinality(wrote[p])
        /\ buf[p] \notin wrote[p] => Cardinality(wrote'[p]) = Cardinality(wrote[p]) + 1
    <3>1. /\ IsFiniteSet(wrote[p] \cup {buf[p]})
          /\ Cardinality(wrote[p]) \in Nat
          /\ Cardinality(wrote[p] \cup {buf[p]}) \in Nat
          /\ Cardinality(wrote[p] \cup {buf[p]}) >= Cardinality(wrote[p])
          /\ buf[p] \notin wrote[p] =>
               Cardinality(wrote[p] \cup {buf[p]}) = Cardinality(wrote[p]) + 1
      <4>1. IsFiniteSet(wrote[p])
        BY <2>6
      <4> QED
        BY ONLY <4>1, OneMore, Zenon
    <3>2. wrote'[p] = wrote[p] \cup {buf[p]}
      BY <2>3
    <3> QED
      BY ONLY <3>1, <3>2, Zenon
  <2>8. \A q \in InOp : OpInv(q)'
    <3>1. OpInv(p)'
      BY <2>3, <2>5, <2>6, <2>7 DEF OpInv
    <3>2. \A q \in InOp \ {p} : OpInv(q)'
      BY <2>2, <2>3, <2>5 DEF Space, OpInv, InOp
    <3> QED
      BY <3>1, <3>2
  <2>9. Reserved' \subseteq Reserved
    <3>1. \A q \in InOp : Cardinality(wrote[q]) \in Nat
      BY FS_CardinalityType DEF Space, OpInv
    <3>2. /\ Cardinality(wrote'[p]) >= Cardinality(wrote[p])
          /\ Cardinality(wrote'[p]) \in Nat
      BY ONLY <2>7
    <3>3. \A q \in InOp : /\ Cardinality(wrote'[q]) >= Cardinality(wrote[q])
                          /\ Cardinality(wrote'[q]) \in Nat
      <4>1. \A q \in InOp \ {p} : wrote'[q] = wrote[q]
        BY <2>3 DEF InOp
      <4> QED
        BY <3>1, <3>2, <4>1, SMTT(20)
    <3> QED
      BY <2>1, <3>1, <3>2, <3>3, SMTT(20) DEF Reserved
  <2>10. Len(lh') + Cardinality(Reserved') <= LOGSIZE
    <3>1. CASE buf[p] \in Range(lh)
      BY <2>2, <2>4, <2>9, <3>1, ReservedShrinks
    <3>2. CASE buf[p] \notin Range(lh)
      <4> DEFINE s == <<p, Cardinality(wrote[p]) + 1>>
      <4>1. buf[p] \notin Range(lh)
        BY <2>4, <3>2 DEF Range
      <4>2. Cardinality(wrote'[p]) = Cardinality(wrote[p]) + 1
        BY <2>6, <2>7, <4>1
      <4>3. Cardinality(wrote[p]) + 1 \in 1..MAXOPBLOCKS
        <5>1. MAXOPBLOCKS \in Nat /\ Cardinality(wrote'[p]) <= MAXOPBLOCKS
          BY <2>3, <2>6, LogAssumption
        <5> QED
          BY ONLY <2>7, <4>2, <5>1, OneMoreFits
      <4>4. s \in Reserved
        <5>1. s \in InOp \X (1..MAXOPBLOCKS)
          BY <2>1, <4>3
        <5>2. s[1] = p /\ s[2] = Cardinality(wrote[p]) + 1
          OBVIOUS
        <5>3. s[2] > Cardinality(wrote[s[1]])
          BY <2>7, <5>2, SMTT(20)
        <5> QED
          BY <5>1, <5>3 DEF Reserved
      <4>5. s \notin Reserved'
        BY <2>7, <4>2, SMTT(20) DEF Reserved
      <4>6. Reserved' \in SUBSET (Reserved \ {s})
        BY <2>9, <4>5
      <4>7. /\ IsFiniteSet(Reserved \ {s})
            /\ Cardinality(Reserved \ {s}) = Cardinality(Reserved) - 1
        BY <4>4, ReservedFinite, FS_RemoveElement
      <4>8. Cardinality(Reserved') <= Cardinality(Reserved) - 1
        BY <4>6, <4>7, FS_Subset, SMTT(20)
      <4>9. Len(lh') = Len(lh) + 1
        BY <2>2, <2>4, <3>2, SMTT(20)
      <4>10. Cardinality(Reserved) \in Nat /\ Cardinality(Reserved') \in Nat
        BY <4>6, <4>7, ReservedFinite, FS_Subset, FS_CardinalityType
      <4>11. LOGSIZE \in Nat /\ Len(lh) + Cardinality(Reserved) <= LOGSIZE
        BY LogAssumption DEF Space
      <4> QED
        BY <2>4, <4>8, <4>9, <4>10, <4>11, SMTT(20)
    <3> QED
      BY <3>1, <3>2
  <2> QED
    BY <2>1, <2>2, <2>8, <2>10 DEF Space
<1>6. ASSUME NEW p \in Proc, EndOp(p) PROVE Space'
  <2>1. \A q \in Proc \ {p} : pc'[q] = pc[q] \/ pc'[q] = "retry"
    BY <1>6 DEF EndOp, Goto, GotoAndWakeup, TypeOK
  <2>2. pc'[p] \in {"panic: log.committing", "commit", "idle"}
    BY <1>6 DEF EndOp, Goto, GotoAndWakeup, TypeOK
  <2>3. \A q \in InOp' : q \in InOp /\ pc'[q] = pc[q]
    BY <2>1, <2>2 DEF InOp, InOpPCs
  <2> QED
    BY <1>6, <2>3, SpaceQuiet DEF EndOp
<1>7. ASSUME NEW p \in Proc, Commit(p) PROVE Space'
  <2>1. PICK w \in {"done", "write_log"} : Goto(p, w)
    BY <1>7 DEF Commit
  <2> QED
    BY <1>7, <2>1, SpaceMove DEF Commit, InOpPCs
<1>8. ASSUME NEW p \in Proc, WriteLog(p) PROVE Space'
  <2>1. PICK w \in {"write_log", "write_head", "panic: incorrect blockno"} : Goto(p, w)
    BY <1>8 DEF WriteLog, Advance
  <2> QED
    BY <1>8, <2>1, SpaceMove DEF WriteLog, InOpPCs
<1>9. ASSUME NEW p \in Proc, WriteHead(p) PROVE Space'
  <2>1. InOp' = InOp
    BY <1>9, MoveInKind DEF WriteHead, CommitPCs
  <2>2. lh' = lh /\ dhead' = lh /\ wrote' = wrote /\ buf' = buf
    BY <1>9 DEF WriteHead
  <2>3. Reserved' = Reserved
    BY <2>1, <2>2 DEF Reserved
  <2>4. \A q \in InOp : OpInv(q)'
    <3>1. \A q \in InOp : pc'[q] = pc[q]
      BY <1>9 DEF WriteHead, Goto, TypeOK, InOp, InOpPCs
    <3> QED
      BY <2>2, <3>1 DEF Space, OpInv
  <2>5. Len(lh) <= LOGDISK - 1
    BY <1>9 DEF WriteHead, Loops
  <2> QED
    BY <2>1, <2>2, <2>3, <2>4, <2>5, SpaceBounds DEF Space
<1>10. ASSUME NEW p \in Proc, InstallTrans(p) PROVE Space'
  <2>1. PICK w \in {"install", "clear"} : Goto(p, w)
    BY <1>10 DEF InstallTrans, InstallBlock, Advance
  <2> QED
    BY <1>10, <2>1, SpaceMove DEF InstallTrans, InstallBlock, InOpPCs
<1>11. ASSUME NEW p \in Proc, ClearHead(p) PROVE Space'
  <2>1. InOp' = InOp
    BY <1>11, MoveInKind DEF ClearHead, CommitPCs
  <2>2. InOp = {}
    BY <1>11 DEF ClearHead, CommitPCs, Phases
  <2>3. lh' = <<>> /\ dhead' = <<>>
    BY <1>11 DEF ClearHead
  <2> QED
    BY <2>1, <2>2, <2>3, SpaceNoOps
<1>12. ASSUME NEW p \in Proc, CommitDone(p) PROVE Space'
  <2>1. \A q \in Proc : pc'[q] = pc[q] \/ pc'[q] \in {"retry", "idle"}
    BY <1>12 DEF CommitDone, GotoAndWakeup, TypeOK
  <2>2. \A q \in InOp' : q \in InOp /\ pc'[q] = pc[q]
    BY <2>1 DEF InOp, InOpPCs
  <2> QED
    BY <1>12, <2>2, SpaceQuiet DEF CommitDone
<1>13. ASSUME NEW p \in Proc, InitLog(p) PROVE Space'
  <2>1. InOp' = {}
    <3>1. \A q \in Proc : pc'[q] \in {"down", "r_install", "r_clear"}
      BY <1>13 DEF InitLog, Goto, TypeOK
    <3> QED
      BY <3>1 DEF InOp, InOpPCs
  <2>2. lh' = dhead /\ dhead' = dhead
    BY <1>13 DEF InitLog
  <2> QED
    BY <2>1, <2>2, SpaceNoOps
<1>14. ASSUME NEW p \in Proc, RecoverInstall(p) PROVE Space'
  <2>1. PICK w \in {"r_install", "r_clear"} : Goto(p, w)
    BY <1>14 DEF RecoverInstall, InstallBlock, Advance
  <2> QED
    BY <1>14, <2>1, SpaceMove DEF RecoverInstall, InstallBlock, InOpPCs
<1>15. ASSUME NEW p \in Proc, RecoverClear(p) PROVE Space'
  <2>1. InOp' = {}
    BY <1>15 DEF RecoverClear, InOp, InOpPCs
  <2>2. lh' = <<>> /\ dhead' = <<>>
    BY <1>15 DEF RecoverClear
  <2> QED
    BY <2>1, <2>2, SpaceNoOps
<1>16. ASSUME NEW b \in Blocks, Evict(b) PROVE Space'
  BY <1>16, SpaceQuiet DEF Evict, InOp
<1>17. ASSUME Crash PROVE Space'
  <2>1. InOp' = {}
    BY <1>17 DEF Crash, InOp, InOpPCs
  <2>2. lh' = <<>> /\ dhead' = dhead
    BY <1>17 DEF Crash
  <2> QED
    BY <2>1, <2>2, SpaceNoOps
<1>18. ASSUME UNCHANGED vars PROVE Space'
  BY <1>18, SpaceQuiet DEF vars, InOp
<1> QED
  BY <1>1, <1>2, <1>3, <1>4, <1>5, <1>6, <1>7, <1>8, <1>9, <1>10,
     <1>11, <1>12, <1>13, <1>14, <1>15, <1>16, <1>17, <1>18 DEF Next

-----------------------------------------------------------------------------
(* Pinned buffers *)

\* An empty header has no blocks.
LEMMA RangeEmpty == Range(<<>>) = {}
BY SMTT(20) DEF Range

\* Nothing to show when the header is empty and nothing is pinned.
LEMMA PinnedEmpty ==
  ASSUME lh' = <<>>, dirty' = {}
  PROVE  Pinned'
BY RangeEmpty DEF Pinned

\* In recovery no buffer is pinned, and that is all there is to show.
LEMMA PinnedRecovery ==
  ASSUME NEW p \in Proc, dirty' = {}, \A q \in Proc : pc'[q] \in RecoveryPCs
  PROVE  Pinned'
<1>1. \A q \in Proc : pc'[q] \notin LoggedPCs \cup {"install", "done"} \cup OutsidePCs
  BY DEF LoggedPCs, InOpPCs, RecoveryPCs, OutsidePCs
<1> QED
  BY <1>1 DEF Pinned

\* While operations are in progress the header lists the pinned buffers.
LEMMA PinnedInOp ==
  ASSUME Range(lh') = dirty', NEW p \in Proc, pc'[p] \notin OutsidePCs \/ pc'[p] \in InOpPCs,
         \A q \in Proc : pc'[q] \in InOpPCs \cup OutsidePCs \cup {"commit"}
  PROVE  Pinned'
<1>1. \A q \in Proc : pc'[q] \notin {"install", "clear", "done"} \cup RecoveryPCs
  BY DEF InOpPCs, RecoveryPCs, OutsidePCs
<1>2. pc'[p] \notin OutsidePCs
  BY KindsDisjoint
<1> QED
  BY <1>1, <1>2 DEF Pinned

\* While p installs, what is still pinned is what it has not come to.
LEMMA PinnedInstall ==
  ASSUME NEW p \in Proc, pc'[p] = "install",
         \A b \in dirty' : \E i \in 1..Len(lh') : i > tail'[p] /\ lh'[i] = b,
         \A q \in Proc \ {p} : pc'[q] \in OutsidePCs
  PROVE  Pinned'
<1>1. \A q \in Proc : pc'[q] \notin LoggedPCs \cup {"clear", "done"} \cup RecoveryPCs
  BY DEF LoggedPCs, InOpPCs, RecoveryPCs, OutsidePCs
<1>2. \A q \in Proc \ {p} : pc'[q] # "install"
  BY DEF OutsidePCs
<1>3. pc'[p] \notin OutsidePCs
  BY DEF OutsidePCs
<1> QED
  BY <1>1, <1>2, <1>3 DEF Pinned

\* Process q keeps its place as far as pinning is concerned.
SamePinKind(q) ==
  /\ pc'[q] \in LoggedPCs <=> pc[q] \in LoggedPCs
  /\ pc'[q] \in OutsidePCs <=> pc[q] \in OutsidePCs
  /\ pc'[q] \in {"clear", "done"} \cup RecoveryPCs =>
       pc[q] \in {"clear", "done"} \cup RecoveryPCs
  /\ pc'[q] = "done" => pc[q] = "done"
  /\ pc'[q] = "install" => pc[q] = "install"

\* A step that pins, logs and installs nothing.
LEMMA PinnedKept ==
  ASSUME Pinned, UNCHANGED <<lh, dirty>>,
         \A q \in Proc : SamePinKind(q) \/ pc'[q] = pc[q],
         \A q \in Proc : pc'[q] = "install" => tail'[q] = tail[q]
  PROVE  Pinned'
<1>1. \A q \in Proc : SamePinKind(q)
  BY DEF SamePinKind
<1>2. (\E q \in Proc : pc'[q] \in LoggedPCs) => Range(lh') = dirty'
  BY <1>1 DEF Pinned, SamePinKind
<1>3. ASSUME NEW q \in Proc, pc'[q] = "install"
      PROVE  \A b \in dirty' : \E i \in 1..Len(lh') : i > tail'[q] /\ lh'[i] = b
  <2>1. pc[q] = "install" /\ tail'[q] = tail[q]
    BY <1>1, <1>3 DEF SamePinKind
  <2>2. \A b \in dirty : \E i \in 1..Len(lh) : i > tail[q] /\ lh[i] = b
    BY <2>1 DEF Pinned
  <2> QED BY <2>1, <2>2
<1>4. ASSUME NEW q \in Proc
      PROVE  /\ pc'[q] \in {"clear", "done"} \cup RecoveryPCs => dirty' = {}
             /\ pc'[q] = "done" => lh' = <<>>
  <2>1. SamePinKind(q)
    BY <1>1
  <2> HIDE DEF RecoveryPCs
  <2> QED BY <2>1 DEF Pinned, SamePinKind
<1>5. (\A q \in Proc : pc'[q] \in OutsidePCs) => lh' = <<>> /\ dirty' = {}
  BY <1>1 DEF Pinned, SamePinKind
<1> QED
  BY <1>2, <1>3, <1>4, <1>5 DEF Pinned

\* A block that is logged gets pinned, and stays so until install_trans writes it.
LEMMA PinnedStep ==
  ASSUME TypeOK, Phases, Pinned, \A q \in Proc : Loops(q), [Next]_vars
  PROVE  Pinned'
<1> USE DEF diskside, bcache, logstate, locals
<1>1. ASSUME NEW p \in Proc, BeginOpSleep(p) PROVE Pinned'
  <2>1. \A q \in Proc \ {p} : pc'[q] = pc[q]
    BY <1>1 DEF BeginOpSleep, Goto, TypeOK
  <2>2. SamePinKind(p)
    BY <1>1 DEF BeginOpSleep, Goto, TypeOK, SamePinKind, LoggedPCs, InOpPCs, OutsidePCs,
       RecoveryPCs
  <2>3. UNCHANGED <<lh, dirty, tail>>
    BY <1>1 DEF BeginOpSleep
  <2> QED
    BY <2>1, <2>2, <2>3, PinnedKept
<1>2. ASSUME NEW p \in Proc, BeginOpEnter(p) PROVE Pinned'
  <2>1. UNCHANGED <<lh, dirty, tail>> /\ ~committing
    BY <1>2 DEF BeginOpEnter, MustWait
  <2>2. pc[p] \in OutsidePCs /\ pc'[p] = "op" /\ \A q \in Proc \ {p} : pc'[q] = pc[q]
    BY <1>2 DEF BeginOpEnter, Goto, TypeOK, OutsidePCs
  <2>3. \A q \in Proc : pc[q] \in InOpPCs \cup OutsidePCs
    BY <2>1, <2>2, KindsDisjoint DEF Phases
  <2>4. Range(lh) = dirty
    <3>1. CASE \E q \in Proc : pc[q] \in InOpPCs
      BY <3>1 DEF Pinned, LoggedPCs
    <3>2. CASE \A q \in Proc : pc[q] \in OutsidePCs
      BY <3>2, RangeEmpty DEF Pinned
    <3> QED
      BY <2>3, <3>1, <3>2
  <2>5. \A q \in Proc : pc'[q] \in InOpPCs \cup OutsidePCs
    BY <2>2, <2>3 DEF InOpPCs
  <2>6. pc'[p] \in InOpPCs
    BY <2>2 DEF InOpPCs
  <2> QED
    BY <2>1, <2>4, <2>5, <2>6, PinnedInOp
<1>3. ASSUME NEW p \in Proc, NEW b \in Blocks, NEW v \in Vals, ModifyBuf(p, b, v)
      PROVE Pinned'
  <2>1. \A q \in Proc \ {p} : pc'[q] = pc[q]
    BY <1>3 DEF ModifyBuf, Goto, TypeOK
  <2>2. SamePinKind(p)
    BY <1>3 DEF ModifyBuf, Goto, TypeOK, SamePinKind, LoggedPCs, InOpPCs, OutsidePCs,
       RecoveryPCs
  <2>3. UNCHANGED <<lh, dirty, tail>>
    BY <1>3 DEF ModifyBuf
  <2> QED
    BY <2>1, <2>2, <2>3, PinnedKept
<1>4. ASSUME NEW p \in Proc, LogWriteCheck(p) PROVE Pinned'
  <2>1. \A q \in Proc \ {p} : pc'[q] = pc[q]
    BY <1>4 DEF LogWriteCheck, Goto, TypeOK
  <2>2. SamePinKind(p)
    <3>1. pc[p] \in InOpPCs /\ pc'[p] \in InOpPCs
      <4>1. pc[p] \in InOpPCs
        BY <1>4 DEF LogWriteCheck, InOpPCs
      <4>2. pc'[p] \in {"panic: too big a transaction", "panic: outside of trans", "append"}
        BY <1>4 DEF LogWriteCheck, Goto, TypeOK
      <4> QED
        BY <4>1, <4>2, PhasesStep DEF InOpPCs, Phases, CommitPCs, OutsidePCs, RecoveryPCs
    <3> QED
      BY <3>1 DEF SamePinKind, LoggedPCs, InOpPCs, OutsidePCs, RecoveryPCs
  <2>3. UNCHANGED <<lh, dirty, tail>>
    BY <1>4 DEF LogWriteCheck
  <2> QED
    BY <2>1, <2>2, <2>3, PinnedKept
<1>5. ASSUME NEW p \in Proc, LogWriteAppend(p) PROVE Pinned'
  <2>1. pc[p] \in InOpPCs /\ p \in InOp
    BY <1>5 DEF LogWriteAppend, InOpPCs, InOp
  <2>2. \A q \in Proc : pc[q] \in InOpPCs \cup OutsidePCs
    BY <2>1, KindsDisjoint DEF Phases
  <2>3. pc'[p] \in InOpPCs /\ \A q \in Proc : pc'[q] \in InOpPCs \cup OutsidePCs
    BY <1>5, <2>2 DEF LogWriteAppend, Goto, TypeOK, InOpPCs
  <2>4. Range(lh) = dirty
    BY <2>1 DEF Pinned, LoggedPCs
  <2>5. Range(lh') = Range(lh) \cup {buf[p]}
    <3>1. lh \in Seq(Blocks) /\ buf[p] \in Blocks
      BY DEF TypeOK
    <3>2. lh' = IF buf[p] \in Range(lh) THEN lh ELSE Append(lh, buf[p])
      BY <1>5 DEF LogWriteAppend
    <3> QED
      BY <3>1, <3>2, RangeLogged
  <2>6. dirty' = dirty \cup {buf[p]}
    BY <1>5 DEF LogWriteAppend
  <2> QED
    BY <2>3, <2>4, <2>5, <2>6, PinnedInOp
<1>6. ASSUME NEW p \in Proc, EndOp(p) PROVE Pinned'
  <2>1. pc[p] \in InOpPCs /\ p \in InOp
    BY <1>6 DEF EndOp, InOpPCs, InOp
  <2>2. Range(lh) = dirty
    BY <2>1 DEF Pinned, LoggedPCs
  <2>3. UNCHANGED <<lh, dirty>> /\ ~committing
    BY <1>6, <2>1 DEF EndOp, Phases
  <2>4. \A q \in Proc : pc[q] \in InOpPCs \cup OutsidePCs
    BY <2>1, KindsDisjoint DEF Phases
  <2>5. CASE outstanding = 1
    <3>1. pc'[p] = "commit" /\ \A q \in Proc \ {p} : pc'[q] = pc[q]
      BY <1>6, <2>3, <2>5 DEF EndOp, Goto, TypeOK
    <3>2. \A q \in Proc : pc'[q] \in InOpPCs \cup OutsidePCs \cup {"commit"}
      BY <2>4, <3>1
    <3>3. pc'[p] \notin OutsidePCs
      BY <3>1 DEF OutsidePCs
    <3> QED
      BY <2>2, <2>3, <3>2, <3>3, PinnedInOp
  <2>6. CASE outstanding # 1
    <3>1. GotoAndWakeup(p, "idle") /\ outstanding' = outstanding - 1
      BY <1>6, <2>3, <2>6 DEF EndOp
    <3>2. outstanding' # 0
      BY <2>6, <3>1, SMTT(20) DEF TypeOK
    <3>3. InOp' # {}
      BY <3>2, PhasesStep, FS_EmptySet DEF Phases
    <3>4. PICK r \in Proc : pc'[r] \in InOpPCs
      BY <3>3 DEF InOp
    <3>5. \A q \in Proc : pc'[q] \in InOpPCs \cup OutsidePCs
      BY <2>4, <3>1 DEF GotoAndWakeup, OutsidePCs
    <3>6. pc'[r] \notin OutsidePCs
      BY <3>4, KindsDisjoint
    <3> QED
      BY <2>2, <2>3, <3>5, <3>6, PinnedInOp
  <2> QED
    BY <2>5, <2>6
<1>7. ASSUME NEW p \in Proc, Commit(p) PROVE Pinned'
  <2>1. Range(lh) = dirty
    BY <1>7 DEF Commit, Pinned, LoggedPCs
  <2>2. UNCHANGED <<lh, dirty>>
    BY <1>7 DEF Commit
  <2>3. \A q \in Proc \ {p} : pc'[q] = pc[q] /\ tail'[q] = tail[q]
    BY <1>7 DEF Commit, Goto, TypeOK
  <2>4. CASE lh = <<>>
    BY <2>1, <2>2, <2>4, RangeEmpty, PinnedEmpty
  <2>5. CASE lh # <<>>
    <3>1. pc'[p] = "write_log" /\ pc[p] = "commit"
      BY <1>7, <2>5 DEF Commit, Goto, TypeOK
    <3>2. SamePinKind(p) /\ pc'[p] # "install"
      BY <3>1 DEF SamePinKind, LoggedPCs, InOpPCs, OutsidePCs, RecoveryPCs
    <3> QED
      BY <2>2, <2>3, <3>2, PinnedKept
  <2> QED
    BY <2>4, <2>5
<1>8. ASSUME NEW p \in Proc, WriteLog(p) PROVE Pinned'
  <2>1. \A q \in Proc \ {p} : pc'[q] = pc[q] /\ tail'[q] = tail[q]
    BY <1>8 DEF WriteLog, Advance, Goto, TypeOK
  <2>2. SamePinKind(p) /\ pc'[p] # "install"
    <3>1. pc'[p] \in {"write_log", "write_head", "panic: incorrect blockno"}
      BY <1>8 DEF WriteLog, Advance, Goto, TypeOK
    <3> QED
      BY <1>8, <3>1 DEF WriteLog, SamePinKind, LoggedPCs, InOpPCs, OutsidePCs, RecoveryPCs
  <2>3. UNCHANGED <<lh, dirty>>
    BY <1>8 DEF WriteLog
  <2> QED
    BY <2>1, <2>2, <2>3, PinnedKept
<1>9. ASSUME NEW p \in Proc, WriteHead(p) PROVE Pinned'
  <2>1. Range(lh) = dirty
    BY <1>9 DEF WriteHead, Pinned, LoggedPCs
  <2>2. UNCHANGED <<lh, dirty, tail>>
    BY <1>9 DEF WriteHead
  <2>3. pc[p] \in CommitPCs /\ pc'[p] = "install"
    BY <1>9 DEF WriteHead, Goto, TypeOK, CommitPCs
  <2>4. tail[p] = 0
    BY <1>9 DEF WriteHead, Loops
  <2>5. \A b \in dirty : \E i \in 1..Len(lh) : i > tail[p] /\ lh[i] = b
    <3>1. DOMAIN lh = 1..Len(lh)
      BY SMTT(20) DEF TypeOK
    <3>2. \A b \in dirty : \E i \in 1..Len(lh) : lh[i] = b
      BY <2>1, <3>1 DEF Range
    <3> QED
      BY <2>4, <3>2, SMTT(20)
  <2>6. \A q \in Proc \ {p} : pc'[q] \in OutsidePCs
    <3>1. \A q \in Proc \ {p} : pc[q] \in OutsidePCs
      BY <2>3, KindsDisjoint DEF Phases, InOp
    <3> QED
      BY <1>9, <3>1, SMTT(20) DEF WriteHead, Goto
  <2> QED
    BY <2>1, <2>2, <2>3, <2>5, <2>6, PinnedInstall
<1>10. ASSUME NEW p \in Proc, InstallTrans(p) PROVE Pinned'
  <2> DEFINE c == lh[tail[p] + 1]
  <2>1. pc[p] = "install" /\ lh' = lh /\ dirty' = dirty \ {c}
    BY <1>10 DEF InstallTrans, InstallBlock
  <2>2. \A b \in dirty : \E i \in 1..Len(lh) : i > tail[p] /\ lh[i] = b
    BY <2>1 DEF Pinned
  <2>3. Len(lh) \in Nat /\ tail[p] \in Nat
    BY SMTT(20) DEF TypeOK
  <2>4. ASSUME NEW b \in dirty'
        PROVE  \E i \in 1..Len(lh) : i > tail[p] + 1 /\ lh[i] = b
    <3>1. b \in dirty /\ b # c
      BY <2>1
    <3>2. PICK i \in 1..Len(lh) : i > tail[p] /\ lh[i] = b
      BY <2>2, <3>1
    <3>3. i # tail[p] + 1
      BY <3>1, <3>2
    <3>4. i > tail[p] + 1
      BY ONLY <2>3, <3>2, <3>3, i \in 1..Len(lh)
    <3> QED
      BY <3>2, <3>4
  <2>5. \A q \in Proc \ {p} : pc'[q] \in OutsidePCs
    <3>1. pc[p] \in CommitPCs
      BY <2>1 DEF CommitPCs
    <3>2. \A q \in Proc \ {p} : pc[q] \in OutsidePCs
      BY <3>1, KindsDisjoint DEF Phases, InOp
    <3> QED
      <4>1. \A q \in Proc \ {p} : pc'[q] = pc[q]
        BY <1>10 DEF InstallTrans, InstallBlock, Advance, Goto, TypeOK
      <4> QED
        BY <3>2, <4>1
  <2>6. CASE tail[p] + 1 < Len(lh)
    <3>1. pc'[p] = "install" /\ tail'[p] = tail[p] + 1
      BY <1>10, <2>6 DEF InstallTrans, InstallBlock, Advance, Goto, TypeOK
    <3> QED
      BY <2>1, <2>4, <2>5, <3>1, PinnedInstall
  <2>7. CASE ~(tail[p] + 1 < Len(lh))
    <3>1. pc'[p] = "clear"
      BY <1>10, <2>7 DEF InstallTrans, InstallBlock, Advance, Goto, TypeOK
    <3>2. dirty' = {}
      BY <2>3, <2>4, <2>7, SMTT(20)
    <3>3. \A q \in Proc : pc'[q] \notin LoggedPCs \cup {"install", "done"}
      BY <2>5, <3>1 DEF LoggedPCs, InOpPCs, OutsidePCs
    <3>4. pc'[p] \notin OutsidePCs
      BY <3>1 DEF OutsidePCs
    <3> QED
      BY <3>2, <3>3, <3>4 DEF Pinned
  <2> QED
    BY <2>6, <2>7
<1>11. ASSUME NEW p \in Proc, ClearHead(p) PROVE Pinned'
  BY <1>11, PinnedEmpty DEF ClearHead, Pinned
<1>12. ASSUME NEW p \in Proc, CommitDone(p) PROVE Pinned'
  BY <1>12, PinnedEmpty DEF CommitDone, Pinned
<1>13. ASSUME NEW p \in Proc, InitLog(p) PROVE Pinned'
  <2>1. \A q \in Proc : pc'[q] \in RecoveryPCs
    BY <1>13 DEF InitLog, Goto, TypeOK, RecoveryPCs
  <2>2. dirty' = {}
    BY <1>13 DEF InitLog, Pinned, RecoveryPCs
  <2> QED
    BY <2>1, <2>2, PinnedRecovery
<1>14. ASSUME NEW p \in Proc, RecoverInstall(p) PROVE Pinned'
  <2>1. \A q \in Proc : pc[q] \in RecoveryPCs
    BY <1>14 DEF RecoverInstall, InstallBlock, RecoveryPCs, Phases
  <2>2. \A q \in Proc : pc'[q] \in RecoveryPCs
    BY <1>14, <2>1 DEF RecoverInstall, InstallBlock, Advance, Goto, TypeOK, RecoveryPCs
  <2>3. dirty' = {}
    BY <1>14, <2>1 DEF RecoverInstall, InstallBlock, Pinned
  <2> QED
    BY <2>2, <2>3, PinnedRecovery
<1>15. ASSUME NEW p \in Proc, RecoverClear(p) PROVE Pinned'
  BY <1>15, PinnedEmpty DEF RecoverClear, Pinned, RecoveryPCs
<1>16. ASSUME NEW b \in Blocks, Evict(b) PROVE Pinned'
  <2>1. UNCHANGED <<lh, dirty, tail, pc>>
    BY <1>16 DEF Evict
  <2> QED
    BY <2>1, PinnedKept DEF SamePinKind
<1>17. ASSUME Crash PROVE Pinned'
  BY <1>17, PinnedEmpty DEF Crash
<1>18. ASSUME UNCHANGED vars PROVE Pinned'
  <2>1. UNCHANGED <<lh, dirty, tail, pc>>
    BY <1>18 DEF vars
  <2> QED
    BY <2>1, PinnedKept DEF SamePinKind
<1> QED
  BY <1>1, <1>2, <1>3, <1>4, <1>5, <1>6, <1>7, <1>8, <1>9, <1>10,
     <1>11, <1>12, <1>13, <1>14, <1>15, <1>16, <1>17, <1>18 DEF Next

-----------------------------------------------------------------------------
(* Sleepers *)

\* begin_op sleeps only while somebody will call wakeup, and both wakeups of
\* end_op come before that stops being so.
LEMMA SleepersStep ==
  ASSUME TypeOK, Phases, Pinned, SleepersHaveAWaker, [Next]_vars
  PROVE  SleepersHaveAWaker'
<1> USE DEF diskside, bcache, logstate, locals
<1>1. ASSUME NEW p \in Proc, BeginOpSleep(p) PROVE SleepersHaveAWaker'
  <2>1. UNCHANGED <<outstanding, committing>>
    BY <1>1 DEF BeginOpSleep
  <2>2. CASE committing
    BY <2>1, <2>2 DEF SleepersHaveAWaker
  <2>3. CASE ~committing
    <3>1. outstanding # 0
      <4> SUFFICES ASSUME outstanding = 0 PROVE FALSE
        OBVIOUS
      <4>1. InOp = {}
        BY NoneOutstanding
      <4>2. pc[p] \in OutsidePCs
        BY <1>1 DEF BeginOpSleep, OutsidePCs
      <4>3. \A q \in Proc : pc[q] \in OutsidePCs
        BY <2>3, <4>1, <4>2, KindsDisjoint DEF Phases, InOp
      <4>4. lh = <<>>
        BY <4>3 DEF Pinned
      <4>5. Len(lh) + (outstanding + 1) * MAXOPBLOCKS > LOGSIZE
        BY <1>1, <2>3 DEF BeginOpSleep, MustWait
      <4>6. MAXOPBLOCKS > LOGSIZE
        BY <4>4, <4>5, LogAssumption, SMTT(20)
      <4> QED
        BY <4>6, LogAssumption, SMTT(20)
    <3>2. outstanding' > 0
      BY <2>1, <3>1, SMTT(20) DEF TypeOK
    <3> QED
      BY <3>2 DEF SleepersHaveAWaker
  <2> QED
    BY <2>2, <2>3
<1>2. ASSUME NEW p \in Proc, BeginOpEnter(p) PROVE SleepersHaveAWaker'
  <2>1. outstanding' > 0
    BY <1>2, SMTT(20) DEF BeginOpEnter, TypeOK
  <2> QED
    BY <2>1 DEF SleepersHaveAWaker
<1>3. ASSUME NEW p \in Proc, NEW b \in Blocks, NEW v \in Vals, ModifyBuf(p, b, v)
      PROVE SleepersHaveAWaker'
  <2>1. \A q \in Proc : pc'[q] = "sleep" => pc[q] = "sleep"
    BY <1>3 DEF ModifyBuf, Goto, TypeOK
  <2>2. UNCHANGED <<outstanding, committing>>
    BY <1>3 DEF ModifyBuf, Goto, TypeOK
  <2> QED
    BY <2>1, <2>2 DEF SleepersHaveAWaker
<1>4. ASSUME NEW p \in Proc, LogWriteCheck(p) PROVE SleepersHaveAWaker'
  <2>1. \A q \in Proc : pc'[q] = "sleep" => pc[q] = "sleep"
    BY <1>4 DEF LogWriteCheck, Goto, TypeOK
  <2>2. UNCHANGED <<outstanding, committing>>
    BY <1>4 DEF LogWriteCheck, Goto, TypeOK
  <2> QED
    BY <2>1, <2>2 DEF SleepersHaveAWaker
<1>5. ASSUME NEW p \in Proc, LogWriteAppend(p) PROVE SleepersHaveAWaker'
  <2>1. \A q \in Proc : pc'[q] = "sleep" => pc[q] = "sleep"
    BY <1>5 DEF LogWriteAppend, Goto, TypeOK
  <2>2. UNCHANGED <<outstanding, committing>>
    BY <1>5 DEF LogWriteAppend, Goto, TypeOK
  <2> QED
    BY <2>1, <2>2 DEF SleepersHaveAWaker
<1>6. ASSUME NEW p \in Proc, EndOp(p) PROVE SleepersHaveAWaker'
  <2>1. CASE committing
    BY <1>6, <2>1 DEF EndOp, SleepersHaveAWaker
  <2>2. CASE ~committing /\ outstanding = 1
    <3>1. committing'
      BY <1>6, <2>2 DEF EndOp
    <3> QED
      BY <3>1 DEF SleepersHaveAWaker
  <2>3. CASE ~committing /\ outstanding # 1
    <3>1. GotoAndWakeup(p, "idle")
      BY <1>6, <2>3 DEF EndOp
    <3>2. \A q \in Proc : pc'[q] # "sleep"
      BY <3>1 DEF GotoAndWakeup
    <3> QED
      BY <3>2 DEF SleepersHaveAWaker
  <2> QED
    BY <2>1, <2>2, <2>3
<1>7. ASSUME NEW p \in Proc, Commit(p) PROVE SleepersHaveAWaker'
  <2>1. \A q \in Proc : pc'[q] = "sleep" => pc[q] = "sleep"
    BY <1>7 DEF Commit, Goto, TypeOK
  <2>2. UNCHANGED <<outstanding, committing>>
    BY <1>7 DEF Commit, Goto, TypeOK
  <2> QED
    BY <2>1, <2>2 DEF SleepersHaveAWaker
<1>8. ASSUME NEW p \in Proc, WriteLog(p) PROVE SleepersHaveAWaker'
  <2>1. \A q \in Proc : pc'[q] = "sleep" => pc[q] = "sleep"
    BY <1>8 DEF WriteLog, Advance, Goto, TypeOK
  <2>2. UNCHANGED <<outstanding, committing>>
    BY <1>8 DEF WriteLog, Advance, Goto, TypeOK
  <2> QED
    BY <2>1, <2>2 DEF SleepersHaveAWaker
<1>9. ASSUME NEW p \in Proc, WriteHead(p) PROVE SleepersHaveAWaker'
  <2>1. \A q \in Proc : pc'[q] = "sleep" => pc[q] = "sleep"
    BY <1>9 DEF WriteHead, Goto, TypeOK
  <2>2. UNCHANGED <<outstanding, committing>>
    BY <1>9 DEF WriteHead, Goto, TypeOK
  <2> QED
    BY <2>1, <2>2 DEF SleepersHaveAWaker
<1>10. ASSUME NEW p \in Proc, InstallTrans(p) PROVE SleepersHaveAWaker'
  <2>1. \A q \in Proc : pc'[q] = "sleep" => pc[q] = "sleep"
    BY <1>10 DEF InstallTrans, InstallBlock, Advance, Goto, TypeOK
  <2>2. UNCHANGED <<outstanding, committing>>
    BY <1>10 DEF InstallTrans, InstallBlock, Advance, Goto, TypeOK
  <2> QED
    BY <2>1, <2>2 DEF SleepersHaveAWaker
<1>11. ASSUME NEW p \in Proc, ClearHead(p) PROVE SleepersHaveAWaker'
  <2>1. \A q \in Proc : pc'[q] = "sleep" => pc[q] = "sleep"
    BY <1>11 DEF ClearHead, Goto, TypeOK
  <2>2. UNCHANGED <<outstanding, committing>>
    BY <1>11 DEF ClearHead, Goto, TypeOK
  <2> QED
    BY <2>1, <2>2 DEF SleepersHaveAWaker
<1>12. ASSUME NEW p \in Proc, CommitDone(p) PROVE SleepersHaveAWaker'
  <2>1. \A q \in Proc : pc'[q] # "sleep"
    BY <1>12 DEF CommitDone, GotoAndWakeup
  <2> QED
    BY <2>1 DEF SleepersHaveAWaker
<1>13. ASSUME NEW p \in Proc, InitLog(p) PROVE SleepersHaveAWaker'
  <2>1. \A q \in Proc : pc'[q] = "sleep" => pc[q] = "sleep"
    BY <1>13 DEF InitLog, Goto, TypeOK
  <2>2. UNCHANGED <<outstanding, committing>>
    BY <1>13 DEF InitLog, Goto, TypeOK
  <2> QED
    BY <2>1, <2>2 DEF SleepersHaveAWaker
<1>14. ASSUME NEW p \in Proc, RecoverInstall(p) PROVE SleepersHaveAWaker'
  <2>1. \A q \in Proc : pc'[q] = "sleep" => pc[q] = "sleep"
    BY <1>14 DEF RecoverInstall, InstallBlock, Advance, Goto, TypeOK
  <2>2. UNCHANGED <<outstanding, committing>>
    BY <1>14 DEF RecoverInstall, InstallBlock, Advance, Goto, TypeOK
  <2> QED
    BY <2>1, <2>2 DEF SleepersHaveAWaker
<1>15. ASSUME NEW p \in Proc, RecoverClear(p) PROVE SleepersHaveAWaker'
  <2>1. \A q \in Proc : pc'[q] = "sleep" => pc[q] = "sleep"
    BY <1>15 DEF RecoverClear
  <2>2. UNCHANGED <<outstanding, committing>>
    BY <1>15 DEF RecoverClear
  <2> QED
    BY <2>1, <2>2 DEF SleepersHaveAWaker
<1>16. ASSUME NEW b \in Blocks, Evict(b) PROVE SleepersHaveAWaker'
  <2>1. \A q \in Proc : pc'[q] = "sleep" => pc[q] = "sleep"
    BY <1>16 DEF Evict
  <2>2. UNCHANGED <<outstanding, committing>>
    BY <1>16 DEF Evict
  <2> QED
    BY <2>1, <2>2 DEF SleepersHaveAWaker
<1>17. ASSUME Crash PROVE SleepersHaveAWaker'
  BY <1>17 DEF Crash, SleepersHaveAWaker
<1>18. ASSUME UNCHANGED vars PROVE SleepersHaveAWaker'
  <2>1. \A q \in Proc : pc'[q] = "sleep" => pc[q] = "sleep"
    BY <1>18 DEF vars
  <2>2. UNCHANGED <<outstanding, committing>>
    BY <1>18 DEF vars
  <2> QED
    BY <2>1, <2>2 DEF SleepersHaveAWaker
<1> QED
  BY <1>1, <1>2, <1>3, <1>4, <1>5, <1>6, <1>7, <1>8, <1>9, <1>10,
     <1>11, <1>12, <1>13, <1>14, <1>15, <1>16, <1>17, <1>18 DEF Next

-----------------------------------------------------------------------------
(* The theorems *)

\* The invariant holds on a disk as mkfs leaves it, before the machine boots.
LEMMA InitInv == Init => LogInv
<1> SUFFICES ASSUME Init PROVE LogInv
  OBVIOUS
<1>1. \A p \in Proc : pc[p] = "down" /\ tail[p] = 0
  BY DEF Init
<1>2. lh = <<>> /\ dhead = <<>> /\ dirty = {} /\ outstanding = 0 /\ committing = FALSE
  BY DEF Init
<1>3. InOp = {}
  BY <1>1 DEF InOp, InOpPCs
<1>4. TypeOK
  <2>1. "down" \in PCs
    BY DEF PCs, RecoveryPCs
  <2>2. lh \in Seq(Blocks) /\ dhead \in Seq(Blocks)
    BY <1>2, SMTT(20)
  <2>3. outstanding \in Nat /\ tail \in [Proc -> Nat]
    BY DEF Init
  <2> QED
    BY <2>1, <2>2, <2>3 DEF Init, TypeOK
<1>5. Phases
  <2>1. \A p \in Proc : pc[p] \in RecoveryPCs /\ pc[p] \notin CommitPCs
    BY <1>1 DEF RecoveryPCs, CommitPCs
  <2> QED
    BY <1>2, <1>3, <2>1, FS_EmptySet DEF Phases
<1>6. \A p \in Proc : Loops(p)
  BY <1>1 DEF Loops
<1>7. Space
  <2>1. Reserved = {}
    BY <1>3 DEF Reserved
  <2>2. /\ Len(<<>>) = 0 /\ 0 <= LOGSIZE /\ 0 <= LOGDISK - 1 /\ 0 + 0 <= LOGSIZE
    BY LogAssumption, SMTT(20)
  <2> QED
    BY <1>2, <1>3, <2>1, <2>2, FS_EmptySet DEF Space
<1>8. Pinned
  BY <1>2, RangeEmpty DEF Pinned
<1>9. SleepersHaveAWaker
  BY <1>1 DEF SleepersHaveAWaker
<1> QED
  BY <1>4, <1>5, <1>6, <1>7, <1>8, <1>9 DEF LogInv

\* The invariant is inductive.
LEMMA NextInv == LogInv /\ [Next]_vars => LogInv'
BY TypeStep, PhasesStep, LoopsStep, SpaceStep, PinnedStep, SleepersStep DEF LogInv

\* log.c never indexes a log block, a header entry or a place that does not
\* exist: every variable keeps its type through commits, crashes and recovery.
THEOREM LogTyping == Spec => []TypeOK
<1>1. LogInv => TypeOK
  BY DEF LogInv
<1> QED
  BY <1>1, InitInv, NextInv, PTL DEF Spec

\* Whatever the number of concurrent operations and the sizes, the header array
\* block[LOGSIZE] is never overrun: the size that log_write tests without the
\* lock is not what protects it, begin_op's reservation is.
THEOREM LogHeaderInBounds == Spec => []HeaderInBounds
<1>1. LogInv => HeaderInBounds
  BY SpaceBounds DEF LogInv, HeaderInBounds
<1> QED
  BY <1>1, InitInv, NextInv, PTL DEF Spec

\* With a header block more on the disk than LOGSIZE (which mkfs does not
\* make), a transaction always fits in the on-disk log.
THEOREM LogRegionSuffices ==
  ASSUME LOGDISK > LOGSIZE
  PROVE  Spec => []LogRegionInBounds
<1>1. LogInv => LogRegionInBounds
  <2> SUFFICES ASSUME LogInv PROVE LogRegionInBounds
    OBVIOUS
  <2>1. Len(lh) <= LOGSIZE
    BY SpaceBounds DEF LogInv
  <2>2. Len(lh) \in Nat
    BY SMTT(20) DEF LogInv, TypeOK
  <2> QED
    BY <2>1, <2>2, LogAssumption, SMTT(20) DEF LogRegionInBounds
<1> QED
  BY <1>1, InitInv, NextInv, PTL DEF Spec

\* A logged block stays pinned in the buffer cache until the transaction is on
\* the disk: bget cannot recycle it.
THEOREM LogPins == Spec => []PinnedUntilInstalled
<1>1. LogInv => PinnedUntilInstalled
  BY DEF LogInv, Pinned, PinnedUntilInstalled, LoggedPCs
<1> QED
  BY <1>1, InitInv, NextInv, PTL DEF Spec

\* Nobody is left asleep in begin_op without somebody who will wake them.
THEOREM LogSleepersHaveAWaker == Spec => []SleepersHaveAWaker
<1>1. LogInv => SleepersHaveAWaker
  BY DEF LogInv
<1> QED
  BY <1>1, InitInv, NextInv, PTL DEF Spec

-----------------------------------------------------------------------------
(* The data: what is in the buffers, in the log and at home *)

Distinct(s) == \A i, j \in 1..Len(s) : s[i] = s[j] => i = j

\* A header lists no block twice.  The one on the disk is that of the transaction
\* being installed, and empty when none is.
Headers ==
  /\ Distinct(lh) /\ Distinct(dhead)
  /\ \A p \in Proc : pc[p] \in {"install", "clear", "r_install", "r_clear"} => dhead = lh
  /\ (\A p \in Proc : pc[p] \notin {"install", "clear"} \cup RecoveryPCs) => dhead = <<>>

HoldPCs == InOpPCs \ {"op"}

\* A busy buffer is one that an operation has changed and passes to log_write, and
\* no other has it.  One that is neither pinned nor busy has what the disk has.
Buffers ==
  /\ \A b \in busy : \E p \in Proc : pc[p] \in HoldPCs /\ buf[p] = b
  /\ \A p \in Proc : pc[p] \in HoldPCs => buf[p] \in busy
  /\ \A p, q \in Proc : pc[p] \in HoldPCs /\ pc[q] \in HoldPCs /\ buf[p] = buf[q] => p = q
  /\ \A b \in dirty \cup busy : cache[b] # NotCached
  /\ \A b \in Blocks \ (dirty \cup busy) : cache[b] \in {NotCached, disk[b]}

\* The first n blocks of the transaction are in the log, or at home.
Logged(n) == \A i \in 1..n : dlog[i] = Bread(lh[i])
Installed(n) == \A i \in 1..n : disk[lh[i]] = dlog[i]

\* How far write_log and install_trans have come.
Copies(p) ==
  /\ pc[p] = "write_log" => Logged(tail[p])
  /\ pc[p] \in {"write_head", "install", "clear"} => Logged(Len(lh))
  /\ pc[p] \in {"install", "r_install"} => Installed(tail[p])
  /\ pc[p] \in {"clear", "r_clear"} => Installed(Len(lh))

CopyPCs == {"write_log", "write_head", "install", "clear", "r_install", "r_clear"}

DataInv == Headers /\ Buffers /\ \A p \in Proc : Copies(p)

\* Who commits is alone, and so is recovery.
LEMMA WhoIsWhere ==
  ASSUME Phases
  PROVE  /\ \A p, q \in Proc : pc[p] \in CommitPCs /\ q # p => pc[q] \in OutsidePCs
         /\ \A p, q \in Proc : pc[p] \in InOpPCs => pc[q] \in InOpPCs \cup OutsidePCs
         /\ \A p, q \in Proc : pc[p] \in OutsidePCs => pc[q] \notin RecoveryPCs
         /\ \A p, q \in Proc : pc[p] \in RecoveryPCs => pc[q] \in RecoveryPCs
<1>1. \A p \in Proc : /\ pc[p] \in InOpPCs => pc[p] \notin RecoveryPCs
                      /\ pc[p] \in CommitPCs => pc[p] \notin RecoveryPCs
                      /\ pc[p] \in OutsidePCs => pc[p] \notin RecoveryPCs
  BY DEF InOpPCs, CommitPCs, OutsidePCs, RecoveryPCs
<1>2. ASSUME NEW p \in Proc, NEW q \in Proc, pc[p] \in CommitPCs PROVE pc[q] \notin InOpPCs
  BY <1>2 DEF Phases, InOp
<1> QED
  BY <1>1, <1>2, Zenon DEF Phases

\* A step that touches no block: places change, data do not.
LEMMA DataQuiet ==
  ASSUME DataInv, UNCHANGED <<disk, dlog, dhead, cache, dirty, busy, lh, buf>>,
         \A q \in Proc :
           /\ pc'[q] \in HoldPCs <=> pc[q] \in HoldPCs
           /\ pc'[q] \in {"install", "clear"} \cup RecoveryPCs
                <=> pc[q] \in {"install", "clear"} \cup RecoveryPCs
           /\ \/ pc'[q] \notin CopyPCs
              \/ pc'[q] = pc[q] /\ tail'[q] = tail[q]
              \/ pc'[q] = "write_log" /\ tail'[q] = 0
  PROVE  DataInv'
<1>1. Headers'
  <2>1. ASSUME NEW q \in Proc, pc'[q] \in {"install", "clear", "r_install", "r_clear"}
        PROVE  dhead = lh
    <3>1. pc'[q] = pc[q]
      BY <2>1 DEF CopyPCs
    <3> QED
      BY <2>1, <3>1 DEF DataInv, Headers
  <2> QED
    BY <2>1, SMTT(20) DEF DataInv, Headers, Distinct
<1>2. Buffers'
  BY DEF DataInv, Buffers
<1>3. ASSUME NEW q \in Proc PROVE Copies(q)'
  <2>1. /\ Logged(tail[q]) /\ tail'[q] = tail[q] => Logged(tail[q])'
        /\ Logged(Len(lh)) => Logged(Len(lh))'
        /\ Installed(tail[q]) /\ tail'[q] = tail[q] => Installed(tail[q])'
        /\ Installed(Len(lh)) => Installed(Len(lh))'
    BY DEF Logged, Installed, Bread
  <2>2. CASE pc'[q] \notin CopyPCs
    BY <2>2 DEF Copies, CopyPCs
  <2>3. CASE pc'[q] = pc[q] /\ tail'[q] = tail[q]
    BY <2>1, <2>3 DEF DataInv, Copies
  <2>4. CASE pc'[q] = "write_log" /\ tail'[q] = 0
    BY <2>4, SMTT(20) DEF Copies, Logged
  <2> QED
    BY <2>2, <2>3, <2>4
<1> QED
  BY <1>1, <1>2, <1>3 DEF DataInv

\* begin_op, the locked parts of end_op, commit's test and log_write's: no block.
LEMMA QuietData ==
  ASSUME LogInv, LogInv', DataInv, NEW p \in Proc,
         \/ BeginOpSleep(p) \/ BeginOpEnter(p) \/ LogWriteCheck(p)
         \/ EndOp(p) \/ Commit(p) \/ CommitDone(p)
  PROVE  DataInv'
<1>1. UNCHANGED <<disk, dlog, dhead, cache, dirty, busy, lh, buf>>
  BY DEF BeginOpSleep, BeginOpEnter, LogWriteCheck, EndOp, Commit, CommitDone,
         diskside, bcache, logstate, locals
<1>2. TypeOK /\ \A q \in Proc : pc'[q] \in InOpPCs \cup CommitPCs \cup OutsidePCs \cup RecoveryPCs
  BY DEF LogInv, Phases
<1>3. /\ \A q \in Proc \ {p} : tail'[q] = tail[q]
      /\ \A q \in Proc \ {p} : pc'[q] = pc[q] \/ (pc[q] = "sleep" /\ pc'[q] = "retry")
  <2>1. pc \in [Proc -> PCs] /\ tail \in [Proc -> Nat]
    BY <1>2 DEF TypeOK
  <2>2. CASE BeginOpSleep(p) \/ BeginOpEnter(p) \/ LogWriteCheck(p)
    BY <2>1, <2>2 DEF BeginOpSleep, BeginOpEnter, LogWriteCheck, Goto, locals
  <2>3. CASE EndOp(p) \/ CommitDone(p)
    BY <2>1, <2>3 DEF EndOp, CommitDone, Goto, GotoAndWakeup, locals
  <2>4. CASE Commit(p)
    BY <2>1, <2>4 DEF Commit, Goto
  <2> QED
    BY <2>2, <2>3, <2>4
<1>4. \/ /\ pc[p] \in {"idle", "retry", "op", "commit", "done"}
         /\ pc'[p] \in {"sleep", "op", "idle", "commit", "done"}
      \/ pc[p] = "check" /\ pc'[p] \in HoldPCs
      \/ pc[p] = "commit" /\ pc'[p] = "write_log" /\ tail'[p] = 0
  <2>1. CASE BeginOpSleep(p) \/ BeginOpEnter(p) \/ CommitDone(p)
    BY <1>2, <2>1 DEF BeginOpSleep, BeginOpEnter, CommitDone, Goto, GotoAndWakeup, TypeOK
  <2>2. CASE LogWriteCheck(p)
    BY <1>2, <2>2 DEF LogWriteCheck, Goto, TypeOK, HoldPCs, InOpPCs, CommitPCs, OutsidePCs, RecoveryPCs
  <2>3. CASE EndOp(p)
    BY <1>2, <2>3 DEF EndOp, Goto, GotoAndWakeup, TypeOK, InOpPCs, CommitPCs, OutsidePCs,
                      RecoveryPCs
  <2>4. CASE Commit(p)
    BY <1>2, <2>4 DEF Commit, Goto, TypeOK
  <2> QED
    BY <2>1, <2>2, <2>3, <2>4
<1>5. ASSUME NEW q \in Proc
      PROVE  /\ pc'[q] \in HoldPCs <=> pc[q] \in HoldPCs
             /\ pc'[q] \in {"install", "clear"} \cup RecoveryPCs
                  <=> pc[q] \in {"install", "clear"} \cup RecoveryPCs
             /\ \/ pc'[q] \notin CopyPCs
                \/ pc'[q] = pc[q] /\ tail'[q] = tail[q]
                \/ pc'[q] = "write_log" /\ tail'[q] = 0
  <2>1. CASE q = p
    <3>1. CASE /\ pc[p] \in {"idle", "retry", "op", "commit", "done"}
               /\ pc'[p] \in {"sleep", "op", "idle", "commit", "done"}
      BY <2>1, <3>1 DEF HoldPCs, InOpPCs, RecoveryPCs, CopyPCs
    <3>2. CASE pc[p] = "check" /\ pc'[p] \in HoldPCs
      BY <2>1, <3>2 DEF HoldPCs, InOpPCs, RecoveryPCs, CopyPCs
    <3>3. CASE pc[p] = "commit" /\ pc'[p] = "write_log" /\ tail'[p] = 0
      BY <2>1, <3>3 DEF HoldPCs, InOpPCs, RecoveryPCs, CopyPCs
    <3> QED
      BY <1>4, <3>1, <3>2, <3>3
  <2>2. CASE q # p
    <3>1. CASE pc'[q] = pc[q]
      BY <1>3, <2>2, <3>1
    <3>2. CASE pc[q] = "sleep" /\ pc'[q] = "retry"
      BY <3>2 DEF HoldPCs, InOpPCs, RecoveryPCs, CopyPCs
    <3> QED
      BY <1>3, <2>2, <3>1, <3>2
  <2> QED
    BY <2>1, <2>2
<1> QED
  BY <1>1, <1>5, DataQuiet

\* While operations are in progress nothing is copied.
LEMMA NoCopies ==
  ASSUME NEW place \in InOpPCs \cup OutsidePCs
  PROVE  place \notin CopyPCs /\ place \notin RecoveryPCs
BY DEF InOpPCs, OutsidePCs, CopyPCs, RecoveryPCs

\* bread and the change of a buffer.
LEMMA ModifyData ==
  ASSUME LogInv, LogInv', DataInv,
         NEW p \in Proc, NEW b \in Blocks, NEW v \in Vals, ModifyBuf(p, b, v)
  PROVE  DataInv'
<1>1. /\ pc[p] = "op" /\ pc'[p] = "check" /\ \A q \in Proc \ {p} : pc'[q] = pc[q]
      /\ cache'[b] = v /\ \A c \in Blocks \ {b} : cache'[c] = cache[c]
      /\ buf'[p] = b /\ \A q \in Proc \ {p} : buf'[q] = buf[q]
      /\ busy' = busy \cup {b}
      /\ UNCHANGED <<disk, dlog, dhead, dirty, lh>>
  BY DEF ModifyBuf, Goto, LogInv, TypeOK, diskside, logstate
<1>2. \A q \in Proc : pc[q] \in InOpPCs \cup OutsidePCs
  BY <1>1, WhoIsWhere DEF LogInv, InOpPCs
<1>3. \A q \in Proc : pc'[q] \in InOpPCs \cup OutsidePCs
  BY <1>1, <1>2 DEF InOpPCs
<1>4. dhead = <<>>
  BY <1>2, NoCopies DEF DataInv, Headers, CopyPCs
<1>5. /\ \A q \in Proc : Copies(q)'
      /\ \A q \in Proc : pc'[q] \notin {"install", "clear", "r_install", "r_clear"}
  BY <1>3, NoCopies DEF Copies, CopyPCs
<1>6. Headers'
  BY <1>1, <1>4, <1>5, SMTT(20) DEF DataInv, Headers, Distinct
<1>7. Buffers'
  <2>1. ASSUME NEW c \in busy' PROVE \E q \in Proc : pc'[q] \in HoldPCs /\ buf'[q] = c
    <3>1. CASE c = b
      BY <1>1, <3>1 DEF HoldPCs, InOpPCs
    <3>2. CASE c # b
      <4>1. PICK q \in Proc : pc[q] \in HoldPCs /\ buf[q] = c
        BY <1>1, <2>1, <3>2 DEF DataInv, Buffers
      <4>2. q # p
        BY <1>1, <4>1 DEF HoldPCs
      <4> QED
        BY <1>1, <4>1, <4>2
    <3> QED
      BY <3>1, <3>2
  <2>2. dirty \subseteq Blocks /\ busy \subseteq Blocks
    BY DEF LogInv, TypeOK
  <2>3. \A c \in dirty' \cup busy' : cache'[c] # NotCached
    BY <1>1, <2>2, LogAssumption, SMTT(20) DEF DataInv, Buffers
  <2>4. \A c \in Blocks \ (dirty' \cup busy') : cache'[c] \in {NotCached, disk'[c]}
    BY <1>1 DEF DataInv, Buffers
  <2>5. \A q \in Proc : pc'[q] \in HoldPCs => buf'[q] \in busy'
    BY <1>1 DEF DataInv, Buffers
  <2>6. \A q, r \in Proc :
          pc'[q] \in HoldPCs /\ pc'[r] \in HoldPCs /\ buf'[q] = buf'[r] => q = r
    <3>1. \A q \in Proc \ {p} : pc'[q] \in HoldPCs => buf'[q] # b
      BY <1>1, SMTT(20) DEF DataInv, Buffers, ModifyBuf
    <3> QED
      BY <1>1, <3>1, SMTT(20) DEF DataInv, Buffers
  <2> QED
    BY <2>1, <2>3, <2>4, <2>5, <2>6 DEF Buffers
<1> QED
  BY <1>5, <1>6, <1>7 DEF DataInv

\* The locked part of log_write.
LEMMA AppendData ==
  ASSUME LogInv, DataInv, NEW p \in Proc, LogWriteAppend(p)
  PROVE  DataInv'
<1> DEFINE b == buf[p]
<1>1. /\ pc[p] = "append" /\ pc'[p] = "op" /\ \A q \in Proc \ {p} : pc'[q] = pc[q]
      /\ lh' = IF b \in Range(lh) THEN lh ELSE Append(lh, b)
      /\ dirty' = dirty \cup {b} /\ busy' = busy \ {b}
      /\ UNCHANGED <<disk, dlog, dhead, cache, buf>>
  BY DEF LogWriteAppend, Goto, LogInv, TypeOK, diskside
<1>2. \A q \in Proc : pc[q] \in InOpPCs \cup OutsidePCs
  BY <1>1, WhoIsWhere DEF LogInv, InOpPCs
<1>3. \A q \in Proc : pc'[q] \in InOpPCs \cup OutsidePCs
  BY <1>1, <1>2 DEF InOpPCs
<1>4. dhead = <<>>
  BY <1>2, NoCopies DEF DataInv, Headers, CopyPCs
<1>5. /\ \A q \in Proc : Copies(q)'
      /\ \A q \in Proc : pc'[q] \notin {"install", "clear", "r_install", "r_clear"}
  BY <1>3, NoCopies DEF Copies, CopyPCs
<1>6. Distinct(lh')
  <2>1. lh \in Seq(Blocks) /\ b \in Blocks /\ Distinct(lh)
    BY DEF LogInv, TypeOK, DataInv, Headers
  <2>2. CASE b \in Range(lh)
    BY <1>1, <2>1, <2>2
  <2>3. CASE b \notin Range(lh)
    <3>1. /\ lh' = Append(lh, b) /\ Len(lh') = Len(lh) + 1 /\ lh'[Len(lh) + 1] = b
          /\ \A i \in 1..Len(lh) : lh'[i] = lh[i]
      BY <1>1, <2>1, <2>3, SMTT(20)
    <3>2. \A i \in 1..Len(lh) : lh[i] # b
      BY <2>1, <2>3, SMTT(20) DEF Range
    <3>3. Len(lh) \in Nat
      BY <2>1, SMTT(20)
    <3> QED
      BY <2>1, <3>1, <3>2, <3>3, SMTT(20) DEF Distinct
  <2> QED
    BY <2>2, <2>3
<1>7. Headers'
  BY <1>1, <1>4, <1>5, <1>6, SMTT(20) DEF DataInv, Headers, Distinct
<1>8. Buffers'
  <2>1. pc[p] \in HoldPCs /\ pc'[p] \notin HoldPCs /\ b \in busy /\ b \in Blocks
    BY <1>1 DEF DataInv, Buffers, HoldPCs, InOpPCs, LogInv, TypeOK
  <2>2. \A q \in Proc \ {p} : pc[q] \in HoldPCs => buf[q] # b
    BY <2>1 DEF DataInv, Buffers
  <2>3. \A c \in busy' : \E q \in Proc : pc'[q] \in HoldPCs /\ buf'[q] = c
    BY <1>1, <2>1 DEF DataInv, Buffers
  <2>4. \A q \in Proc : pc'[q] \in HoldPCs => buf'[q] \in busy'
    BY <1>1, <2>1, <2>2 DEF DataInv, Buffers
  <2>5. \A q, r \in Proc :
          pc'[q] \in HoldPCs /\ pc'[r] \in HoldPCs /\ buf'[q] = buf'[r] => q = r
    BY <1>1, <2>1 DEF DataInv, Buffers
  <2>6. \A c \in dirty' \cup busy' : cache'[c] # NotCached
    BY <1>1, <2>1, SMTT(20) DEF DataInv, Buffers
  <2>7. \A c \in Blocks \ (dirty' \cup busy') : cache'[c] \in {NotCached, disk'[c]}
    BY <1>1 DEF DataInv, Buffers
  <2> QED
    BY <2>3, <2>4, <2>5, <2>6, <2>7 DEF Buffers
<1> QED
  BY <1>5, <1>7, <1>8 DEF DataInv

\* Outside of operations no buffer is busy.
LEMMA NobodyHolds ==
  ASSUME LogInv, DataInv, NEW p \in Proc, pc[p] \in CommitPCs \cup RecoveryPCs
  PROVE  /\ busy = {}
         /\ \A q \in Proc : pc[q] \notin HoldPCs
         /\ pc[p] \in CommitPCs => \A q \in Proc \ {p} : pc[q] \in OutsidePCs
         /\ pc[p] \in RecoveryPCs => \A q \in Proc : pc[q] \in RecoveryPCs
<1>1. /\ pc[p] \in CommitPCs => \A q \in Proc \ {p} : pc[q] \in OutsidePCs
      /\ pc[p] \in RecoveryPCs => \A q \in Proc : pc[q] \in RecoveryPCs
  BY WhoIsWhere DEF LogInv
<1>2. \A q \in Proc : pc[q] \notin HoldPCs
  BY <1>1 DEF HoldPCs, InOpPCs, CommitPCs, OutsidePCs, RecoveryPCs
<1>3. busy = {}
  BY <1>2 DEF DataInv, Buffers
<1> QED
  BY <1>1, <1>2, <1>3

\* Then only the contents matter.
LEMMA BuffersAlone ==
  ASSUME busy' = {}, \A q \in Proc : pc'[q] \notin HoldPCs,
         \A b \in dirty' : cache'[b] # NotCached,
         \A b \in Blocks \ dirty' : cache'[b] \in {NotCached, disk'[b]}
  PROVE  Buffers'
BY DEF Buffers

\* The outsiders copy nothing.
LEMMA OutsidersCopyNothing ==
  ASSUME NEW q \in Proc, pc'[q] \in OutsidePCs
  PROVE  /\ Copies(q)' /\ pc'[q] \notin HoldPCs
         /\ pc'[q] \notin {"install", "clear", "r_install", "r_clear"} \cup RecoveryPCs
BY DEF Copies, OutsidePCs, HoldPCs, InOpPCs, RecoveryPCs

\* write_log copies the next buffer into the log.
LEMMA WriteLogData ==
  ASSUME LogInv, DataInv, NEW p \in Proc, WriteLog(p)
  PROVE  DataInv'
<1> DEFINE k == tail[p] + 1
<1>1. /\ pc[p] = "write_log" /\ TypeOK /\ Loops(p)
      /\ UNCHANGED <<disk, dhead, cache, dirty, busy, lh>>
      /\ \A q \in Proc \ {p} : pc'[q] = pc[q]
  BY DEF WriteLog, Advance, Goto, LogInv, TypeOK, bcache, logstate
<1>2. busy = {} /\ \A q \in Proc \ {p} : pc'[q] \in OutsidePCs
  BY <1>1, NobodyHolds DEF CommitPCs
<1>3. dhead = <<>>
  <2>1. \A q \in Proc : pc[q] \notin {"install", "clear"} \cup RecoveryPCs
    BY <1>1, <1>2 DEF OutsidePCs, RecoveryPCs
  <2> QED
    BY <2>1 DEF DataInv, Headers
<1>4. /\ k \in Nat /\ k >= 1 /\ k <= Len(lh) /\ Len(lh) \in Nat
      /\ \A i \in 1..k - 1 : dlog[i] = Bread(lh[i])
  BY <1>1, SMTT(20) DEF TypeOK, Loops, DataInv, Copies, Logged
<1>5. \/ pc'[p] = "panic: incorrect blockno"
      \/ /\ k \in LogSlots /\ dlog' = [dlog EXCEPT ![k] = Bread(lh[k])]
         /\ \/ k < Len(lh) /\ pc'[p] = "write_log" /\ tail'[p] = k
            \/ ~(k < Len(lh)) /\ pc'[p] = "write_head"
  <2>1. CASE k \notin LogSlots
    BY <1>1, <2>1 DEF WriteLog, Goto, TypeOK
  <2>2. CASE k \in LogSlots
    BY <1>1, <2>2 DEF WriteLog, Advance, Goto, TypeOK
  <2> QED
    BY <2>1, <2>2
<1>6. Copies(p)'
  <2>1. CASE pc'[p] = "panic: incorrect blockno"
    BY <2>1 DEF Copies
  <2>2. CASE k \in LogSlots /\ dlog' = [dlog EXCEPT ![k] = Bread(lh[k])]
    <3>1. \A i \in 1..k : dlog'[i] = Bread(lh[i])
      <4>1. ASSUME NEW i \in 1..k PROVE dlog'[i] = Bread(lh[i])
        <5>1. i \in LogSlots
          BY <1>4, <2>2, LogAssumption, SMTT(20) DEF LogSlots
        <5>2. CASE i = k
          BY <1>1, <2>2, <5>2 DEF TypeOK
        <5>3. CASE i # k
          <6>1. i \in 1..k - 1
            BY <1>4, <5>3, SMTT(20)
          <6>2. dlog'[i] = dlog[i]
            BY <1>1, <2>2, <5>1, <5>3 DEF TypeOK
          <6> QED
            BY <1>4, <6>1, <6>2
        <5> QED
          BY <5>2, <5>3
      <4> QED
        BY <4>1
    <3>2. \A i \in 1..k : dlog'[i] = Bread(lh[i])'
      BY <1>1, <3>1 DEF Bread
    <3>3. CASE k < Len(lh) /\ pc'[p] = "write_log" /\ tail'[p] = k
      BY <3>2, <3>3 DEF Copies, Logged
    <3>4. CASE ~(k < Len(lh)) /\ pc'[p] = "write_head"
      <4>1. Len(lh') = k
        BY <1>1, <1>4, <3>4, SMTT(20)
      <4> QED
        BY <3>2, <3>4, <4>1 DEF Copies, Logged
    <3> QED
      BY <1>5, <2>2, <3>3, <3>4 DEF Copies
  <2> QED
    BY <1>5, <2>1, <2>2
<1>7. pc'[p] \notin {"install", "clear", "r_install", "r_clear"} \cup RecoveryPCs \cup HoldPCs
  BY <1>5 DEF RecoveryPCs, HoldPCs, InOpPCs
<1>8. \A q \in Proc \ {p} :
        /\ Copies(q)' /\ pc'[q] \notin HoldPCs
        /\ pc'[q] \notin {"install", "clear", "r_install", "r_clear"} \cup RecoveryPCs
  BY <1>2, OutsidersCopyNothing
<1>9. Headers'
  BY <1>1, <1>3, <1>7, <1>8, SMTT(20) DEF DataInv, Headers, Distinct
<1>10. Buffers'
  BY <1>1, <1>2, <1>7, <1>8, BuffersAlone DEF DataInv, Buffers
<1> QED
  BY <1>6, <1>8, <1>9, <1>10 DEF DataInv

\* The header goes to the disk: the transaction is committed.
LEMMA WriteHeadData ==
  ASSUME LogInv, DataInv, NEW p \in Proc, WriteHead(p)
  PROVE  DataInv'
<1>1. /\ pc[p] = "write_head" /\ pc'[p] = "install" /\ tail'[p] = 0 /\ dhead' = lh
      /\ UNCHANGED <<disk, dlog, cache, dirty, busy, lh>>
      /\ \A q \in Proc \ {p} : pc'[q] = pc[q]
  BY DEF WriteHead, Goto, LogInv, TypeOK, Loops, bcache, logstate, locals
<1>2. busy = {} /\ \A q \in Proc \ {p} : pc'[q] \in OutsidePCs
  BY <1>1, NobodyHolds DEF CommitPCs
<1>3. \A q \in Proc \ {p} :
        /\ Copies(q)' /\ pc'[q] \notin HoldPCs
        /\ pc'[q] \notin {"install", "clear", "r_install", "r_clear"} \cup RecoveryPCs
  BY <1>2, OutsidersCopyNothing
<1>4. Logged(Len(lh))'
  BY <1>1 DEF DataInv, Copies, Logged, Bread
<1>5. Copies(p)'
  BY <1>1, <1>4, SMTT(20) DEF Copies, Installed
<1>6. Headers'
  BY <1>1, <1>3, SMTT(20) DEF DataInv, Headers, Distinct
<1>7. pc'[p] \notin HoldPCs
  BY <1>1 DEF HoldPCs, InOpPCs
<1>8. Buffers'
  BY <1>1, <1>2, <1>3, <1>7, BuffersAlone DEF DataInv, Buffers
<1> QED
  BY <1>3, <1>5, <1>6, <1>8 DEF DataInv

\* What install_trans does to a block, in commit() and in recovery.
LEMMA InstallEffect ==
  ASSUME LogInv, DataInv, NEW p \in Proc, NEW here, NEW next,
         <<here, next>> \in {<<"install", "clear">>, <<"r_install", "r_clear">>},
         InstallBlock(p, here, next)
  PROVE  \E k \in 1..Len(lh) :
           /\ k = tail[p] + 1 /\ lh[k] \in Blocks /\ dlog[k] \in Vals
           /\ pc[p] = here /\ dhead = lh /\ Len(lh) \in Nat
           /\ disk'[lh[k]] = dlog[k] /\ \A c \in Blocks \ {lh[k]} : disk'[c] = disk[c]
           /\ cache'[lh[k]] = dlog[k] /\ \A c \in Blocks \ {lh[k]} : cache'[c] = cache[c]
           /\ dirty' = dirty \ {lh[k]}
           /\ UNCHANGED <<dlog, dhead, busy, lh>>
           /\ \A q \in Proc \ {p} : pc'[q] = pc[q] /\ tail'[q] = tail[q]
           /\ k < Len(lh) => pc'[p] = here /\ tail'[p] = k
           /\ ~(k < Len(lh)) => pc'[p] = next
           /\ busy = {} /\ \A q \in Proc : pc[q] \notin HoldPCs
<1> DEFINE k == tail[p] + 1
<1>1. TypeOK /\ Loops(p) /\ pc[p] = here
  BY DEF LogInv, InstallBlock
<1>2. /\ k \in 1..Len(lh) /\ Len(lh) \in Nat /\ k \in LogSlots
      /\ lh[k] \in Blocks /\ dlog[k] \in Vals
  <2>1. k \in 1..Len(lh) /\ Len(lh) \in Nat
    BY <1>1, SMTT(20) DEF TypeOK, Loops
  <2>2. k \in LogSlots
    BY <1>1, <2>1, LogAssumption, SMTT(20) DEF Loops, LogSlots
  <2> QED
    BY <1>1, <2>1, <2>2, SMTT(20) DEF TypeOK
<1>3. dhead = lh
  BY <1>1 DEF DataInv, Headers
<1>4. busy = {} /\ \A q \in Proc : pc[q] \notin HoldPCs
  BY <1>1, NobodyHolds DEF CommitPCs, RecoveryPCs
<1>5. /\ disk'[lh[k]] = dlog[k] /\ \A c \in Blocks \ {lh[k]} : disk'[c] = disk[c]
      /\ cache'[lh[k]] = dlog[k] /\ \A c \in Blocks \ {lh[k]} : cache'[c] = cache[c]
      /\ dirty' = dirty \ {lh[k]} /\ UNCHANGED <<dlog, dhead, busy, lh>>
  BY <1>1, <1>2 DEF InstallBlock, TypeOK, logstate
<1>6. /\ \A q \in Proc \ {p} : pc'[q] = pc[q] /\ tail'[q] = tail[q]
      /\ k < Len(lh) => pc'[p] = here /\ tail'[p] = k
      /\ ~(k < Len(lh)) => pc'[p] = next
  BY <1>1 DEF InstallBlock, Advance, Goto, TypeOK
<1> QED
  BY <1>1, <1>2, <1>3, <1>4, <1>5, <1>6

\* install_trans: the block is at home, and what is in the log stays what is read.
LEMMA InstallData ==
  ASSUME LogInv, DataInv, NEW p \in Proc, NEW here, NEW next,
         <<here, next>> \in {<<"install", "clear">>, <<"r_install", "r_clear">>},
         InstallBlock(p, here, next)
  PROVE  DataInv'
<1>1. PICK k \in 1..Len(lh) :
        /\ k = tail[p] + 1 /\ lh[k] \in Blocks /\ dlog[k] \in Vals
        /\ pc[p] = here /\ dhead = lh /\ Len(lh) \in Nat
        /\ disk'[lh[k]] = dlog[k] /\ \A c \in Blocks \ {lh[k]} : disk'[c] = disk[c]
        /\ cache'[lh[k]] = dlog[k] /\ \A c \in Blocks \ {lh[k]} : cache'[c] = cache[c]
        /\ dirty' = dirty \ {lh[k]}
        /\ UNCHANGED <<dlog, dhead, busy, lh>>
        /\ \A q \in Proc \ {p} : pc'[q] = pc[q] /\ tail'[q] = tail[q]
        /\ k < Len(lh) => pc'[p] = here /\ tail'[p] = k
        /\ ~(k < Len(lh)) => pc'[p] = next
        /\ busy = {} /\ \A q \in Proc : pc[q] \notin HoldPCs
  BY InstallEffect, SMTT(20)
<1>2. TypeOK /\ \A q \in Proc : Loops(q) /\ Copies(q)
  BY DEF LogInv, DataInv
<1>3. /\ \A i \in 1..Len(lh) : lh[i] \in Blocks
      /\ \A i \in 1..Len(lh) : lh[i] = lh[k] => i = k
  BY <1>2, SMTT(20) DEF TypeOK, DataInv, Headers, Distinct
<1>4. ASSUME NEW i \in 1..Len(lh)
      PROVE  /\ dlog[i] = Bread(lh[i]) => dlog'[i] = Bread(lh[i])'
             /\ i = k \/ disk[lh[i]] = dlog[i] => disk'[lh'[i]] = dlog'[i]
  <2>1. CASE i = k
    BY <1>1, <2>1, LogAssumption DEF Bread
  <2>2. CASE i # k
    BY <1>1, <1>3, <2>2 DEF Bread
  <2> QED
    BY <2>1, <2>2
<1>5. Logged(Len(lh)) => Logged(Len(lh))'
  BY <1>1, <1>4 DEF Logged
<1>6. ASSUME NEW n \in 0..Len(lh), Installed(n) PROVE Installed(n)'
  BY <1>1, <1>4, <1>6, SMTT(20) DEF Installed
<1>7. ASSUME Installed(tail[p]) PROVE \A i \in 1..k : disk'[lh'[i]] = dlog'[i]
  BY <1>1, <1>2, <1>4, <1>7, SMTT(20) DEF Installed, TypeOK
<1>8. ASSUME NEW q \in Proc \ {p} PROVE Copies(q)'
  <2>1. pc'[q] = pc[q] /\ tail'[q] = tail[q] /\ tail[q] \in Nat /\ Loops(q) /\ Copies(q)
    BY <1>1, <1>2 DEF TypeOK
  <2>2. pc[q] # "write_log"
    <3>1. CASE here = "install"
      BY <1>1, <3>1, NobodyHolds DEF CommitPCs, OutsidePCs
    <3>2. CASE here = "r_install"
      BY <1>1, <3>2, NobodyHolds DEF RecoveryPCs
    <3> QED
      BY <3>1, <3>2
  <2>3. ASSUME pc[q] \in {"install", "r_install"} PROVE Installed(tail[q])'
    <3>1. tail[q] \in 0..Len(lh) /\ Installed(tail[q])
      <4>1. Installed(tail[q])
        BY <2>1, <2>3 DEF Copies
      <4>2. tail[q] \in 0..Len(lh)
        BY <1>1, <2>1, <2>3, SMTT(20) DEF Loops
      <4> QED
        BY <4>1, <4>2
    <3>2. PICK n \in 0..Len(lh) : n = tail[q] /\ n = tail'[q]
      BY <2>1, <3>1
    <3>3. Installed(n)'
      BY <1>6, <3>1, <3>2
    <3> QED
      BY <3>2, <3>3, ZenonT(30) DEF Installed
  <2>4. ASSUME pc[q] \in {"clear", "r_clear"} PROVE Installed(Len(lh))'
    <3>1. PICK n \in 0..Len(lh) : n = Len(lh) /\ n = Len(lh')
      BY <1>1, SMTT(20)
    <3>2. Installed(n)'
      BY <1>6, <2>1, <2>4, <3>1 DEF Copies
    <3> QED
      BY <3>1, <3>2 DEF Installed
  <2> QED
    BY <1>5, <2>1, <2>2, <2>3, <2>4 DEF Copies
<1>9. Copies(p)'
  <2>1. Copies(p) /\ Installed(tail[p]) /\ (here = "install" => Logged(Len(lh))')
    BY <1>1, <1>2, <1>5 DEF Copies
  <2>2. CASE k < Len(lh)
    <3>1. pc'[p] = here /\ tail'[p] = k
      BY <1>1, <2>2
    <3>2. Installed(tail[p])'
      BY <1>7, <2>1, <3>1 DEF Installed
    <3> QED
      BY <2>1, <3>1, <3>2 DEF Copies
  <2>3. CASE ~(k < Len(lh))
    <3>1. pc'[p] = next /\ Len(lh') = k
      BY <1>1, <2>3, SMTT(20)
    <3>2. Installed(Len(lh))'
      BY <1>7, <2>1, <3>1 DEF Installed
    <3> QED
      BY <2>1, <3>1, <3>2 DEF Copies
  <2> QED
    BY <2>2, <2>3
<1>10. Headers'
  <2>1. pc'[p] \in {"install", "clear"} \cup RecoveryPCs
    BY <1>1 DEF RecoveryPCs
  <2> QED
    BY <1>1, <2>1, SMTT(20) DEF DataInv, Headers, Distinct
<1>11. Buffers'
  <2>1. \A q \in Proc : pc'[q] \notin HoldPCs
    BY <1>1 DEF HoldPCs, InOpPCs
  <2>2. dirty \subseteq Blocks
    BY <1>2 DEF TypeOK
  <2>3. \A b \in dirty' : cache'[b] # NotCached
    BY <1>1, <2>2 DEF DataInv, Buffers
  <2>4. \A b \in Blocks \ dirty' : cache'[b] \in {NotCached, disk'[b]}
    BY <1>1 DEF DataInv, Buffers
  <2> QED
    BY <1>1, <2>1, <2>3, <2>4, BuffersAlone
<1> QED
  BY <1>8, <1>9, <1>10, <1>11 DEF DataInv

\* The header is erased, after a commit or at the end of recovery.
LEMMA ClearData ==
  ASSUME LogInv, DataInv, NEW p \in Proc, ClearHead(p) \/ RecoverClear(p)
  PROVE  DataInv'
<1>1. /\ pc[p] \in {"clear", "r_clear"} /\ lh' = <<>> /\ dhead' = <<>>
      /\ UNCHANGED <<disk, dlog, cache, dirty, busy>>
  BY DEF ClearHead, RecoverClear, bcache
<1>2. /\ busy = {}
      /\ pc[p] = "clear" => \A q \in Proc \ {p} : pc[q] \in OutsidePCs
  BY <1>1, NobodyHolds DEF CommitPCs, RecoveryPCs
<1>3. ASSUME NEW q \in Proc PROVE pc'[q] \in OutsidePCs \cup {"done"}
  BY <1>1, <1>2 DEF ClearHead, RecoverClear, Goto, LogInv, TypeOK, OutsidePCs
<1>4. ASSUME NEW q \in Proc
      PROVE  /\ Copies(q)' /\ pc'[q] \notin HoldPCs
             /\ pc'[q] \notin {"install", "clear", "r_install", "r_clear"}
  <2>1. CASE pc'[q] \in OutsidePCs
    BY <2>1, OutsidersCopyNothing
  <2>2. CASE pc'[q] = "done"
    BY <2>2 DEF Copies, HoldPCs, InOpPCs
  <2> QED
    BY <1>3, <2>1, <2>2
<1>5. Headers'
  BY <1>1, <1>4, SMTT(20) DEF Headers, Distinct
<1>6. Buffers'
  BY <1>1, <1>2, <1>4, BuffersAlone DEF DataInv, Buffers
<1> QED
  BY <1>4, <1>5, <1>6 DEF DataInv

\* A recycled buffer had what the disk has.
LEMMA EvictData ==
  ASSUME LogInv, DataInv, NEW b \in Blocks, Evict(b)
  PROVE  DataInv' /\ \A c \in Blocks : Bread(c)' = Bread(c)
<1>1. /\ b \notin dirty \cup busy /\ cache'[b] = NotCached
      /\ \A c \in Blocks \ {b} : cache'[c] = cache[c]
      /\ UNCHANGED <<disk, dlog, dhead, dirty, busy, lh, pc, buf, tail>> /\ TypeOK
  BY DEF Evict, diskside, logstate, locals, LogInv, TypeOK
<1>2. cache[b] \in {NotCached, disk[b]}
  BY <1>1 DEF DataInv, Buffers
<1>3. \A c \in Blocks : Bread(c)' = Bread(c)
  BY <1>1, <1>2 DEF Bread
<1>4. Headers'
  BY <1>1, SMTT(20) DEF DataInv, Headers, Distinct
<1>5. Buffers'
  <2>1. dirty \subseteq Blocks /\ busy \subseteq Blocks
    BY <1>1 DEF TypeOK
  <2>2. \A c \in dirty \cup busy : cache'[c] # NotCached
    BY <1>1, <2>1 DEF DataInv, Buffers
  <2>3. \A c \in Blocks \ (dirty \cup busy) : cache'[c] \in {NotCached, disk[c]}
    BY <1>1 DEF DataInv, Buffers
  <2> QED
    BY <1>1, <2>2, <2>3 DEF DataInv, Buffers
<1>6. ASSUME NEW q \in Proc PROVE Copies(q)'
  <2>1. /\ Loops(q) /\ Copies(q) /\ tail[q] \in Nat /\ Len(lh) \in Nat
        /\ \A i \in 1..Len(lh) : Bread(lh[i])' = Bread(lh[i])
    <3>1. \A i \in 1..Len(lh) : lh[i] \in Blocks /\ lh'[i] = lh[i]
      BY <1>1, SMTT(20) DEF TypeOK
    <3>2. \A i \in 1..Len(lh) : Bread(lh[i])' = Bread(lh[i])
      BY <1>1, <1>2, <3>1, ZenonT(30) DEF Bread
    <3> QED
      BY <1>1, <3>2, SMTT(20) DEF LogInv, DataInv, TypeOK
  <2>2. /\ pc[q] = "write_log" /\ Logged(tail[q]) => Logged(tail[q])'
        /\ Logged(Len(lh)) => Logged(Len(lh))'
    BY <1>1, <2>1, SMTT(20) DEF Logged, Loops
  <2>3. /\ Installed(tail[q]) => Installed(tail[q])'
        /\ Installed(Len(lh)) => Installed(Len(lh))'
    BY <1>1 DEF Installed
  <2> QED
    BY <1>1, <2>1, <2>2, <2>3 DEF Copies
<1> QED
  BY <1>3, <1>4, <1>5, <1>6 DEF DataInv

\* Power loss: memory is empty, the disk is as it is.
LEMMA CrashData ==
  ASSUME DataInv, Crash
  PROVE  DataInv'
<1>1. /\ \E p \in Proc : TRUE
      /\ \A q \in Proc : pc'[q] = "down"
      /\ lh' = <<>> /\ dhead' = dhead /\ busy' = {} /\ dirty' = {}
      /\ \A b \in Blocks : cache'[b] = NotCached
  BY DEF Crash, diskside
<1>2. Headers'
  BY <1>1, SMTT(20) DEF DataInv, Headers, Distinct, RecoveryPCs
<1>3. Buffers'
  BY <1>1, BuffersAlone DEF HoldPCs, InOpPCs
<1>4. \A q \in Proc : Copies(q)'
  BY <1>1 DEF Copies
<1> QED
  BY <1>2, <1>3, <1>4 DEF DataInv

\* Recovery reads the header.
LEMMA InitLogData ==
  ASSUME LogInv, DataInv, NEW p \in Proc, InitLog(p)
  PROVE  DataInv'
<1>1. /\ \A q \in Proc : pc[q] = "down" /\ tail'[q] = 0
      /\ lh' = dhead /\ UNCHANGED <<disk, dlog, dhead, cache, dirty, busy>>
      /\ pc'[p] = IF dhead = <<>> THEN "r_clear" ELSE "r_install"
      /\ \A q \in Proc \ {p} : pc'[q] = "down"
  BY DEF InitLog, Goto, LogInv, TypeOK, Loops, diskside, bcache, locals
<1>2. busy = {}
  BY <1>1 DEF DataInv, Buffers, HoldPCs, InOpPCs
<1>3. \A q \in Proc : pc'[q] \in RecoveryPCs /\ pc'[q] \notin HoldPCs
  BY <1>1, ZenonT(30) DEF RecoveryPCs, HoldPCs, InOpPCs
<1>4. Headers'
  <2>1. lh' = dhead /\ dhead' = dhead /\ Distinct(dhead)
    BY <1>1 DEF DataInv, Headers
  <2>2. Distinct(lh)' /\ Distinct(dhead)'
    BY <2>1 DEF Distinct
  <2>3. p \in Proc /\ pc'[p] \in RecoveryPCs
    BY <1>3
  <2> QED
    BY <2>1, <2>2, <2>3 DEF Headers
<1>5. Buffers'
  BY <1>1, <1>2, <1>3, BuffersAlone DEF DataInv, Buffers
<1>6. ASSUME NEW q \in Proc PROVE Copies(q)'
  <2>1. Installed(tail[q])' /\ (dhead = <<>> => Installed(Len(lh))')
    BY <1>1, SMTT(20) DEF Installed
  <2> QED
    BY <1>1, <2>1 DEF Copies
<1> QED
  BY <1>4, <1>5, <1>6 DEF DataInv

\* The invariant of the data is inductive, too.
LEMMA DataStep == LogInv /\ LogInv' /\ DataInv /\ [Next]_vars => DataInv'
<1> SUFFICES ASSUME LogInv, LogInv', DataInv, [Next]_vars PROVE DataInv'
  OBVIOUS
<1>1. CASE UNCHANGED vars
  <2>1. \A q \in Proc : pc'[q] = pc[q] /\ tail'[q] = tail[q]
    BY <1>1 DEF vars
  <2> QED
    BY <1>1, <2>1, DataQuiet DEF vars
<1>2. ASSUME NEW p \in Proc,
             \/ BeginOpSleep(p) \/ BeginOpEnter(p) \/ LogWriteCheck(p)
             \/ EndOp(p) \/ Commit(p) \/ CommitDone(p)
      PROVE  DataInv'
  BY <1>2, QuietData, Zenon
<1>3. ASSUME NEW p \in Proc, NEW b \in Blocks, NEW v \in Vals, ModifyBuf(p, b, v)
      PROVE  DataInv'
  BY <1>3, ModifyData
<1>4. ASSUME NEW p \in Proc, LogWriteAppend(p) \/ WriteLog(p) \/ WriteHead(p)
      PROVE  DataInv'
  BY <1>4, AppendData, WriteLogData, WriteHeadData
<1>5. ASSUME NEW p \in Proc, InstallTrans(p) \/ RecoverInstall(p) PROVE DataInv'
  <2>1. CASE InstallBlock(p, "install", "clear")
    BY <2>1, InstallData, SMTT(20)
  <2>2. CASE InstallBlock(p, "r_install", "r_clear")
    BY <2>2, InstallData, SMTT(20)
  <2> QED
    BY <1>5, <2>1, <2>2 DEF InstallTrans, RecoverInstall
<1>6. ASSUME NEW p \in Proc, ClearHead(p) \/ RecoverClear(p) \/ InitLog(p) PROVE DataInv'
  BY <1>6, ClearData, InitLogData
<1>7. ASSUME NEW b \in Blocks, Evict(b) PROVE DataInv'
  BY <1>7, EvictData
<1>8. CASE Crash
  BY <1>8, CrashData
<1> QED
  BY <1>1, <1>2, <1>3, <1>4, <1>5, <1>6, <1>7, <1>8, Zenon DEF Next

\* It holds before the first boot.
LEMMA InitData == Init => DataInv
<1> SUFFICES ASSUME Init PROVE DataInv
  OBVIOUS
<1>1. Headers
  BY SMTT(20) DEF Init, Headers, Distinct
<1>2. Buffers
  BY DEF Init, Buffers, HoldPCs, InOpPCs
<1>3. \A p \in Proc : Copies(p)
  BY DEF Init, Copies
<1> QED
  BY <1>1, <1>2, <1>3 DEF DataInv

\* Every reachable state satisfies both.
THEOREM LogInvariant == Spec => [](LogInv /\ DataInv)
  BY InitInv, NextInv, InitData, DataStep, PTL DEF Spec

-----------------------------------------------------------------------------
(* The log implements a disk with atomic operations *)

\* What operations read: the buffers, or what recovery will make of the disk.
View == IF Up THEN [b \in Blocks |-> Bread(b)] ELSE Recovered

\* Recovery puts at home what the header lists, and leaves the rest alone.
Recovery ==
  /\ \A i \in 1..Len(dhead) : dhead[i] \in Blocks /\ Recovered[dhead[i]] = dlog[i]
  /\ \A b \in Blocks : (\A i \in 1..Len(dhead) : dhead[i] # b) => Recovered[b] = disk[b]
  /\ Recovered = [b \in Blocks |-> Recovered[b]]

\* That no header lists a block twice makes this well defined.
LEMMA RecoveryRule == LogInv /\ DataInv => Recovery
<1> SUFFICES ASSUME LogInv, DataInv PROVE Recovery
  OBVIOUS
<1>1. dhead \in Seq(Blocks) /\ Distinct(dhead)
  BY DEF LogInv, TypeOK, DataInv, Headers
<1>2. Range(dhead) = {dhead[i] : i \in 1..Len(dhead)}
  BY <1>1, SMTT(20) DEF Range
<1>3. ASSUME NEW i \in 1..Len(dhead) PROVE dhead[i] \in Blocks /\ Recovered[dhead[i]] = dlog[i]
  <2>1. dhead[i] \in Blocks /\ dhead[i] \in Range(dhead)
    BY <1>1, <1>2, SMTT(20)
  <2>2. (CHOOSE j \in 1..Len(dhead) : dhead[j] = dhead[i]) = i
    BY <1>1 DEF Distinct
  <2> QED
    BY <2>1, <2>2 DEF Recovered
<1>4. ASSUME NEW b \in Blocks, \A i \in 1..Len(dhead) : dhead[i] # b
      PROVE  Recovered[b] = disk[b]
  BY <1>2, <1>4 DEF Recovered
<1>5. Recovered = [b \in Blocks |-> Recovered[b]]
  BY SMTT(20) DEF Recovered
<1> QED
  BY <1>3, <1>4, <1>5 DEF Recovery

\* And after a step.
LEMMA NextRecovery == LogInv' /\ DataInv' => Recovery'
  BY RecoveryRule, PTL

\* Nothing changes for recovery when the header is the same and only blocks it
\* lists change at home.
LEMMA RecoveredStays ==
  ASSUME Recovery, Recovery', dhead' = dhead,
         \A i \in 1..Len(dhead) : dlog'[i] = dlog[i],
         \A b \in Blocks : (\A i \in 1..Len(dhead) : dhead[i] # b) => disk'[b] = disk[b]
  PROVE  Recovered' = Recovered
<1>1. ASSUME NEW b \in Blocks PROVE Recovered'[b] = Recovered[b]
  <2>1. CASE \E i \in 1..Len(dhead) : dhead[i] = b
    BY <2>1, SMTT(20) DEF Recovery
  <2>2. CASE \A i \in 1..Len(dhead) : dhead[i] # b
    BY <2>2 DEF Recovery
  <2> QED
    BY <2>1, <2>2
<1>2. Recovered = [b \in Blocks |-> Recovered[b]] /\ Recovered' = [b \in Blocks |-> Recovered'[b]]
  BY DEF Recovery
<1> HIDE DEF Recovered
<1> QED
  BY <1>1, <1>2

\* The steps of AtomicDisk.tla.
LEMMA AbstractLogSteps ==
  ASSUME NEW p \in Proc, NEW b \in Blocks, NEW v \in Vals
  PROVE  /\ Recovered' = Recovered /\ View' = View /\ InOp' = InOp => UNCHANGED AD!diskvars
         /\ /\ p \notin InOp /\ InOp' = InOp \cup {p}
            /\ Recovered' = Recovered /\ View' = View
            => AD!Next
         /\ /\ p \in InOp /\ InOp' = InOp \ {p}
            /\ Recovered' = Recovered /\ View' = View
            => AD!Next
         /\ /\ p \in InOp /\ View' = [View EXCEPT ![b] = v]
            /\ Recovered' = Recovered /\ InOp' = InOp
            => AD!Next
<1>1. ASSUME Recovered' = Recovered, View' = View, InOp' = InOp PROVE UNCHANGED AD!diskvars
  BY <1>1 DEF AD!diskvars, View, InOp
<1>2. ASSUME p \notin InOp, InOp' = InOp \cup {p}, Recovered' = Recovered, View' = View
      PROVE  AD!Next
  <2>1. AD!Begin(p)
    BY <1>2 DEF AD!Begin, View, InOp
  <2> QED
    BY <2>1 DEF AD!Next
<1>3. ASSUME p \in InOp, InOp' = InOp \ {p}, Recovered' = Recovered, View' = View
      PROVE  AD!Next
  <2>1. AD!End(p)
    BY <1>3 DEF AD!End, View, InOp
  <2> QED
    BY <2>1 DEF AD!Next
<1>4. ASSUME p \in InOp, View' = [View EXCEPT ![b] = v], Recovered' = Recovered, InOp' = InOp
      PROVE  AD!Next
  <2>1. AD!Write(p, b, v)
    BY <1>4 DEF AD!Write, View, InOp
  <2> QED
    BY <2>1 DEF AD!Next
<1> QED
  BY <1>1, <1>2, <1>3, <1>4, Zenon

\* The machine is up when any of its processes is.
LEMMA UpIs ==
  ASSUME NEW p \in Proc
  PROVE  /\ Phases => (Up <=> pc[p] \notin RecoveryPCs)
         /\ Phases' => (Up' <=> pc'[p] \notin RecoveryPCs)
BY DEF Phases, Up

\* While the machine stays up, what is read depends on the buffers alone.
LEMMA ViewStays ==
  /\ Up /\ Up' /\ (\A b \in Blocks : Bread(b)' = Bread(b)) => View' = View
  /\ ~Up /\ ~Up' /\ Recovered' = Recovered => View' = View
BY DEF View

\* The locked steps that touch no block, and the copies into the log, which
\* matter to nobody before the header is written.
LEMMA QuietRefines ==
  ASSUME LogInv, LogInv', DataInv, DataInv', NEW p \in Proc,
         \/ BeginOpSleep(p) \/ LogWriteCheck(p) \/ LogWriteAppend(p)
         \/ Commit(p) \/ WriteLog(p) \/ CommitDone(p)
  PROVE  Recovered' = Recovered /\ View' = View /\ InOp' = InOp
<1>1. /\ pc[p] \in {"idle", "retry", "check", "append", "commit", "write_log", "done"}
      /\ UNCHANGED <<disk, dhead, cache>>
  BY DEF BeginOpSleep, LogWriteCheck, LogWriteAppend, Commit, WriteLog, CommitDone,
         diskside, bcache
<1>2. TypeOK /\ Phases /\ Phases' /\ Recovery /\ Recovery'
  BY RecoveryRule, NextRecovery DEF LogInv
<1>3. /\ \A q \in Proc \ {p} : pc'[q] = pc[q] \/ (pc[q] = "sleep" /\ pc'[q] = "retry")
      /\ pc[p] \in {"idle", "retry", "commit", "write_log", "done"} =>
           pc'[p] \in {"sleep", "done", "write_log", "write_head", "idle",
                       "panic: incorrect blockno"}
      /\ pc[p] = "append" => pc'[p] = "op"
      /\ pc[p] = "check" => pc'[p] \in {"append", "panic: too big a transaction",
                                        "panic: outside of trans"}
  <2>1. pc \in [Proc -> PCs]
    BY <1>2 DEF TypeOK
  <2>2. CASE BeginOpSleep(p) \/ LogWriteAppend(p) \/ Commit(p)
    BY <2>1, <2>2 DEF BeginOpSleep, LogWriteAppend, Commit, Goto
  <2>3. CASE LogWriteCheck(p)
    BY <2>1, <2>3 DEF LogWriteCheck, Goto
  <2>4. CASE WriteLog(p)
    BY <2>1, <2>4 DEF WriteLog, Advance, Goto
  <2>5. CASE CommitDone(p)
    BY <2>1, <2>5 DEF CommitDone, GotoAndWakeup
  <2> QED
    BY <2>2, <2>3, <2>4, <2>5
<1>4. \A q \in Proc : pc'[q] # "panic: outside of trans"
  BY <1>2 DEF Phases, InOpPCs, CommitPCs, OutsidePCs, RecoveryPCs
<1>5. \A q \in Proc : pc'[q] \in InOpPCs <=> pc[q] \in InOpPCs
  BY <1>1, <1>3, <1>4 DEF InOpPCs
<1>6. InOp' = InOp
  BY <1>5 DEF InOp
<1>7. Up /\ Up'
  <2>1. pc[p] \notin RecoveryPCs /\ pc'[p] \notin RecoveryPCs
    BY <1>1, <1>3 DEF RecoveryPCs
  <2> QED
    BY <1>2, <2>1, UpIs
<1>8. \A b \in Blocks : Bread(b)' = Bread(b)
  BY <1>1 DEF Bread
<1>9. View' = View
  BY <1>7, <1>8, ViewStays
<1>10. Recovered' = Recovered
  <2>1. CASE WriteLog(p)
    <3>1. dhead = <<>>
      <4>1. \A q \in Proc \ {p} : pc[q] \in OutsidePCs
        BY <2>1, NobodyHolds DEF WriteLog, CommitPCs
      <4>2. \A q \in Proc : pc[q] \notin {"install", "clear"} \cup RecoveryPCs
        BY <2>1, <4>1 DEF WriteLog, OutsidePCs, RecoveryPCs
      <4> QED
        BY <4>2 DEF DataInv, Headers
    <3> QED
      BY <1>1, <1>2, <3>1, RecoveredStays, SMTT(20)
  <2>2. CASE ~WriteLog(p)
    <3>1. dlog' = dlog
      BY <2>2 DEF BeginOpSleep, LogWriteCheck, LogWriteAppend, Commit, CommitDone, diskside
    <3> QED
      BY <1>1, <3>1, SMTT(20) DEF Recovered
  <2> QED
    BY <2>1, <2>2
<1> QED
  BY <1>6, <1>9, <1>10

\* begin_op and end_op begin and end an operation.
LEMMA OpRefines ==
  ASSUME LogInv, LogInv', NEW p \in Proc, NEW b \in Blocks, NEW v \in Vals,
         BeginOpEnter(p) \/ EndOp(p)
  PROVE  AD!Next
<1>1. /\ UNCHANGED <<disk, dlog, dhead, cache>> /\ pc \in [Proc -> PCs]
      /\ Phases /\ Phases'
  BY DEF BeginOpEnter, EndOp, diskside, bcache, LogInv, TypeOK
<1>2. Recovered' = Recovered /\ \A c \in Blocks : Bread(c)' = Bread(c)
  BY <1>1, SMTT(20) DEF Recovered, Bread
<1>3. ASSUME pc[p] \notin RecoveryPCs, pc'[p] \notin RecoveryPCs PROVE View' = View
  <2>1. Up /\ Up'
    BY <1>1, <1>3, UpIs
  <2> QED
    BY <1>2, <2>1, ViewStays
<1>4. CASE BeginOpEnter(p)
  <2>1. /\ pc[p] \in {"idle", "retry"} /\ pc'[p] = "op"
        /\ \A q \in Proc \ {p} : pc'[q] = pc[q]
    BY <1>1, <1>4 DEF BeginOpEnter, Goto
  <2>2. p \notin InOp /\ InOp' = InOp \cup {p}
    BY <2>1 DEF InOp, InOpPCs
  <2>3. View' = View
    BY <1>3, <2>1 DEF RecoveryPCs
  <2> QED
    BY <1>2, <2>2, <2>3, AbstractLogSteps, Zenon
<1>5. CASE EndOp(p)
  <2>1. /\ pc[p] = "op" /\ pc'[p] \in {"panic: log.committing", "commit", "idle"}
        /\ \A q \in Proc \ {p} : pc'[q] = pc[q] \/ (pc[q] = "sleep" /\ pc'[q] = "retry")
    BY <1>1, <1>5 DEF EndOp, Goto, GotoAndWakeup
  <2>2. p \in InOp /\ InOp' = InOp \ {p}
    BY <2>1 DEF InOp, InOpPCs
  <2>3. View' = View
    BY <1>3, <2>1 DEF RecoveryPCs
  <2> QED
    BY <1>2, <2>2, <2>3, AbstractLogSteps, Zenon
<1> QED
  BY <1>4, <1>5

\* The change of a buffer is the write, wherever log_write is.
LEMMA ModifyRefines ==
  ASSUME LogInv, LogInv', NEW p \in Proc, NEW b \in Blocks, NEW v \in Vals,
         ModifyBuf(p, b, v)
  PROVE  AD!Next
<1>1. /\ pc[p] = "op" /\ pc'[p] = "check" /\ \A q \in Proc \ {p} : pc'[q] = pc[q]
      /\ cache'[b] = v /\ \A c \in Blocks \ {b} : cache'[c] = cache[c]
      /\ UNCHANGED <<disk, dlog, dhead>> /\ Phases /\ Phases'
  BY DEF ModifyBuf, Goto, LogInv, TypeOK, diskside
<1>2. Recovered' = Recovered
  BY <1>1, SMTT(20) DEF Recovered
<1>3. Up /\ Up'
  BY <1>1, UpIs DEF RecoveryPCs
<1>4. p \in InOp /\ InOp' = InOp
  BY <1>1 DEF InOp, InOpPCs
<1>5. Bread(b)' = v /\ \A c \in Blocks \ {b} : Bread(c)' = Bread(c)
  BY <1>1, LogAssumption DEF Bread
<1>6. View' = [View EXCEPT ![b] = v]
  <2>1. View = [c \in Blocks |-> Bread(c)] /\ View' = [c \in Blocks |-> Bread(c)']
    BY <1>3 DEF View
  <2> QED
    BY <1>5, <2>1
<1> QED
  BY <1>2, <1>4, <1>6, AbstractLogSteps, Zenon

\* The write of the header commits: the log has every block that differs from
\* what the disk has, and no operation is in progress.
LEMMA WriteHeadRefines ==
  ASSUME LogInv, LogInv', DataInv, DataInv', NEW p \in Proc, WriteHead(p)
  PROVE  AD!Next
<1>1. /\ pc[p] = "write_head" /\ pc'[p] = "install" /\ dhead' = lh
      /\ UNCHANGED <<disk, dlog, cache, dirty, lh>>
      /\ \A q \in Proc \ {p} : pc'[q] = pc[q]
  BY DEF WriteHead, Goto, LogInv, TypeOK, bcache, logstate
<1>2. /\ busy = {} /\ Phases /\ Phases' /\ Recovery /\ Recovery'
      /\ \A q \in Proc \ {p} : pc[q] \in OutsidePCs
  BY <1>1, NobodyHolds, RecoveryRule, NextRecovery DEF CommitPCs, LogInv
<1>3. Up /\ Up'
  BY <1>1, <1>2, UpIs DEF RecoveryPCs
<1>4. InOp = {} /\ InOp' = InOp
  BY <1>1, <1>2 DEF InOp, InOpPCs, OutsidePCs
<1>5. \A c \in Blocks : Bread(c)' = Bread(c)
  BY <1>1 DEF Bread
<1>6. View = [c \in Blocks |-> Bread(c)] /\ View' = View
  BY <1>3, <1>5, ViewStays DEF View
<1>7. ASSUME NEW c \in Blocks PROVE Recovered'[c] = Bread(c)
  <2>1. CASE \E i \in 1..Len(lh) : lh[i] = c
    <3>1. PICK i \in 1..Len(lh) : lh[i] = c
      BY <2>1
    <3>2. Recovered'[c] = dlog[i]
      BY <1>1, <1>2, <3>1 DEF Recovery
    <3>3. dlog[i] = Bread(lh[i])
      BY <1>1 DEF DataInv, Copies, Logged
    <3> QED
      BY <3>1, <3>2, <3>3
  <2>2. CASE \A i \in 1..Len(lh) : lh[i] # c
    <3>1. Recovered'[c] = disk[c]
      BY <1>1, <1>2, <2>2 DEF Recovery
    <3>2. c \notin dirty
      <4>1. Range(lh) = dirty /\ lh \in Seq(Blocks)
        BY <1>1 DEF LogInv, Pinned, LoggedPCs, TypeOK
      <4> QED
        BY <2>2, <4>1, SMTT(20) DEF Range
    <3>3. cache[c] \in {NotCached, disk[c]}
      BY <1>2, <3>2 DEF DataInv, Buffers
    <3> QED
      BY <3>1, <3>3 DEF Bread
  <2> QED
    BY <2>1, <2>2
<1>8. Recovered' = View
  <2>1. Recovered' = [c \in Blocks |-> Recovered'[c]]
    BY <1>2 DEF Recovery
  <2> QED
    BY <1>6, <1>7, <2>1, Zenon
<1>9. AD!Commit
  BY <1>4, <1>6, <1>8 DEF AD!Commit, View, InOp
<1> QED
  BY <1>9 DEF AD!Next

\* install_trans, in commit() or in recovery, changes only what the header lists.
LEMMA InstallRefines ==
  ASSUME LogInv, LogInv', DataInv, DataInv', NEW p \in Proc, NEW here, NEW next,
         <<here, next>> \in {<<"install", "clear">>, <<"r_install", "r_clear">>},
         InstallBlock(p, here, next)
  PROVE  Recovered' = Recovered /\ View' = View /\ InOp' = InOp
<1>1. PICK k \in 1..Len(lh) :
        /\ lh[k] \in Blocks /\ dlog[k] \in Vals /\ pc[p] = here /\ dhead = lh
        /\ \A c \in Blocks \ {lh[k]} : disk'[c] = disk[c]
        /\ cache'[lh[k]] = dlog[k] /\ \A c \in Blocks \ {lh[k]} : cache'[c] = cache[c]
        /\ UNCHANGED <<dlog, dhead>>
        /\ \A q \in Proc \ {p} : pc'[q] = pc[q]
        /\ pc'[p] \in {here, next}
  BY InstallEffect, SMTT(20)
<1>2. Phases /\ Phases' /\ Recovery /\ Recovery'
  BY RecoveryRule, NextRecovery DEF LogInv
<1>3. Recovered' = Recovered
  BY <1>1, <1>2, RecoveredStays
<1>4. InOp' = InOp
  BY <1>1 DEF InOp, InOpPCs
<1>5. View' = View
  <2>1. CASE here = "install"
    <3>1. Up /\ Up'
      BY <1>1, <1>2, <2>1, UpIs DEF RecoveryPCs
    <3>2. Bread(lh[k]) = dlog[k]
      BY <1>1, <2>1 DEF DataInv, Copies, Logged
    <3>3. \A c \in Blocks : Bread(c)' = Bread(c)
      BY <1>1, <3>2, LogAssumption DEF Bread
    <3> QED
      BY <3>1, <3>3, ViewStays
  <2>2. CASE here = "r_install"
    <3>1. ~Up /\ ~Up'
      BY <1>1, <1>2, <2>2, UpIs DEF RecoveryPCs
    <3> QED
      BY <1>3, <3>1, ViewStays
  <2> QED
    BY <2>1, <2>2
<1> QED
  BY <1>3, <1>4, <1>5

\* The header is erased when everything it lists is at home.
LEMMA ClearRefines ==
  ASSUME LogInv, LogInv', DataInv, DataInv', NEW p \in Proc, ClearHead(p) \/ RecoverClear(p)
  PROVE  Recovered' = Recovered /\ View' = View /\ InOp' = InOp
<1>1. /\ pc[p] \in {"clear", "r_clear"} /\ dhead' = <<>>
      /\ UNCHANGED <<disk, dlog, cache, dirty, busy>>
  BY DEF ClearHead, RecoverClear, bcache
<1>2. /\ Phases /\ Phases' /\ Recovery /\ Recovery' /\ pc \in [Proc -> PCs]
      /\ dirty = {} /\ busy = {}
      /\ pc[p] = "clear" => \A q \in Proc \ {p} : pc[q] \in OutsidePCs
      /\ pc[p] = "r_clear" => \A q \in Proc : pc[q] \in RecoveryPCs
  BY <1>1, RecoveryRule, NextRecovery, NobodyHolds
     DEF LogInv, TypeOK, Pinned, CommitPCs, RecoveryPCs
<1>3. ASSUME NEW b \in Blocks PROVE Recovered'[b] = disk[b] /\ Recovered[b] = disk[b]
  <2>1. Recovered'[b] = disk[b]
    BY <1>1, <1>2, SMTT(20) DEF Recovery
  <2>2. dhead = lh /\ \A i \in 1..Len(lh) : disk[lh[i]] = dlog[i]
    BY <1>1 DEF DataInv, Headers, Copies, Installed
  <2>3. CASE \E i \in 1..Len(dhead) : dhead[i] = b
    BY <1>2, <2>1, <2>2, <2>3, SMTT(20) DEF Recovery
  <2>4. CASE \A i \in 1..Len(dhead) : dhead[i] # b
    BY <1>2, <2>1, <2>4 DEF Recovery
  <2> QED
    BY <2>3, <2>4
<1>4. /\ Recovered' = Recovered
      /\ Recovered = [b \in Blocks |-> disk[b]]
  <2>1. Recovered = [b \in Blocks |-> Recovered[b]] /\ Recovered' = [b \in Blocks |-> Recovered'[b]]
    BY <1>2 DEF Recovery
  <2>2. Recovered = [b \in Blocks |-> disk[b]]
    BY <1>3, <2>1, Zenon
  <2>3. Recovered' = [b \in Blocks |-> disk[b]]
    BY <1>3, <2>1, Zenon
  <2> QED
    BY <2>2, <2>3
<1>5. \A b \in Blocks : Bread(b) = disk[b] /\ Bread(b)' = disk[b]
  BY <1>1, <1>2 DEF DataInv, Buffers, Bread
<1>6. CASE ClearHead(p)
  <2>1. pc[p] = "clear" /\ pc'[p] = "done" /\ \A q \in Proc \ {p} : pc'[q] = pc[q]
    BY <1>2, <1>6 DEF ClearHead, Goto
  <2>2. InOp' = InOp
    BY <2>1 DEF InOp, InOpPCs
  <2>3. Up /\ Up'
    BY <1>2, <2>1, UpIs DEF RecoveryPCs
  <2>4. View' = View
    BY <1>5, <2>3, ViewStays
  <2> QED
    BY <1>4, <2>2, <2>4
<1>7. CASE RecoverClear(p)
  <2>1. pc[p] = "r_clear" /\ \A q \in Proc : pc'[q] = "idle"
    BY <1>7 DEF RecoverClear
  <2>2. InOp' = InOp
    BY <1>2, <2>1 DEF InOp, InOpPCs, RecoveryPCs
  <2>3. ~Up /\ Up'
    BY <1>2, <2>1, UpIs DEF RecoveryPCs
  <2>4. View = Recovered /\ View' = [b \in Blocks |-> Bread(b)']
    BY <2>3 DEF View
  <2>5. View' = [b \in Blocks |-> disk[b]]
    BY <1>5, <2>4
  <2> QED
    BY <1>4, <2>2, <2>4, <2>5
<1> QED
  BY <1>6, <1>7

\* Recycling changes nothing that is read, and reading the header nothing at all.
LEMMA EvictRefines ==
  ASSUME LogInv, DataInv, (\E b \in Blocks : Evict(b)) \/ (\E p \in Proc : InitLog(p))
  PROVE  Recovered' = Recovered /\ View' = View /\ InOp' = InOp
<1>1. CASE \E b \in Blocks : Evict(b)
  <2>1. /\ UNCHANGED <<disk, dlog, dhead, pc>>
        /\ \A c \in Blocks : Bread(c)' = Bread(c)
    BY <1>1, EvictData DEF Evict, diskside
  <2>2. Recovered' = Recovered /\ InOp' = InOp /\ (Up' <=> Up)
    BY <2>1, SMTT(20) DEF Recovered, InOp, Up
  <2>3. View' = View
    BY <2>1, <2>2, ViewStays, Zenon
  <2> QED
    BY <2>2, <2>3
<1>2. CASE \E p \in Proc : InitLog(p)
  <2>1. PICK p \in Proc : InitLog(p)
    BY <1>2
  <2>2. /\ UNCHANGED <<disk, dlog, dhead>>
        /\ \A q \in Proc : pc[q] = "down" /\ pc'[q] \in {"down", "r_clear", "r_install"}
    BY <2>1 DEF InitLog, Goto, diskside, LogInv, TypeOK
  <2>3. Recovered' = Recovered /\ InOp' = InOp /\ ~Up /\ ~Up'
    <3>1. Recovered' = Recovered
      BY <2>2, SMTT(20) DEF Recovered
    <3>2. InOp' = InOp
      BY <2>2 DEF InOp, InOpPCs
    <3>3. ~Up /\ ~Up'
      BY <2>2 DEF Up, RecoveryPCs
    <3> QED
      BY <3>1, <3>2, <3>3
  <2> QED
    BY <2>3, ViewStays
<1> QED
  BY <1>1, <1>2

\* Power loss throws away what is not in the log, and with it the operations.
LEMMA CrashRefines ==
  ASSUME LogInv, Crash
  PROVE  AD!Next
<1>1. /\ \E p \in Proc : TRUE
      /\ \A q \in Proc : pc'[q] = "down"
      /\ UNCHANGED <<disk, dlog, dhead>>
  BY DEF Crash, diskside
<1>2. Recovered' = Recovered /\ InOp' = {} /\ ~Up'
  <2>1. Recovered' = Recovered
    BY <1>1, SMTT(20) DEF Recovered
  <2>2. InOp' = {}
    BY <1>1 DEF InOp, InOpPCs
  <2>3. ~Up'
    BY <1>1 DEF Up, RecoveryPCs
  <2> QED
    BY <2>1, <2>2, <2>3
<1>3. View' = Recovered
  BY <1>2 DEF View
<1>4. AD!Crash
  BY <1>2, <1>3 DEF AD!Crash, View, InOp
<1> QED
  BY <1>4 DEF AD!Next

\* Every step of log.c is a step of AtomicDisk.tla or changes nothing there.
LEMMA StepRefines ==
  ASSUME LogInv, LogInv', DataInv, DataInv', [Next]_vars
  PROVE  [AD!Next]_(AD!diskvars)
<1>1. ASSUME Recovered' = Recovered, View' = View, InOp' = InOp PROVE UNCHANGED AD!diskvars
  BY <1>1 DEF AD!diskvars, View, InOp
<1>2. CASE UNCHANGED vars
  <2>1. Recovered' = Recovered /\ InOp' = InOp /\ (Up' <=> Up)
    BY <1>2, SMTT(20) DEF vars, Recovered, InOp, Up
  <2>2. \A b \in Blocks : Bread(b)' = Bread(b)
    BY <1>2 DEF vars, Bread
  <2>3. View' = View
    BY <2>1, <2>2, ViewStays, Zenon
  <2> QED
    BY <1>1, <2>1, <2>3
<1>3. ASSUME NEW p \in Proc, NEW b \in Blocks, NEW v \in Vals, ModifyBuf(p, b, v)
      PROVE  AD!Next
  BY <1>3, ModifyRefines
<1>4. ASSUME NEW p \in Proc, BeginOpEnter(p) \/ EndOp(p) PROVE AD!Next
  <2>1. buf[p] \in Blocks /\ disk[buf[p]] \in Vals
    BY DEF LogInv, TypeOK
  <2> QED
    BY <1>4, <2>1, OpRefines
<1>5. ASSUME NEW p \in Proc,
             \/ BeginOpSleep(p) \/ LogWriteCheck(p) \/ LogWriteAppend(p)
             \/ Commit(p) \/ WriteLog(p) \/ CommitDone(p)
      PROVE  UNCHANGED AD!diskvars
  <2>1. Recovered' = Recovered /\ View' = View /\ InOp' = InOp
    BY <1>5, QuietRefines, Zenon
  <2> QED
    BY <1>1, <2>1
<1>6. ASSUME NEW p \in Proc, WriteHead(p) PROVE AD!Next
  BY <1>6, WriteHeadRefines
<1>7. ASSUME NEW p \in Proc, InstallTrans(p) \/ RecoverInstall(p) PROVE UNCHANGED AD!diskvars
  <2>1. CASE InstallBlock(p, "install", "clear")
    <3>1. Recovered' = Recovered /\ View' = View /\ InOp' = InOp
      BY <2>1, InstallRefines, SMTT(20)
    <3> QED
      BY <1>1, <3>1
  <2>2. CASE InstallBlock(p, "r_install", "r_clear")
    <3>1. Recovered' = Recovered /\ View' = View /\ InOp' = InOp
      BY <2>2, InstallRefines, SMTT(20)
    <3> QED
      BY <1>1, <3>1
  <2> QED
    BY <1>7, <2>1, <2>2 DEF InstallTrans, RecoverInstall
<1>8. ASSUME NEW p \in Proc, ClearHead(p) \/ RecoverClear(p) PROVE UNCHANGED AD!diskvars
  <2>1. Recovered' = Recovered /\ View' = View /\ InOp' = InOp
    BY <1>8, ClearRefines
  <2> QED
    BY <1>1, <2>1
<1>9. CASE (\E b \in Blocks : Evict(b)) \/ (\E p \in Proc : InitLog(p))
  <2>1. Recovered' = Recovered /\ View' = View /\ InOp' = InOp
    BY <1>9, EvictRefines, Zenon
  <2> QED
    BY <1>1, <2>1
<1>10. CASE Crash
  BY <1>10, CrashRefines
<1> QED
  BY <1>2, <1>3, <1>4, <1>5, <1>6, <1>7, <1>8, <1>9, <1>10, Zenon DEF Next

\* log.c implements a disk with atomic operations, for any number of processes,
\* blocks and log blocks and wherever power is lost, in commit() or in recovery:
\* what is recovered is what complete operations wrote.
THEOREM LogIsAtomic == Spec => AtomicTransactions
<1>1. Init => AD!Init
  <2> SUFFICES ASSUME Init PROVE AD!Init
    OBVIOUS
  <2>1. Recovery /\ LogInv
    BY InitInv, InitData, RecoveryRule
  <2>2. dhead = <<>> /\ disk \in [Blocks -> Vals]
    BY <2>1 DEF Init, LogInv, TypeOK
  <2>3. \A b \in Blocks : Recovered[b] = disk[b] /\ Bread(b) = disk[b]
    BY <2>1, <2>2, SMTT(20) DEF Recovery, Init, Bread
  <2>4. Recovered = [b \in Blocks |-> disk[b]]
    <3>1. Recovered = [b \in Blocks |-> Recovered[b]]
      BY <2>1 DEF Recovery
    <3> QED
      BY <2>3, <3>1, Zenon
  <2>5. View = Recovered
    <3>1. [b \in Blocks |-> Bread(b)] = Recovered
      BY <2>3, <2>4
    <3> QED
      BY <3>1 DEF View
  <2>6. InOp = {}
    BY DEF Init, InOp, InOpPCs
  <2>7. Recovered \in [Blocks -> Vals]
    BY <2>2, <2>4
  <2> QED
    BY <2>5, <2>6, <2>7 DEF AD!Init, View, InOp
<1>2. LogInv /\ LogInv' /\ DataInv /\ DataInv' /\ [Next]_vars => [AD!Next]_(AD!diskvars)
  BY StepRefines
<1> QED
  BY <1>1, <1>2, LogInvariant, PTL DEF Spec, AtomicTransactions, AD!Spec

\* Once the last end_op has returned, everything written is stable and nothing is
\* pinned.
THEOREM QuietIsDurable == Spec => []DurableWhenQuiet
<1>1. LogInv /\ DataInv => DurableWhenQuiet
  <2> SUFFICES ASSUME LogInv, DataInv, Up, outstanding = 0, ~committing
               PROVE  Recovered = [b \in Blocks |-> Bread(b)] /\ dirty = {} /\ lh = <<>>
    BY DEF DurableWhenQuiet
  <2>1. Recovery
    BY RecoveryRule
  <2>2. \A p \in Proc : pc[p] \in OutsidePCs
    <3>1. InOp = {}
      BY InOpFinite, FS_EmptySet DEF LogInv, Phases
    <3> QED
      BY <3>1 DEF LogInv, Phases, Up, InOp
  <2>3. lh = <<>> /\ dirty = {}
    BY <2>2 DEF LogInv, Pinned
  <2>4. busy = {}
    BY <2>2 DEF DataInv, Buffers, HoldPCs, InOpPCs, OutsidePCs
  <2>5. dhead = <<>>
    BY <2>2 DEF DataInv, Headers, OutsidePCs, RecoveryPCs
  <2>6. \A b \in Blocks : Recovered[b] = disk[b] /\ Bread(b) = disk[b]
    BY <2>1, <2>3, <2>4, <2>5, SMTT(20) DEF Recovery, DataInv, Buffers, Bread
  <2>7. Recovered = [b \in Blocks |-> Recovered[b]]
    BY <2>1 DEF Recovery
  <2>8. Recovered = [b \in Blocks |-> Bread(b)]
    <3>1. \A b \in Blocks : Recovered[b] = Bread(b)
      BY <2>6
    <3> QED
      BY <2>7, <3>1, Zenon
  <2> QED
    BY <2>3, <2>8
<1> QED
  BY <1>1, LogInvariant, PTL
=============================================================================
