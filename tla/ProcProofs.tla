----------------------------- MODULE ProcProofs -----------------------------
(***************************************************************************)
(* Proofs about the process table and the schedulers: any number of CPUs,  *)
(* slots, pids and channels.                                               *)
(***************************************************************************)
EXTENDS Proc, TLAPS, FiniteSetTheorems, NaturalsInduction, WellFoundedInduction

\* Zenon is the prover of a leaf that names none; the leaves that need arithmetic or
\* rewriting of functions name SMT.
USE Zenon

-----------------------------------------------------------------------------
(* The inductive invariant *)

\* cpu->proc and p->state agree, and a scan has started at a slot.
OnCpu ==
  /\ \A c \in CPUs : cur[c] # NoProc <=> mode[c] = "run"
  /\ \A c \in CPUs : cur[c] # NoProc => state[cur[c]] = "RUNNING"
  /\ \A s \in Slots : state[s] = "RUNNING" => \E c \in CPUs : cur[c] = s
  /\ \A c, d \in CPUs : cur[c] = cur[d] /\ cur[c] # NoProc => c = d
  /\ \A c \in CPUs : mode[c] = "scan" => pos[c] # 0

\* Where the thread of a slot is, by the slot's state.  init does not exit.
Places ==
  /\ \A s \in Slots :
       /\ state[s] \in {"UNUSED", "EMBRYO", "ZOMBIE"} <=> pc[s] = "none"
       /\ state[s] = "SLEEPING" => \/ pc[s] = "wait" /\ chan[s] = s
                                   \/ pc[s] = "sleep_ret" /\ chan[s] \in Chans
       /\ state[s] = "RUNNING" => pc[s] # "sleep_ret"
  /\ pc[initproc] \notin {"none", "exit"}

ForkPCs == {"fork_kstack", "fork_copy", "fork_run"}
Forking(s) == pc[s] \in ForkPCs

\* A fork in progress owns its EMBRYO slot, and every EMBRYO slot has one owner;
\* only the last of its steps finds the parent set.
Forks ==
  /\ \A s \in Slots : Forking(s) =>
       /\ np[s] \in Slots /\ state[np[s]] = "EMBRYO"
       /\ pc[s] = "fork_run" => parent[np[s]] = s
       /\ pc[s] # "fork_run" => parent[np[s]] = NoProc
  /\ \A s, t \in Slots : Forking(s) /\ Forking(t) /\ np[s] = np[t] => s = t
  /\ \A t \in Slots : state[t] = "EMBRYO" => \E s \in Slots : Forking(s) /\ np[s] = t

\* init has no parent, and nobody is its own.
Lineage ==
  /\ parent[initproc] = NoProc
  /\ \A s \in Slots : parent[s] # s

ProcInv ==
  /\ TypeOK
  /\ OnCpu
  /\ LockHandedOver
  /\ Places
  /\ Forks
  /\ Lineage
  /\ ParentAlive
  /\ NoLostChild

-----------------------------------------------------------------------------
(* Lemmas *)

\* A search of the table from its start finds something in what it looks for.
LEMMA MinIn ==
  ASSUME NEW S \in SUBSET Nat, S # {}
  PROVE  Min(S) \in S
<1>1. \E k \in S : \A j \in S : ~(<<j, k>> \in OpToRel(<, Nat))
  BY NatLessThanWellFounded, WFMin
<1>2. ASSUME NEW j \in Nat, NEW k \in Nat, j < k
      PROVE  <<j, k>> \in OpToRel(<, Nat)
  BY <1>2, Zenon DEF OpToRel
<1>3. PICK k \in S : \A j \in S : ~(<<j, k>> \in OpToRel(<, Nat))
  BY <1>1
<1>4. \A j \in S : ~(j < k)
  BY <1>2, <1>3, Zenon
<1>5. \E x \in S : \A j \in S : x <= j
  BY <1>4, SMTT(20)
<1>6. QED
  BY <1>5 DEF Min

\* The slots are natural numbers, initproc is one and NoProc and the channels
\* are none of them.
LEMMA SlotFacts ==
  /\ Slots \subseteq Nat
  /\ initproc \in Slots
  /\ NoProc \notin Slots
  /\ Chans \cap Slots = {} /\ NoProc \notin Chans
  BY ProcAssumption, SMTT(20) DEF Slots, initproc, NoProc

\* The initial state.
LEMMA InitInv == Init => ProcInv
<1> SUFFICES ASSUME Init PROVE ProcInv
  OBVIOUS
<1>1. TypeOK
  BY SlotFacts, ProcAssumption, SMTT(20) DEF Init, TypeOK, States, PCs, initproc
<1>2. OnCpu
  BY SlotFacts DEF Init, OnCpu
<1>3. LockHandedOver
  BY ProcAssumption DEF Init, LockHandedOver
<1>4. Places
  BY SlotFacts DEF Init, Places
<1>5. Forks
  BY DEF Init, Forks, Forking, ForkPCs
<1>6. Lineage /\ ParentAlive
  BY SlotFacts DEF Init, Lineage, ParentAlive
<1>7. NoLostChild
  BY DEF Init, NoLostChild
<1>8. QED
  BY <1>1, <1>2, <1>3, <1>4, <1>5, <1>6, <1>7 DEF ProcInv

-----------------------------------------------------------------------------
(* What the steps have in common *)

\* The types of the schedulers' variables.
CpuTypes ==
  /\ plock \in CPUs \cup {Free}
  /\ cur \in [CPUs -> Slots \cup {NoProc}]
  /\ mode \in [CPUs -> {"top", "hlt", "irq", "scan", "run"}]
  /\ pos \in [CPUs -> 0..NPROC + 1]

\* sched(): whatever it was doing, the process is not RUNNING when the scheduler
\* has its CPU back, and the others are where they were.
LEMMA SchedLeaves ==
  ASSUME CpuTypes, OnCpu, LockHandedOver,
         NEW c \in CPUs, NEW s \in Slots,
         cur[c] = s, plock \in {Free, c}, Sched(c),
         state'[s] # "RUNNING",
         \A t \in Slots \ {s} : state'[t] = "RUNNING" <=> state[t] = "RUNNING",
         \A t \in Slots \ {s} : pc'[t] = pc[t]
  PROVE  CpuTypes' /\ OnCpu' /\ LockHandedOver'
<1>1. s \in Nat /\ s + 1 \in 0..NPROC + 1 /\ s + 1 # 0
  BY ProcAssumption, SMTT(20) DEF Slots
<1>2. /\ plock' = c
      /\ mode' = [mode EXCEPT ![c] = "scan"]
      /\ pos' = [pos EXCEPT ![c] = s + 1]
      /\ cur' = [cur EXCEPT ![c] = NoProc]
  BY DEF Sched
<1>3. CpuTypes'
  BY <1>1, <1>2 DEF CpuTypes
<1>4. \A d \in CPUs \ {c} : cur'[d] = cur[d] /\ mode'[d] = mode[d] /\ pos'[d] = pos[d]
  BY <1>2 DEF CpuTypes
<1>5. cur'[c] = NoProc /\ mode'[c] = "scan" /\ pos'[c] = s + 1
  BY <1>2 DEF CpuTypes
<1>6. \A d \in CPUs \ {c} : cur[d] # s
  BY SlotFacts, ZenonT(30) DEF OnCpu
<1>7. \A d \in CPUs : cur[d] # NoProc => cur[d] \in Slots
  BY SMTT(20) DEF CpuTypes
<1>8. OnCpu'
  <2>1. \A d \in CPUs : cur'[d] # NoProc <=> mode'[d] = "run"
    BY <1>4, <1>5, SMTT(20) DEF OnCpu
  <2>2. \A d \in CPUs : cur'[d] # NoProc => state'[cur'[d]] = "RUNNING"
    BY <1>4, <1>5, <1>6, <1>7, SMTT(20) DEF OnCpu
  <2>3. ASSUME NEW t \in Slots, state'[t] = "RUNNING"
        PROVE  \E d \in CPUs : cur'[d] = t
    BY <1>4, <2>3, SMTT(20) DEF OnCpu
  <2>4. \A d1, d2 \in CPUs : cur'[d1] = cur'[d2] /\ cur'[d1] # NoProc => d1 = d2
    BY <1>4, <1>5, SMTT(20) DEF OnCpu
  <2>5. \A d \in CPUs : mode'[d] = "scan" => pos'[d] # 0
    BY <1>1, <1>4, <1>5, SMTT(20) DEF OnCpu
  <2>6. QED
    BY <2>1, <2>2, <2>3, <2>4, <2>5 DEF OnCpu
<1>9. \A d \in CPUs \ {c} : plock # d
  BY ProcAssumption
<1>10. \A d \in CPUs \ {c} : mode[d] = "run" => pc'[cur[d]] = pc[cur[d]]
  BY <1>6, <1>7 DEF OnCpu
<1>11. LockHandedOver'
  BY <1>2, <1>4, <1>5, <1>9, <1>10, SMTT(20) DEF LockHandedOver
<1>12. QED
  BY <1>3, <1>8, <1>11

\* A step of a process that keeps its CPU and leaves the others theirs: it
\* releases ptable.lock if it was given it, and is then not in wait()'s loop.
LEMMA StaysOnCpu ==
  ASSUME CpuTypes, OnCpu, LockHandedOver,
         NEW c \in CPUs, NEW s \in Slots,
         cur[c] = s, UNCHANGED <<cur, mode, pos>>,
         plock' = IF plock = c THEN Free ELSE plock,
         \A t \in Slots : state'[t] = "RUNNING" <=> state[t] = "RUNNING",
         pc'[s] # "wait",
         \A t \in Slots \ {s} :
            state[t] = "RUNNING" => (pc'[t] = "wait" <=> pc[t] = "wait")
  PROVE  CpuTypes' /\ OnCpu' /\ LockHandedOver'
<1>1. CpuTypes' /\ OnCpu'
  BY SMTT(20) DEF CpuTypes, OnCpu
<1>2. \A d \in CPUs : mode[d] = "run" => cur[d] \in Slots /\ state[cur[d]] = "RUNNING"
  BY SMTT(20) DEF CpuTypes, OnCpu
<1>3. mode[c] = "run" /\ \A d \in CPUs \ {c} : cur[d] # s
  BY SlotFacts, ZenonT(30) DEF OnCpu
<1>4. (plock' = c) <=> (mode'[c] = "scan" \/ (mode'[c] = "run" /\ pc'[cur'[c]] = "wait"))
  BY <1>3, ProcAssumption
<1>5. ASSUME NEW d \in CPUs \ {c}
      PROVE  (plock' = d) <=> (mode'[d] = "scan" \/ (mode'[d] = "run" /\ pc'[cur'[d]] = "wait"))
  BY <1>2, <1>3, ProcAssumption, SMTT(20) DEF LockHandedOver
<1>6. LockHandedOver'
  BY <1>4, <1>5, SMTT(20) DEF LockHandedOver
<1>7. QED
  BY <1>1, <1>6

\* Steps of a process outside fork leave the forks in progress alone.
LEMMA ForksGoOn ==
  ASSUME TypeOK, Forks, NEW s \in Slots, ~Forking(s), pc'[s] \notin ForkPCs,
         \A t \in Slots \ {s} : pc'[t] = pc[t],
         \A t \in Slots : state'[t] = "EMBRYO" <=> state[t] = "EMBRYO",
         \A t \in Slots : state[t] = "EMBRYO" => parent'[t] = parent[t],
         np' = np
  PROVE  Forks'
  BY SMTT(20) DEF TypeOK, Forks, Forking, ForkPCs

-----------------------------------------------------------------------------
(* The scheduler *)

\* Steps of a scheduler that leave the table and cpu->proc alone.
LEMMA SchedulerKeeps ==
  ASSUME ProcInv, NEW c \in CPUs,
         SchedHlt(c) \/ HltInterrupt(c) \/ SchedAcquire(c) \/ SchedEnd(c)
  PROVE  ProcInv'
<1> USE DEF SchedHlt, HltInterrupt, SchedAcquire, SchedEnd, table, threads
<1>1. 1 \in 0..NPROC + 1 /\ NPROC + 1 \in 0..NPROC + 1
  BY ProcAssumption, SMTT(20)
<1>2. CpuTypes'
  BY <1>1 DEF ProcInv, TypeOK, CpuTypes
<1>3. TypeOK'
  BY <1>2 DEF ProcInv, TypeOK, CpuTypes
<1>4. OnCpu'
  BY SMTT(20) DEF ProcInv, TypeOK, OnCpu
<1>5. LockHandedOver'
  BY ProcAssumption, SMTT(20) DEF ProcInv, TypeOK, LockHandedOver
<1>6. Places' /\ Forks' /\ Lineage' /\ ParentAlive' /\ NoLostChild'
  BY SMTT(20) DEF ProcInv, Places, Forks, Forking, ForkPCs, Lineage, ParentAlive, NoLostChild
<1>7. QED
  BY <1>3, <1>4, <1>5, <1>6 DEF ProcInv

\* scheduler() switches to a process.
LEMMA SchedSwitchKeeps ==
  ASSUME ProcInv, NEW c \in CPUs, SchedSwitch(c)
  PROVE  ProcInv'
<1> DEFINE s == Min(Candidates(c))
<1>1. pos[c] \in Nat \ {0}
  BY SMTT(20) DEF ProcInv, TypeOK, OnCpu, SchedSwitch
<1>2. Candidates(c) \in SUBSET Slots /\ Candidates(c) # {}
  BY <1>1, ProcAssumption, SMTT(20) DEF Candidates, SchedSwitch, Slots
<1>3. s \in Candidates(c)
  BY <1>2, MinIn, SlotFacts
<1>4. s \in Slots /\ state[s] = "RUNNABLE" /\ s # NoProc /\ s \in 0..NPROC + 1
  BY <1>2, <1>3, ProcAssumption, SMTT(20) DEF Candidates, Slots, NoProc
<1> HIDE DEF s
<1>5. /\ mode[c] = "scan"
      /\ state' = [state EXCEPT ![s] = "RUNNING"]
      /\ chan' = [chan EXCEPT ![s] = NoProc]
      /\ pc' = [pc EXCEPT ![s] = IF pc[s] = "sleep_ret" THEN "sleep_check" ELSE pc[s]]
      /\ cur' = [cur EXCEPT ![c] = s]
      /\ mode' = [mode EXCEPT ![c] = "run"]
      /\ pos' = [pos EXCEPT ![c] = s]
      /\ plock' = IF pc[s] = "wait" THEN c ELSE Free
      /\ UNCHANGED <<pid, parent, killed, nextpid, np, asked>>
  BY <1>4 DEF SchedSwitch, s, ProcInv, TypeOK
<1>6. CpuTypes'
  BY <1>4, <1>5 DEF ProcInv, TypeOK, CpuTypes
<1>7. TypeOK'
  BY <1>4, <1>5, <1>6 DEF ProcInv, TypeOK, States, PCs, CpuTypes
<1>8. OnCpu'
  BY <1>4, <1>5, SlotFacts, SMTT(20) DEF ProcInv, TypeOK, OnCpu
<1>9. LockHandedOver'
  BY <1>4, <1>5, SlotFacts, ProcAssumption, SMTT(20) DEF ProcInv, TypeOK, OnCpu, LockHandedOver
<1>10. Places'
  BY <1>4, <1>5, SlotFacts DEF ProcInv, TypeOK, Places
<1>11. Forks'
  BY <1>4, <1>5, SlotFacts, SMTT(20) DEF ProcInv, TypeOK, Forks, Forking, ForkPCs
<1>12. Lineage' /\ ParentAlive' /\ NoLostChild'
  BY <1>4, <1>5, SlotFacts, SMTT(20) DEF ProcInv, TypeOK, Lineage, ParentAlive, NoLostChild
<1>13. QED
  BY <1>7, <1>8, <1>9, <1>10, <1>11, <1>12 DEF ProcInv

\* The process a CPU runs is RUNNING, and the only one that is on this CPU.
LEMMA RunningFacts ==
  ASSUME ProcInv, NEW c \in CPUs, NEW s \in Slots, cur[c] = s
  PROVE  /\ state[s] = "RUNNING" /\ CpuTypes /\ OnCpu /\ LockHandedOver
         /\ pc[s] \notin {"none", "sleep_ret"} /\ mode[c] = "run"
         /\ plock = c => pc[s] = "wait"
  BY SlotFacts, SMTT(20) DEF ProcInv, TypeOK, OnCpu, CpuTypes, Places, LockHandedOver

\* A timer interrupt.
LEMMA YieldKeeps ==
  ASSUME ProcInv, NEW c \in CPUs, NEW s \in Slots, Yield(c, s)
  PROVE  ProcInv'
<1>1. /\ cur[c] = s /\ plock = Free /\ Sched(c)
      /\ state' = [state EXCEPT ![s] = "RUNNABLE"]
      /\ UNCHANGED <<pid, parent, killed, chan, nextpid, pc, np, asked>>
  BY DEF Yield, threads
<1>2. state[s] = "RUNNING" /\ CpuTypes /\ OnCpu /\ LockHandedOver
  BY <1>1, RunningFacts
<1>3. /\ state' \in [Slots -> States] /\ state'[s] = "RUNNABLE"
      /\ \A t \in Slots \ {s} : state'[t] = state[t]
  BY <1>1 DEF ProcInv, TypeOK, States
<1>4. CpuTypes' /\ OnCpu' /\ LockHandedOver'
  BY <1>1, <1>2, <1>3, SchedLeaves
<1>5. TypeOK'
  BY <1>1, <1>3, <1>4 DEF ProcInv, TypeOK, CpuTypes
<1>6. Places'
  BY <1>1, <1>2, <1>3, SlotFacts DEF ProcInv, TypeOK, Places
<1>7. Forks'
  <2>1. Forks /\ state[s] # "EMBRYO" /\ state'[s] # "EMBRYO"
    BY <1>2, <1>3 DEF ProcInv
  <2>2. \A t \in Slots : state'[t] = "EMBRYO" <=> state[t] = "EMBRYO"
    BY <1>3, <2>1
  <2>3. UNCHANGED <<pc, np, parent>>
    BY <1>1
  <2>4. QED
    BY <2>1, <2>2, <2>3 DEF Forks, Forking
<1>8. Lineage' /\ ParentAlive' /\ NoLostChild'
  BY <1>1, <1>2, <1>3, SlotFacts, SMTT(20) DEF ProcInv, TypeOK, Lineage, ParentAlive, NoLostChild
<1>9. QED
  BY <1>4, <1>5, <1>6, <1>7, <1>8 DEF ProcInv

-----------------------------------------------------------------------------
(* sleep, wakeup and kill *)

\* A process goes from one place of its kernel thread to another, and changes
\* nothing else but ptable.lock, which it may release.
LEMMA MoveKeeps ==
  ASSUME ProcInv, NEW c \in CPUs, NEW s \in Slots, cur[c] = s, ~Forking(s),
         pc' \in [Slots -> PCs],
         pc'[s] \in {"user", "sleep_check", "sleep", "exit", "panic: init exiting"},
         pc'[s] = "exit" => s # initproc,
         \A t \in Slots \ {s} : pc'[t] = pc[t],
         plock' = IF plock = c THEN Free ELSE plock,
         UNCHANGED <<state, pid, parent, killed, chan, nextpid, np, cur, mode, pos, asked>>
  PROVE  ProcInv'
<1>1. state[s] = "RUNNING" /\ CpuTypes /\ OnCpu /\ LockHandedOver
  BY RunningFacts
<1>2. CpuTypes' /\ OnCpu' /\ LockHandedOver'
  BY <1>1, StaysOnCpu
<1>3. TypeOK'
  BY <1>2 DEF ProcInv, TypeOK, CpuTypes
<1>4. Places'
  BY <1>1, SlotFacts DEF ProcInv, Places
<1>5. Forks'
  <2>1. TypeOK /\ Forks /\ pc'[s] \notin ForkPCs
    BY DEF ProcInv, ForkPCs
  <2>2. QED
    BY <2>1, ForksGoOn
<1>6. Lineage' /\ ParentAlive' /\ NoLostChild'
  BY <1>1 DEF ProcInv, Lineage, ParentAlive, NoLostChild
<1>7. QED
  BY <1>2, <1>3, <1>4, <1>5, <1>6 DEF ProcInv

\* The start of a system call or of an exit, and the test before sleep().
LEMMA CallsKeep ==
  ASSUME ProcInv, NEW c \in CPUs, NEW s \in Slots,
         ExitCall(c, s) \/ ExitKilled(c, s) \/ SleepCall(c, s) \/ SleepCheck(c, s)
  PROVE  ProcInv'
<1> USE DEF ExitCall, ExitKilled, SleepCall, SleepCheck, Running, GoTo
<1>1. cur[c] = s /\ pc[s] \in {"user", "sleep_check"} /\ ~Forking(s)
  BY DEF Forking, ForkPCs
<1>2. plock # c
  BY <1>1, RunningFacts
<1>3. /\ UNCHANGED <<state, pid, parent, killed, chan, nextpid, np, cur, mode, pos, asked>>
      /\ plock' = IF plock = c THEN Free ELSE plock
  BY <1>2 DEF cpuvars, table
<1>4. PICK w \in {"user", "sleep_check", "sleep", "exit", "panic: init exiting"} :
        (w = "exit" => s # initproc) /\ pc' = [pc EXCEPT ![s] = w]
  OBVIOUS
<1>5. /\ pc' \in [Slots -> PCs] /\ pc'[s] = w
      /\ \A t \in Slots \ {s} : pc'[t] = pc[t]
  BY <1>4 DEF ProcInv, TypeOK, PCs
<1> HIDE DEF ExitCall, ExitKilled, SleepCall, SleepCheck, Running, GoTo
<1>6. QED
  BY <1>1, <1>3, <1>4, <1>5, MoveKeeps

\* Waking sleepers, in wakeup() or kill(), disturbs nothing.
LEMMA WakingKeeps ==
  ASSUME ProcInv, NEW c \in CPUs, NEW s \in Slots, cur[c] = s, pc[s] # "wait",
         state' \in [Slots -> States],
         \A t \in Slots : \/ state'[t] = state[t]
                          \/ state[t] = "SLEEPING" /\ state'[t] = "RUNNABLE",
         killed' \in [Slots -> BOOLEAN],
         asked' \subseteq KillPids,
         UNCHANGED <<pid, parent, chan, nextpid, threads, cpuvars>>
  PROVE  ProcInv'
<1>1. state[s] = "RUNNING" /\ CpuTypes /\ OnCpu /\ LockHandedOver /\ plock # c
  BY RunningFacts
<1>2. UNCHANGED <<pid, parent, chan, nextpid, pc, np, plock, cur, mode, pos>>
  BY DEF threads, cpuvars
<1>3. CpuTypes' /\ OnCpu' /\ LockHandedOver'
  <2>1. \A t \in Slots : state'[t] = "RUNNING" <=> state[t] = "RUNNING"
    OBVIOUS
  <2>2. QED
    BY <1>1, <1>2, <2>1, StaysOnCpu
<1>4. TypeOK'
  BY <1>2, <1>3 DEF ProcInv, TypeOK, CpuTypes
<1>5. Places'
  BY <1>2 DEF ProcInv, Places
<1>6. Forks'
  BY <1>2, SMTT(20) DEF ProcInv, Forks, Forking, ForkPCs
<1>7. Lineage' /\ ParentAlive' /\ NoLostChild'
  BY <1>2, SMTT(20) DEF ProcInv, Lineage, ParentAlive, NoLostChild
<1>8. QED
  BY <1>3, <1>4, <1>5, <1>6, <1>7 DEF ProcInv

\* wakeup()
LEMMA WakeupKeeps ==
  ASSUME ProcInv, NEW c \in CPUs, NEW s \in Slots, NEW ch \in Chans, Wakeup(c, s, ch)
  PROVE  ProcInv'
<1>1. cur[c] = s /\ pc[s] # "wait"
  BY DEF Wakeup, Running
<1>2. /\ state' \in [Slots -> States]
      /\ \A t \in Slots : \/ state'[t] = state[t]
                          \/ state[t] = "SLEEPING" /\ state'[t] = "RUNNABLE"
  <2>1. state' = Wakeup1({ch}) /\ state \in [Slots -> States]
    BY DEF Wakeup, ProcInv, TypeOK
  <2>2. "RUNNABLE" \in States
    BY DEF States
  <2>3. Wakeup1({ch}) \in [Slots -> States]
    BY <2>1, <2>2 DEF Wakeup1
  <2>4. \A t \in Slots : Wakeup1({ch})[t] = IF state[t] = "SLEEPING" /\ chan[t] = ch
                                           THEN "RUNNABLE" ELSE state[t]
    BY DEF Wakeup1
  <2>5. QED
    BY <2>1, <2>3, <2>4
<1>3. /\ killed' \in [Slots -> BOOLEAN] /\ asked' \subseteq KillPids
      /\ UNCHANGED <<pid, parent, chan, nextpid, threads, cpuvars>>
  BY DEF Wakeup, ProcInv, TypeOK
<1>4. QED
  BY <1>1, <1>2, <1>3, WakingKeeps

\* kill()
LEMMA KillKeeps ==
  ASSUME ProcInv, NEW c \in CPUs, NEW s \in Slots, NEW n \in KillPids, Kill(c, s, n)
  PROVE  ProcInv'
<1> DEFINE match == {t \in Slots : pid[t] = n}
           k == Min(match)
<1>1. k \in Slots
  BY MinIn, SlotFacts DEF Kill
<1>2. /\ cur[c] = s /\ pc[s] # "wait"
      /\ killed' = [killed EXCEPT ![k] = TRUE]
      /\ state' = [state EXCEPT ![k] = KillState(state[k])]
      /\ asked' = asked \cup {n}
      /\ UNCHANGED <<pid, parent, chan, nextpid, threads, cpuvars>>
  BY <1>1 DEF Kill, Running, ProcInv, TypeOK
<1> HIDE DEF k
<1>3. /\ state' \in [Slots -> States]
      /\ \A t \in Slots : \/ state'[t] = state[t]
                          \/ state[t] = "SLEEPING" /\ state'[t] = "RUNNABLE"
  <2>1. state \in [Slots -> States]
    BY DEF ProcInv, TypeOK
  <2>2. KillState(state[k]) \in States
    BY <1>1, <2>1 DEF KillState, States
  <2>3. state' \in [Slots -> States]
    BY <1>1, <1>2, <2>1, <2>2
  <2>4. /\ state'[k] = KillState(state[k])
        /\ \A t \in Slots \ {k} : state'[t] = state[t]
    BY <1>1, <1>2, <2>1
  <2>5. QED
    BY <2>3, <2>4 DEF KillState
<1>4. killed' \in [Slots -> BOOLEAN] /\ asked' \subseteq KillPids
  BY <1>1, <1>2 DEF ProcInv, TypeOK
<1>5. QED
  BY <1>2, <1>3, <1>4, WakingKeeps

\* sleep()
LEMMA SleepKeeps ==
  ASSUME ProcInv, NEW c \in CPUs, NEW s \in Slots, NEW ch \in Chans, Sleep(c, s, ch)
  PROVE  ProcInv'
<1>1. /\ cur[c] = s /\ plock = Free /\ Sched(c) /\ pc[s] = "sleep"
      /\ state' = [state EXCEPT ![s] = "SLEEPING"]
      /\ chan' = [chan EXCEPT ![s] = ch]
      /\ pc' = [pc EXCEPT ![s] = "sleep_ret"]
      /\ UNCHANGED <<pid, parent, killed, nextpid, np, asked>>
  BY DEF Sleep, Running, GoTo
<1>2. state[s] = "RUNNING" /\ CpuTypes /\ OnCpu /\ LockHandedOver
  BY <1>1, RunningFacts
<1>3. /\ state' \in [Slots -> States] /\ state'[s] = "SLEEPING"
      /\ pc' \in [Slots -> PCs] /\ pc'[s] = "sleep_ret"
      /\ chan' \in [Slots -> Slots \cup Chans \cup {NoProc}] /\ chan'[s] = ch
  BY <1>1 DEF ProcInv, TypeOK, States, PCs
<1>4. \A t \in Slots \ {s} : state'[t] = state[t] /\ pc'[t] = pc[t] /\ chan'[t] = chan[t]
  BY <1>1 DEF ProcInv, TypeOK
<1>5. CpuTypes' /\ OnCpu' /\ LockHandedOver'
  BY <1>1, <1>2, <1>3, <1>4, SchedLeaves
<1>6. TypeOK'
  BY <1>1, <1>3, <1>5 DEF ProcInv, TypeOK, CpuTypes
<1>7. Places'
  BY <1>1, <1>2, <1>3, <1>4, SlotFacts, SMTT(20) DEF ProcInv, Places
<1>8. Forks'
  BY <1>1, <1>2, <1>3, <1>4, SMTT(20) DEF ProcInv, Forks, Forking, ForkPCs
<1>9. Lineage' /\ ParentAlive' /\ NoLostChild'
  BY <1>1, <1>2, <1>3, <1>4, SMTT(20) DEF ProcInv, Lineage, ParentAlive, NoLostChild
<1>10. QED
  BY <1>5, <1>6, <1>7, <1>8, <1>9 DEF ProcInv

-----------------------------------------------------------------------------
(* fork *)

\* allocproc() takes a free slot.
LEMMA AllocprocKeeps ==
  ASSUME ProcInv, NEW c \in CPUs, NEW s \in Slots, Allocproc(c, s)
  PROVE  ProcInv'
<1> DEFINE unused == {t \in Slots : state[t] = "UNUSED"}
           k == Min(unused)
<1>1. k \in unused
  BY MinIn, SlotFacts DEF Allocproc
<1>2. /\ cur[c] = s /\ pc[s] = "user" /\ nextpid <= MaxPid
      /\ state' = [state EXCEPT ![k] = "EMBRYO"]
      /\ pid' = [pid EXCEPT ![k] = nextpid]
      /\ asked' = asked \ {nextpid}
      /\ nextpid' = nextpid + 1
      /\ np' = [np EXCEPT ![s] = k]
      /\ pc' = [pc EXCEPT ![s] = "fork_kstack"]
      /\ UNCHANGED <<parent, killed, chan, plock, cur, mode, pos>>
  BY DEF Allocproc, Running, GoTo, cpuvars
<1>3. k \in Slots /\ state[k] = "UNUSED"
  BY <1>1
<1> HIDE DEF unused, k
<1>4. state[s] = "RUNNING" /\ CpuTypes /\ OnCpu /\ LockHandedOver /\ plock # c
  BY <1>2, RunningFacts
<1>5. k # s /\ k # initproc /\ parent[k] = NoProc
  BY <1>3, <1>4, SlotFacts DEF ProcInv, Places, ParentAlive
<1>6. /\ state' \in [Slots -> States] /\ state'[k] = "EMBRYO"
      /\ pc' \in [Slots -> PCs] /\ pc'[s] = "fork_kstack"
      /\ np' \in [Slots -> Slots \cup {NoProc}] /\ np'[s] = k
  BY <1>2, <1>3 DEF ProcInv, TypeOK, States, PCs
<1>7. /\ \A t \in Slots \ {k} : state'[t] = state[t]
      /\ \A t \in Slots \ {s} : pc'[t] = pc[t] /\ np'[t] = np[t]
  BY <1>2, <1>3 DEF ProcInv, TypeOK
<1>8. CpuTypes' /\ OnCpu' /\ LockHandedOver'
  BY <1>2, <1>3, <1>4, <1>6, <1>7, StaysOnCpu
<1>9. pid' \in [Slots -> 0..MaxPid] /\ nextpid' \in 1..MaxPid + 1 /\ asked' \subseteq KillPids
  <2>1. nextpid \in 0..MaxPid /\ nextpid + 1 \in 1..MaxPid + 1
    BY <1>2, ProcAssumption, SMTT(20) DEF ProcInv, TypeOK
  <2>2. QED
    BY <1>2, <1>3, <2>1 DEF ProcInv, TypeOK
<1>10. TypeOK'
  BY <1>2, <1>6, <1>8, <1>9 DEF ProcInv, TypeOK, CpuTypes
<1>11. Places'
  BY <1>2, <1>3, <1>4, <1>5, <1>6, <1>7, SlotFacts, SMTT(20) DEF ProcInv, Places
<1>12. Forks'
  BY <1>2, <1>3, <1>5, <1>6, <1>7, SMTT(20) DEF ProcInv, TypeOK, Forks, Forking, ForkPCs
<1>13. Lineage' /\ ParentAlive' /\ NoLostChild'
  BY <1>2, <1>3, <1>4, <1>5, <1>6, <1>7, SMTT(20) DEF ProcInv, TypeOK, Lineage, ParentAlive, NoLostChild
<1>14. QED
  BY <1>8, <1>10, <1>11, <1>12, <1>13 DEF ProcInv

\* The slot a fork works on.
LEMMA EmbryoFacts ==
  ASSUME ProcInv, NEW c \in CPUs, NEW s \in Slots, cur[c] = s, Forking(s)
  PROVE  /\ np[s] \in Slots /\ state[np[s]] = "EMBRYO" /\ pc[np[s]] = "none"
         /\ np[s] # s /\ np[s] # initproc
         /\ pc[s] = "fork_run" => parent[np[s]] = s
         /\ pc[s] # "fork_run" => parent[np[s]] = NoProc
         /\ \A t \in Slots \ {s} : Forking(t) => np[t] # np[s]
<1>1. state[s] = "RUNNING"
  BY RunningFacts
<1>2. TypeOK /\ Forks /\ Places
  BY DEF ProcInv
<1>3. np[s] \in Slots /\ state[np[s]] = "EMBRYO"
  BY <1>2 DEF Forks
<1>4. pc[np[s]] = "none" /\ np[s] # s /\ np[s] # initproc
  BY <1>1, <1>2, <1>3 DEF Places
<1>5. QED
  BY <1>2, <1>3, <1>4 DEF Forks

\* fork gives up: kalloc or copyuvm has failed.
LEMMA ForkFails ==
  ASSUME ProcInv, NEW c \in CPUs, NEW s \in Slots, cur[c] = s,
         pc[s] \in {"fork_kstack", "fork_copy"},
         state' = [state EXCEPT ![np[s]] = "UNUSED"],
         np' = [np EXCEPT ![s] = NoProc],
         pc' = [pc EXCEPT ![s] = "user"],
         UNCHANGED <<pid, parent, killed, chan, nextpid, plock, cur, mode, pos, asked>>
  PROVE  ProcInv'
<1> DEFINE k == np[s]
<1>1. /\ k \in Slots /\ state[k] = "EMBRYO" /\ pc[k] = "none" /\ k # s /\ k # initproc
      /\ parent[k] = NoProc
      /\ \A t \in Slots \ {s} : Forking(t) => np[t] # k
  BY EmbryoFacts, SMTT(20) DEF Forking, ForkPCs
<1>2. state[s] = "RUNNING" /\ CpuTypes /\ OnCpu /\ LockHandedOver /\ plock # c
  BY RunningFacts
<1>3. /\ state' \in [Slots -> States] /\ state'[k] = "UNUSED"
      /\ pc' \in [Slots -> PCs] /\ pc'[s] = "user"
      /\ np' \in [Slots -> Slots \cup {NoProc}]
  BY <1>1 DEF ProcInv, TypeOK, States, PCs
<1>4. /\ \A t \in Slots \ {k} : state'[t] = state[t]
      /\ \A t \in Slots \ {s} : pc'[t] = pc[t] /\ np'[t] = np[t]
  BY <1>1 DEF ProcInv, TypeOK
<1> HIDE DEF k
<1>5. CpuTypes' /\ OnCpu' /\ LockHandedOver'
  BY <1>1, <1>2, <1>3, <1>4, StaysOnCpu
<1>6. TypeOK'
  BY <1>3, <1>5 DEF ProcInv, TypeOK, CpuTypes
<1>7. Places'
  BY <1>1, <1>2, <1>3, <1>4, SlotFacts, SMTT(20) DEF ProcInv, Places
<1>8. Forks'
  BY <1>1, <1>2, <1>3, <1>4, SMTT(20) DEF ProcInv, TypeOK, Forks, Forking, ForkPCs, k
<1>9. Lineage' /\ ParentAlive' /\ NoLostChild'
  BY <1>1, <1>2, <1>3, <1>4, SMTT(20) DEF ProcInv, TypeOK, Lineage, ParentAlive, NoLostChild
<1>10. QED
  BY <1>5, <1>6, <1>7, <1>8, <1>9 DEF ProcInv

\* The kernel stack is allocated, or not.
LEMMA ForkKstackKeeps ==
  ASSUME ProcInv, NEW c \in CPUs, NEW s \in Slots, ForkKstack(c, s)
  PROVE  ProcInv'
<1>1. /\ cur[c] = s /\ pc[s] = "fork_kstack"
      /\ UNCHANGED <<pid, parent, killed, chan, nextpid, plock, cur, mode, pos, asked>>
  BY DEF ForkKstack, Running, cpuvars
<1>2. CASE pc' = [pc EXCEPT ![s] = "fork_copy"] /\ state' = state /\ np' = np
  <2>1. state[s] = "RUNNING" /\ CpuTypes /\ OnCpu /\ LockHandedOver /\ plock # c
    BY <1>1, RunningFacts
  <2>2. /\ pc' \in [Slots -> PCs] /\ pc'[s] = "fork_copy"
        /\ \A t \in Slots \ {s} : pc'[t] = pc[t]
    BY <1>2 DEF ProcInv, TypeOK, PCs
  <2>3. CpuTypes' /\ OnCpu' /\ LockHandedOver'
    BY <1>1, <1>2, <2>1, <2>2, StaysOnCpu
  <2>4. TypeOK'
    BY <1>1, <1>2, <2>2, <2>3 DEF ProcInv, TypeOK, CpuTypes
  <2>5. Places'
    BY <1>1, <1>2, <2>1, <2>2, SMTT(20) DEF ProcInv, Places
  <2>6. Forks'
    BY <1>1, <1>2, <2>2, SMTT(20) DEF ProcInv, TypeOK, Forks, Forking, ForkPCs
  <2>7. Lineage' /\ ParentAlive' /\ NoLostChild'
    BY <1>1, <1>2, <2>1, <2>2, SMTT(20) DEF ProcInv, TypeOK, Lineage, ParentAlive, NoLostChild
  <2>8. QED
    BY <2>3, <2>4, <2>5, <2>6, <2>7 DEF ProcInv
<1>3. CASE /\ state' = [state EXCEPT ![np[s]] = "UNUSED"]
           /\ np' = [np EXCEPT ![s] = NoProc]
           /\ pc' = [pc EXCEPT ![s] = "user"]
  BY <1>1, <1>3, ForkFails
<1>4. QED
  BY <1>2, <1>3 DEF ForkKstack, GoTo

\* The process is copied, or not.
LEMMA ForkCopyKeeps ==
  ASSUME ProcInv, NEW c \in CPUs, NEW s \in Slots, ForkCopy(c, s)
  PROVE  ProcInv'
<1>1. /\ cur[c] = s /\ pc[s] = "fork_copy"
      /\ UNCHANGED <<pid, killed, chan, nextpid, plock, cur, mode, pos, asked>>
  BY DEF ForkCopy, Running, cpuvars
<1>2. CASE /\ parent' = [parent EXCEPT ![np[s]] = s]
           /\ pc' = [pc EXCEPT ![s] = "fork_run"]
           /\ state' = state /\ np' = np
  <2> DEFINE k == np[s]
  <2>1. /\ k \in Slots /\ state[k] = "EMBRYO" /\ k # s /\ k # initproc /\ parent[k] = NoProc
        /\ \A t \in Slots \ {s} : Forking(t) => np[t] # k
    BY <1>1, EmbryoFacts, SMTT(20) DEF Forking, ForkPCs
  <2>2. state[s] = "RUNNING" /\ CpuTypes /\ OnCpu /\ LockHandedOver /\ plock # c
    BY <1>1, RunningFacts
  <2>3. /\ pc' \in [Slots -> PCs] /\ pc'[s] = "fork_run"
        /\ parent' \in [Slots -> Slots \cup {NoProc}] /\ parent'[k] = s
    BY <1>2, <2>1 DEF ProcInv, TypeOK, PCs
  <2>4. /\ \A t \in Slots \ {s} : pc'[t] = pc[t]
        /\ \A t \in Slots \ {k} : parent'[t] = parent[t]
    BY <1>2, <2>1 DEF ProcInv, TypeOK
  <2>5. CpuTypes' /\ OnCpu' /\ LockHandedOver'
    BY <1>1, <1>2, <2>2, <2>3, <2>4, StaysOnCpu
  <2> HIDE DEF k
  <2>6. TypeOK'
    BY <1>1, <1>2, <2>3, <2>5 DEF ProcInv, TypeOK, CpuTypes
  <2>7. Places'
    BY <1>1, <1>2, <2>2, <2>3, <2>4, SMTT(20) DEF ProcInv, Places
  <2>8. Forks'
    BY <1>1, <1>2, <2>1, <2>3, <2>4, SMTT(20) DEF ProcInv, TypeOK, Forks, Forking, ForkPCs, k
  <2>9. Lineage' /\ ParentAlive' /\ NoLostChild'
    BY <1>1, <1>2, <2>1, <2>2, <2>3, <2>4, SlotFacts, SMTT(20) DEF ProcInv, TypeOK, Lineage, ParentAlive, NoLostChild
  <2>10. QED
    BY <2>5, <2>6, <2>7, <2>8, <2>9 DEF ProcInv
<1>3. CASE /\ state' = [state EXCEPT ![np[s]] = "UNUSED"]
           /\ np' = [np EXCEPT ![s] = NoProc]
           /\ pc' = [pc EXCEPT ![s] = "user"]
           /\ parent' = parent
  BY <1>1, <1>3, ForkFails
<1>4. QED
  BY <1>2, <1>3 DEF ForkCopy, GoTo

\* The child is made RUNNABLE.
LEMMA ForkRunKeeps ==
  ASSUME ProcInv, NEW c \in CPUs, NEW s \in Slots, ForkRun(c, s)
  PROVE  ProcInv'
<1> DEFINE k == np[s]
<1>1. /\ cur[c] = s /\ pc[s] = "fork_run"
      /\ state' = [state EXCEPT ![k] = "RUNNABLE"]
      /\ pc' = [pc EXCEPT ![s] = "user", ![k] = "user"]
      /\ np' = [np EXCEPT ![s] = NoProc]
      /\ UNCHANGED <<pid, parent, killed, chan, nextpid, plock, cur, mode, pos, asked>>
  BY DEF ForkRun, Running, cpuvars
<1>2. /\ k \in Slots /\ state[k] = "EMBRYO" /\ pc[k] = "none" /\ k # s /\ k # initproc
      /\ parent[k] = s
      /\ \A t \in Slots \ {s} : Forking(t) => np[t] # k
  BY <1>1, EmbryoFacts, SMTT(20) DEF Forking, ForkPCs
<1>3. state[s] = "RUNNING" /\ CpuTypes /\ OnCpu /\ LockHandedOver /\ plock # c
  BY <1>1, RunningFacts
<1>4. /\ state' \in [Slots -> States] /\ state'[k] = "RUNNABLE"
      /\ pc' \in [Slots -> PCs] /\ pc'[s] = "user" /\ pc'[k] = "user"
      /\ np' \in [Slots -> Slots \cup {NoProc}]
  BY <1>1, <1>2 DEF ProcInv, TypeOK, States, PCs
<1>5. /\ \A t \in Slots \ {k} : state'[t] = state[t]
      /\ \A t \in Slots \ {s, k} : pc'[t] = pc[t]
      /\ \A t \in Slots \ {s} : np'[t] = np[t]
  BY <1>1, <1>2 DEF ProcInv, TypeOK
<1> HIDE DEF k
<1>6. CpuTypes' /\ OnCpu' /\ LockHandedOver'
  BY <1>1, <1>2, <1>3, <1>4, <1>5, StaysOnCpu
<1>7. TypeOK'
  BY <1>1, <1>4, <1>6 DEF ProcInv, TypeOK, CpuTypes
<1>8. Places'
  BY <1>1, <1>2, <1>3, <1>4, <1>5, SlotFacts, ZenonT(30) DEF ProcInv, Places
<1>9. Forks'
  BY <1>1, <1>2, <1>4, <1>5, SMTT(20) DEF ProcInv, TypeOK, Forks, Forking, ForkPCs, k
<1>10. Lineage' /\ ParentAlive' /\ NoLostChild'
  BY <1>1, <1>2, <1>3, <1>4, <1>5, SMTT(20) DEF ProcInv, TypeOK, Lineage, ParentAlive, NoLostChild
<1>11. QED
  BY <1>6, <1>7, <1>8, <1>9, <1>10 DEF ProcInv

-----------------------------------------------------------------------------
(* exit and wait *)

\* exit() becomes a zombie.
LEMMA ExitKeeps ==
  ASSUME ProcInv, NEW c \in CPUs, NEW s \in Slots, Exit(c, s)
  PROVE  ProcInv'
<1> DEFINE orphans == {t \in Slots : parent[t] = s}
           woken == {parent[s]} \cup Inheritors(orphans)
<1>1. /\ cur[c] = s /\ plock = Free /\ Sched(c) /\ pc[s] = "exit"
      /\ state' = [Wakeup1(woken) EXCEPT ![s] = "ZOMBIE"]
      /\ parent' = Reparent(orphans)
      /\ pc' = [pc EXCEPT ![s] = "none"]
      /\ UNCHANGED <<pid, killed, chan, nextpid, np, asked>>
  BY DEF Exit, Running, GoTo
<1>2. state[s] = "RUNNING" /\ CpuTypes /\ OnCpu /\ LockHandedOver
  BY <1>1, RunningFacts
<1>3. s # initproc /\ state[initproc] \notin {"UNUSED", "EMBRYO", "ZOMBIE"}
  BY <1>1, SlotFacts DEF ProcInv, Places
<1>4. /\ parent[s] \in woken
      /\ \A t \in Slots : parent[t] = s /\ state[t] = "ZOMBIE" => initproc \in woken
  BY DEF Inheritors
<1> HIDE DEF woken
<1>5. /\ pc' \in [Slots -> PCs] /\ pc'[s] = "none"
      /\ \A t \in Slots \ {s} : pc'[t] = pc[t]
  BY <1>1 DEF ProcInv, TypeOK, PCs
<1>6. /\ parent' \in [Slots -> Slots \cup {NoProc}]
      /\ \A t \in Slots : parent'[t] = IF parent[t] = s THEN initproc ELSE parent[t]
  <2>1. parent \in [Slots -> Slots \cup {NoProc}]
    BY DEF ProcInv, TypeOK
  <2>2. QED
    BY <1>1, <2>1, SlotFacts DEF Reparent
<1>7. /\ state' \in [Slots -> States] /\ state'[s] = "ZOMBIE"
      /\ \A t \in Slots \ {s} :
           state'[t] = IF state[t] = "SLEEPING" /\ chan[t] \in woken
                       THEN "RUNNABLE" ELSE state[t]
  <2>1. state \in [Slots -> States] /\ "RUNNABLE" \in States /\ "ZOMBIE" \in States
    BY DEF ProcInv, TypeOK, States
  <2>2. Wakeup1(woken) \in [Slots -> States]
    BY <2>1 DEF Wakeup1
  <2>3. state' \in [Slots -> States]
    BY <1>1, <2>1, <2>2
  <2>4. \A t \in Slots \ {s} : state'[t] = Wakeup1(woken)[t]
    BY <1>1, <2>2
  <2>5. state'[s] = "ZOMBIE"
    BY <1>1, <2>2
  <2>6. \A t \in Slots : Wakeup1(woken)[t] = IF state[t] = "SLEEPING" /\ chan[t] \in woken
                                             THEN "RUNNABLE" ELSE state[t]
    BY DEF Wakeup1
  <2>7. QED
    BY <2>3, <2>4, <2>5, <2>6
<1> HIDE DEF orphans
<1>8. \A t \in Slots \ {s} : \/ state'[t] = state[t]
                             \/ state[t] = "SLEEPING" /\ state'[t] = "RUNNABLE"
  BY <1>7
<1>9. CpuTypes' /\ OnCpu' /\ LockHandedOver'
  BY <1>1, <1>2, <1>5, <1>7, <1>8, SchedLeaves, SMTT(20)
<1>10. TypeOK'
  BY <1>1, <1>5, <1>6, <1>7, <1>9 DEF ProcInv, TypeOK, CpuTypes
<1>11. Places'
  BY <1>1, <1>2, <1>3, <1>5, <1>7, <1>8, SlotFacts, SMTT(20) DEF ProcInv, Places
<1>12. Forks'
  <2>1. TypeOK /\ Forks /\ ~Forking(s) /\ pc'[s] \notin ForkPCs
    BY <1>1, <1>5 DEF ProcInv, Forking, ForkPCs
  <2>2. ASSUME NEW t \in Slots, state[t] = "EMBRYO"
        PROVE  parent[t] # s
    <3>1. PICK u \in Slots : Forking(u) /\ np[u] = t
      BY <2>1, <2>2 DEF Forks
    <3>2. parent[t] \in {u, NoProc}
      BY <2>1, <3>1 DEF Forks
    <3>3. QED
      BY <2>1, <3>1, <3>2, SlotFacts
  <2>3. \A t \in Slots : state[t] = "EMBRYO" => parent'[t] = parent[t]
    BY <1>6, <2>2
  <2>4. \A t \in Slots : state'[t] = "EMBRYO" <=> state[t] = "EMBRYO"
    BY <1>2, <1>7, <1>8
  <2>5. np' = np
    BY <1>1
  <2>6. QED
    BY <1>5, <2>1, <2>3, <2>4, <2>5, ForksGoOn
<1>13. Lineage'
  BY <1>6, SlotFacts DEF ProcInv, Lineage
<1>14. ParentAlive'
  <2>1. \A t \in Slots : state[t] \notin {"UNUSED", "EMBRYO", "ZOMBIE"} /\ t # s
                          => state'[t] \notin {"UNUSED", "EMBRYO", "ZOMBIE"}
    BY <1>8
  <2>2. \A t \in Slots : state'[t] \notin {"UNUSED", "EMBRYO"}
                          => state[t] \notin {"UNUSED", "EMBRYO"}
    BY <1>2, <1>8
  <2>3. \A t \in Slots : state'[t] = "UNUSED" => state[t] = "UNUSED"
    BY <1>7, <1>8
  <2>4. ParentAlive
    BY DEF ProcInv
  <2>5. ASSUME NEW t \in Slots \ {initproc}, state'[t] \notin {"UNUSED", "EMBRYO"}
        PROVE  /\ parent'[t] \in Slots
               /\ state'[parent'[t]] \notin {"UNUSED", "EMBRYO", "ZOMBIE"}
    <3>1. CASE parent[t] = s
      BY <1>3, <1>6, <2>1, <3>1, SlotFacts
    <3>2. CASE parent[t] # s
      <4>1. /\ parent'[t] = parent[t] /\ parent[t] \in Slots
            /\ state[parent[t]] \notin {"UNUSED", "EMBRYO", "ZOMBIE"}
        BY <1>6, <2>2, <2>4, <2>5, <3>2 DEF ParentAlive
      <4>2. QED
        BY <2>1, <3>2, <4>1
    <3>3. QED
      BY <3>1, <3>2
  <2>6. ASSUME NEW t \in Slots \ {initproc}, state'[t] = "UNUSED"
        PROVE  parent'[t] = NoProc
    BY <1>6, <2>3, <2>4, <2>6, SlotFacts DEF ParentAlive
  <2>7. QED
    BY <2>5, <2>6 DEF ParentAlive
<1>15. NoLostChild'
  <2> SUFFICES ASSUME NEW p \in Slots, state'[p] = "SLEEPING", pc'[p] = "wait"
               PROVE  /\ \E t \in Slots : parent'[t] = p
                      /\ \A t \in Slots : parent'[t] = p => state'[t] # "ZOMBIE"
    BY DEF NoLostChild
  <2>1. p # s /\ state[p] = "SLEEPING" /\ pc[p] = "wait" /\ chan[p] = p /\ p \notin woken
    BY <1>5, <1>7, <1>8, SlotFacts DEF ProcInv, Places
  <2>2. /\ \E t \in Slots : parent[t] = p
        /\ \A t \in Slots : parent[t] = p => state[t] # "ZOMBIE"
    BY <2>1 DEF ProcInv, NoLostChild
  <2>3. \E t \in Slots : parent'[t] = p
    BY <1>6, <2>1, <2>2
  <2>4. ASSUME NEW t \in Slots, parent'[t] = p
        PROVE  state'[t] # "ZOMBIE"
    <3>1. t # s
      BY <1>4, <1>6, <2>1, <2>4 DEF ProcInv, Lineage
    <3>2. state[t] # "ZOMBIE"
      BY <1>4, <1>6, <2>1, <2>2, <2>4
    <3>3. QED
      BY <1>8, <3>1, <3>2
  <2>5. QED
    BY <2>3, <2>4
<1>16. QED
  BY <1>9, <1>10, <1>11, <1>12, <1>13, <1>14, <1>15 DEF ProcInv

\* wait() reaps a child.
LEMMA ReapKeeps ==
  ASSUME ProcInv, NEW c \in CPUs, NEW s \in Slots, cur[c] = s, ~Forking(s),
         NEW z \in Slots, parent[z] = s, state[z] = "ZOMBIE",
         Reap(z), pc' = [pc EXCEPT ![s] = "user"],
         plock' = IF plock = c THEN Free ELSE plock,
         UNCHANGED <<chan, nextpid, np, cur, mode, pos, asked>>
  PROVE  ProcInv'
<1>1. state[s] = "RUNNING" /\ CpuTypes /\ OnCpu /\ LockHandedOver
  BY RunningFacts
<1>2. z # s /\ z # initproc
  BY <1>1, SlotFacts DEF ProcInv, Places
<1>3. /\ state' \in [Slots -> States] /\ state'[z] = "UNUSED"
      /\ \A t \in Slots \ {z} : state'[t] = state[t]
  BY DEF Reap, ProcInv, TypeOK, States
<1>4. /\ parent' \in [Slots -> Slots \cup {NoProc}] /\ parent'[z] = NoProc
      /\ \A t \in Slots \ {z} : parent'[t] = parent[t]
  BY DEF Reap, ProcInv, TypeOK
<1>5. /\ pc' \in [Slots -> PCs] /\ pc'[s] = "user"
      /\ \A t \in Slots \ {s} : pc'[t] = pc[t]
  BY DEF ProcInv, TypeOK, PCs
<1>6. CpuTypes' /\ OnCpu' /\ LockHandedOver'
  BY <1>1, <1>2, <1>3, <1>5, StaysOnCpu
<1>7. pid' \in [Slots -> 0..MaxPid] /\ killed' \in [Slots -> BOOLEAN]
  <2>1. 0 \in 0..MaxPid
    BY ProcAssumption, SMTT(20)
  <2>2. QED
    BY <2>1 DEF Reap, ProcInv, TypeOK
<1>8. TypeOK'
  BY <1>3, <1>4, <1>5, <1>6, <1>7 DEF ProcInv, TypeOK, CpuTypes
<1>9. Places'
  BY <1>1, <1>2, <1>3, <1>5, SlotFacts, SMTT(20) DEF ProcInv, Places
<1>10. Forks'
  <2>1. TypeOK /\ Forks /\ pc'[s] \notin ForkPCs
    BY <1>5 DEF ProcInv, ForkPCs
  <2>2. \A t \in Slots : state'[t] = "EMBRYO" <=> state[t] = "EMBRYO"
    BY <1>3
  <2>3. \A t \in Slots : state[t] = "EMBRYO" => parent'[t] = parent[t]
    BY <1>4
  <2>4. QED
    BY <1>5, <2>1, <2>2, <2>3, ForksGoOn
<1>11. Lineage' /\ ParentAlive'
  <2>1. Lineage'
    BY <1>2, <1>4, SlotFacts DEF ProcInv, Lineage
  <2>2. ASSUME NEW t \in Slots \ {initproc}, state'[t] \notin {"UNUSED", "EMBRYO"}
        PROVE  /\ parent'[t] \in Slots
               /\ state'[parent'[t]] \notin {"UNUSED", "EMBRYO", "ZOMBIE"}
    BY <1>3, <1>4, <2>2 DEF ProcInv, ParentAlive
  <2>3. ASSUME NEW t \in Slots \ {initproc}, state'[t] = "UNUSED"
        PROVE  parent'[t] = NoProc
    BY <1>3, <1>4, <2>3 DEF ProcInv, ParentAlive
  <2>4. QED
    BY <2>1, <2>2, <2>3 DEF ParentAlive
<1>12. NoLostChild'
  BY <1>1, <1>2, <1>3, <1>4, <1>5, SlotFacts, SMTT(20) DEF ProcInv, TypeOK, NoLostChild
<1>13. QED
  BY <1>6, <1>8, <1>9, <1>10, <1>11, <1>12 DEF ProcInv

\* wait() sleeps.
LEMMA WaitSleeps ==
  ASSUME ProcInv, NEW c \in CPUs, NEW s \in Slots, cur[c] = s, ~Forking(s),
         plock \in {Free, c},
         \E t \in Slots : parent[t] = s,
         \A t \in Slots : parent[t] = s => state[t] # "ZOMBIE",
         chan' = [chan EXCEPT ![s] = s],
         state' = [state EXCEPT ![s] = "SLEEPING"],
         pc' = [pc EXCEPT ![s] = "wait"],
         Sched(c),
         UNCHANGED <<pid, parent, killed, nextpid, np, asked>>
  PROVE  ProcInv'
<1>1. state[s] = "RUNNING" /\ CpuTypes /\ OnCpu /\ LockHandedOver /\ pc[s] # "none"
  BY RunningFacts
<1>2. /\ state' \in [Slots -> States] /\ state'[s] = "SLEEPING"
      /\ pc' \in [Slots -> PCs] /\ pc'[s] = "wait"
      /\ chan' \in [Slots -> Slots \cup Chans \cup {NoProc}] /\ chan'[s] = s
  BY DEF ProcInv, TypeOK, States, PCs
<1>3. \A t \in Slots \ {s} : state'[t] = state[t] /\ pc'[t] = pc[t] /\ chan'[t] = chan[t]
  BY DEF ProcInv, TypeOK
<1>4. CpuTypes' /\ OnCpu' /\ LockHandedOver'
  BY <1>1, <1>2, <1>3, SchedLeaves
<1>5. TypeOK'
  BY <1>2, <1>4 DEF ProcInv, TypeOK, CpuTypes
<1>6. Places'
  BY <1>1, <1>2, <1>3, SlotFacts, SMTT(20) DEF ProcInv, Places
<1>7. Forks'
  <2>1. TypeOK /\ Forks /\ pc'[s] \notin ForkPCs
    BY <1>2 DEF ProcInv, ForkPCs
  <2>2. \A t \in Slots : state'[t] = "EMBRYO" <=> state[t] = "EMBRYO"
    BY <1>1, <1>2, <1>3
  <2>3. QED
    BY <1>3, <2>1, <2>2, ForksGoOn
<1>8. Lineage' /\ ParentAlive' /\ NoLostChild'
  BY <1>1, <1>2, <1>3, SMTT(20) DEF ProcInv, TypeOK, Lineage, ParentAlive, NoLostChild
<1>9. QED
  BY <1>4, <1>5, <1>6, <1>7, <1>8 DEF ProcInv

\* wait()
LEMMA WaitKeeps ==
  ASSUME ProcInv, NEW c \in CPUs, NEW s \in Slots, Wait(c, s)
  PROVE  ProcInv'
<1> DEFINE children == {t \in Slots : parent[t] = s}
           zombies == {t \in children : state[t] = "ZOMBIE"}
           z == Min(zombies)
<1>1. /\ cur[c] = s /\ pc[s] \in {"user", "wait"} /\ plock \in {Free, c}
      /\ UNCHANGED <<nextpid, np, asked>>
  BY DEF Wait, Running
<1>2. ~Forking(s)
  BY <1>1 DEF Forking, ForkPCs
<1>3. CASE /\ zombies # {} /\ Reap(z) /\ plock' = Free
           /\ pc' = [pc EXCEPT ![s] = "user"]
           /\ UNCHANGED <<chan, cur, mode, pos>>
  <2>1. z \in zombies
    BY <1>3, MinIn, SlotFacts
  <2>2. z \in Slots /\ parent[z] = s /\ state[z] = "ZOMBIE"
    BY <2>1
  <2>3. plock' = IF plock = c THEN Free ELSE plock
    BY <1>1, <1>3
  <2> HIDE DEF z, zombies, children
  <2>4. QED
    BY <1>1, <1>2, <1>3, <2>2, <2>3, ReapKeeps
<1>4. CASE /\ plock' = Free
           /\ pc' = [pc EXCEPT ![s] = "user"]
           /\ UNCHANGED <<state, pid, parent, killed, chan, cur, mode, pos>>
  <2>1. /\ pc' \in [Slots -> PCs] /\ pc'[s] = "user"
        /\ \A t \in Slots \ {s} : pc'[t] = pc[t]
    BY <1>4 DEF ProcInv, TypeOK, PCs
  <2>2. plock' = IF plock = c THEN Free ELSE plock
    BY <1>1, <1>4
  <2>3. QED
    BY <1>1, <1>2, <1>4, <2>1, <2>2, MoveKeeps
<1>5. CASE /\ zombies = {} /\ children # {}
           /\ chan' = [chan EXCEPT ![s] = s]
           /\ state' = [state EXCEPT ![s] = "SLEEPING"]
           /\ pc' = [pc EXCEPT ![s] = "wait"]
           /\ Sched(c)
           /\ UNCHANGED <<pid, parent, killed>>
  <2>1. /\ \E t \in Slots : parent[t] = s
        /\ \A t \in Slots : parent[t] = s => state[t] # "ZOMBIE"
    BY <1>5
  <2> HIDE DEF zombies, children
  <2>2. QED
    BY <1>1, <1>2, <1>5, <2>1, WaitSleeps
<1>6. QED
  BY <1>3, <1>4, <1>5 DEF Wait, GoTo

-----------------------------------------------------------------------------
(* The theorems *)

\* Every step of the process table and of the schedulers keeps the invariant.
LEMMA NextInv == ProcInv /\ [Next]_vars => ProcInv'
<1> SUFFICES ASSUME ProcInv, [Next]_vars PROVE ProcInv'
  OBVIOUS
<1>1. CASE UNCHANGED vars
  BY <1>1, SMTT(20) DEF vars, ProcInv, TypeOK, OnCpu, LockHandedOver, Places, Forks, Forking,
              Lineage, ParentAlive, NoLostChild
<1>2. CASE Next
  <2>1. PICK c \in CPUs :
          \/ SchedHlt(c) \/ HltInterrupt(c) \/ SchedAcquire(c)
          \/ SchedSwitch(c) \/ SchedEnd(c)
          \/ \E s \in Slots :
               \/ Yield(c, s)
               \/ Allocproc(c, s) \/ ForkKstack(c, s) \/ ForkCopy(c, s) \/ ForkRun(c, s)
               \/ ExitCall(c, s) \/ ExitKilled(c, s) \/ Exit(c, s) \/ Wait(c, s)
               \/ SleepCall(c, s) \/ SleepCheck(c, s)
               \/ \E ch \in Chans : Sleep(c, s, ch) \/ Wakeup(c, s, ch)
               \/ \E n \in KillPids : Kill(c, s, n)
    BY <1>2 DEF Next
  <2>2. CASE SchedHlt(c) \/ HltInterrupt(c) \/ SchedAcquire(c) \/ SchedEnd(c)
    BY <2>2, SchedulerKeeps
  <2>3. CASE SchedSwitch(c)
    BY <2>3, SchedSwitchKeeps
  <2>4. ASSUME NEW s \in Slots, Yield(c, s) PROVE ProcInv'
    BY <2>4, YieldKeeps
  <2>5. ASSUME NEW s \in Slots,
               Allocproc(c, s) \/ ForkKstack(c, s) \/ ForkCopy(c, s) \/ ForkRun(c, s)
        PROVE  ProcInv'
    BY <2>5, AllocprocKeeps, ForkKstackKeeps, ForkCopyKeeps, ForkRunKeeps
  <2>6. ASSUME NEW s \in Slots,
               ExitCall(c, s) \/ ExitKilled(c, s) \/ SleepCall(c, s) \/ SleepCheck(c, s)
        PROVE  ProcInv'
    BY <2>6, CallsKeep
  <2>7. ASSUME NEW s \in Slots, Exit(c, s) \/ Wait(c, s) PROVE ProcInv'
    BY <2>7, ExitKeeps, WaitKeeps
  <2>8. ASSUME NEW s \in Slots, NEW ch \in Chans, Sleep(c, s, ch) \/ Wakeup(c, s, ch)
        PROVE  ProcInv'
    BY <2>8, SleepKeeps, WakeupKeeps
  <2>9. ASSUME NEW s \in Slots, NEW n \in KillPids, Kill(c, s, n) PROVE ProcInv'
    BY <2>9, KillKeeps
  <2>10. QED
    BY <2>1, <2>2, <2>3, <2>4, <2>5, <2>6, <2>7, <2>8, <2>9, Zenon
<1>3. QED
  BY <1>1, <1>2

\* The invariant holds in every reachable state.
THEOREM ProcInvariant == Spec => []ProcInv
  BY InitInv, NextInv, PTL DEF Spec

\* A process runs on at most one CPU and is RUNNING exactly while it does
\* (scheduler, sched), for any number of CPUs and any size of the table.
THEOREM OneCpu == Spec => []RunsOnOneCpu
<1>1. ProcInv => RunsOnOneCpu
  <2> SUFFICES ASSUME ProcInv, NEW s \in Slots
               PROVE  Cardinality({c \in CPUs : cur[c] = s})
                        = IF state[s] = "RUNNING" THEN 1 ELSE 0
    BY DEF RunsOnOneCpu
  <2>1. CASE state[s] = "RUNNING"
    <3>1. PICK c \in CPUs : cur[c] = s
      BY <2>1 DEF ProcInv, OnCpu
    <3>2. {d \in CPUs : cur[d] = s} = {c}
      BY <3>1, SlotFacts DEF ProcInv, OnCpu
    <3>3. QED
      BY <2>1, <3>2, FS_Singleton
  <2>2. CASE state[s] # "RUNNING"
    <3>1. {d \in CPUs : cur[d] = s} = {}
      BY <2>2, SlotFacts, SMTT(20) DEF ProcInv, OnCpu
    <3>2. QED
      BY <2>2, <3>1, FS_EmptySet
  <2>3. QED
    BY <2>1, <2>2
<1>2. QED
  BY <1>1, ProcInvariant, PTL

\* ptable.lock is held exactly while a scheduler scans the table or a process
\* resumes in wait(): every swtch hands it over (scheduler, sched, forkret).
THEOREM LockPassedOn == Spec => []LockHandedOver
<1>1. ProcInv => LockHandedOver
  BY DEF ProcInv
<1>2. QED
  BY <1>1, ProcInvariant, PTL

\* No wakeup is lost between exit and wait: a process asleep in wait() has a
\* child, and none of its children is a zombie.
THEOREM ChildrenNotLost == Spec => []NoLostChild
<1>1. ProcInv => NoLostChild
  BY DEF ProcInv
<1>2. QED
  BY <1>1, ProcInvariant, PTL

\* Nobody is orphaned, and a free slot keeps no parent (exit, wait, fork).
THEOREM ParentsAlive == Spec => []ParentAlive
<1>1. ProcInv => ParentAlive
  BY DEF ProcInv
<1>2. QED
  BY <1>1, ProcInvariant, PTL

\* What fork writes without ptable.lock it writes to a slot that is its own:
\* each EMBRYO slot belongs to exactly one fork.
THEOREM EmbryosOwned == Spec => []EmbryoOwned
<1>1. ProcInv => EmbryoOwned
  <2> SUFFICES ASSUME ProcInv PROVE EmbryoOwned
    OBVIOUS
  <2> DEFINE forking == {s \in Slots : pc[s] \in {"fork_kstack", "fork_copy", "fork_run"}}
  <2>1. \A s \in forking : state[np[s]] = "EMBRYO"
    BY DEF ProcInv, Forks, Forking, ForkPCs
  <2>2. ASSUME NEW t \in Slots, state[t] = "EMBRYO"
        PROVE  Cardinality({s \in forking : np[s] = t}) = 1
    <3>1. PICK s \in Slots : Forking(s) /\ np[s] = t
      BY <2>2 DEF ProcInv, Forks
    <3>2. {u \in forking : np[u] = t} = {s}
      BY <3>1, SMTT(20) DEF ProcInv, Forks, Forking, ForkPCs
    <3>3. QED
      BY <3>2, FS_Singleton
  <2>3. QED
    BY <2>1, <2>2 DEF EmbryoOwned
<1>2. QED
  BY <1>1, ProcInvariant, PTL
=============================================================================
