--------------------------- MODULE SpinlockProofs ---------------------------
(***************************************************************************)
(* Proofs that the spin locks of kernel/spinlock.c exclude each other, and *)
(* keep interrupts off inside critical sections, for any number of CPUs    *)
(* and locks.                                                              *)
(***************************************************************************)
EXTENDS Spinlock, FiniteSetTheorems, TLAPS

-----------------------------------------------------------------------------
(* The inductive invariant: one part about each CPU, one about the locks. *)

\* pushcli has been counted and the lock is not owned yet, or not any more.
Transit == {"acq_locked", "acq_cpu", "spin", "popcli"}

\* release is running, or acquire has just won the lock.
Owning == {"setcpu", "rel_locked", "rel_cpu", "clearcpu", "xchg0"}

\* Contexts that are not running own nothing and are not inside a critical
\* section: above depth[c] they have not started, below it they were
\* interrupted.
Suspended(c) ==
  \A k \in Levels :
    /\ k # depth[c] => pc[c][k] \in {"idle", "cli"} /\ held[c][k] = {}
    /\ k > depth[c] => pc[c][k] = "idle"

\* A handler runs with interrupts off, will find them off in popcli, and has
\* only the interrupted code below it.
HandlerMasked(c) ==
  depth[c] > 1 =>
    /\ depth[c] = 2
    /\ ~IF_on[c]
    /\ PC(c) = "cli" => ~eflags[c][depth[c]]
    /\ ncli[c] > 0 => ~intena[c]

\* ncli counts the owned locks and the call in progress, and a CPU that counts
\* any has interrupts off.
Counted(c) ==
  /\ IsFiniteSet(Held(c))
  /\ ncli[c] = Cardinality(Held(c)) + (IF PC(c) \in Transit THEN 1 ELSE 0)
  /\ ncli[c] > 0 => ~IF_on[c]

\* The argument of a call is not owned while acquire waits for it, and owned
\* while release gives it up.  The running context has not panicked.
ArgOwned(c) ==
  /\ PC(c) # "panic"
  /\ PC(c) \in Transit \cup {"cli"} => Arg(c) \notin Held(c)
  /\ PC(c) \in Owning => Arg(c) \in Held(c)

CpuInv(c) == Suspended(c) /\ HandlerMasked(c) /\ Counted(c) /\ ArgOwned(c)

\* c has the lock but lk->cpu does not say so, yet or any more.
Unnamed(c, l) == Arg(c) = l /\ PC(c) \in {"setcpu", "xchg0"}

\* The lock word is set exactly while some CPU owns the lock, two CPUs own no
\* common lock, and lk->cpu names the owner.
LockInv ==
  /\ \A l \in Locks : locked[l] <=> \E c \in CPUs : l \in Held(c)
  /\ \A c, d \in CPUs : \A l \in Locks : l \in Held(c) /\ l \in Held(d) => c = d
  /\ \A c \in CPUs : \A l \in Locks :
       lkcpu[l] = c <=> l \in Held(c) /\ ~Unnamed(c, l)

SpinlockInv == TypeOK /\ (\A c \in CPUs : CpuInv(c)) /\ LockInv

\* What ncli is, in the middle of a call and outside one.
LEMMA CountedValue ==
  ASSUME NEW c \in CPUs, Counted(c)
  PROVE  /\ Cardinality(Held(c)) \in Nat
         /\ PC(c) \in Transit => ncli[c] = Cardinality(Held(c)) + 1
         /\ PC(c) \notin Transit => ncli[c] = Cardinality(Held(c))
<1>1. /\ IsFiniteSet(Held(c))
      /\ PC(c) \in Transit => ncli[c] = Cardinality(Held(c)) + 1
      /\ PC(c) \notin Transit => ncli[c] = Cardinality(Held(c)) + 0
  BY DEF Counted
<1>2. Cardinality(Held(c)) \in Nat
  BY <1>1, FS_CardinalityType
<1> QED
  BY ONLY <1>1, <1>2

-----------------------------------------------------------------------------
(* Typing *)

\* The levels next to a level, within the bounds the two interrupt actions test.
LEMMA InLevels ==
  ASSUME NEW n \in Levels
  PROVE  /\ n < MaxDepth => n + 1 \in Levels
         /\ n > 1 => n - 1 \in Levels
BY SpinlockAssumption DEF Levels

\* Every step of acquire, release, pushcli and popcli preserves the types.
LEMMA TypeStep == TypeOK /\ [Next]_vars => TypeOK'
<1> SUFFICES ASSUME TypeOK, [Next]_vars PROVE TypeOK'
  OBVIOUS
<1> USE SpinlockAssumption DEF TypeOK, At, Goto, Arg, PC, Levels, PCs
<1>1. ASSUME NEW c \in CPUs, CallStep(c) PROVE TypeOK'
  <2>1. CASE Pushcli(c)
    <3>1. ncli' \in [CPUs -> Nat]
      BY <2>1 DEF Pushcli
    <3>2. intena' \in [CPUs -> BOOLEAN] /\ IF_on' \in [CPUs -> BOOLEAN]
      BY <2>1 DEF Pushcli
    <3>3. pc' \in [CPUs -> [Levels -> PCs]]
      BY <2>1 DEF Pushcli
    <3>4. UNCHANGED <<locked, lkcpu, depth, arg, eflags, held>>
      BY <2>1 DEF Pushcli
    <3> QED BY <3>1, <3>2, <3>3, <3>4
  <2>2. CASE AcquireReadLocked(c) BY <2>2 DEF AcquireReadLocked
  <2>3. CASE AcquireReadCpu(c) BY <2>3 DEF AcquireReadCpu
  <2>4. CASE Xchg1(c) BY <2>4 DEF Xchg1
  <2>5. CASE SetCpu(c) BY <2>5 DEF SetCpu
  <2>6. CASE ReleaseReadLocked(c) BY <2>6 DEF ReleaseReadLocked
  <2>7. CASE ReleaseReadCpu(c) BY <2>7 DEF ReleaseReadCpu
  <2>8. CASE ClearCpu(c) BY <2>8 DEF ClearCpu
  <2>9. CASE Xchg0(c) BY <2>9 DEF Xchg0
  <2>10. CASE Popcli(c)
    <3>1. ncli' \in [CPUs -> Nat]
      <4>1. CASE ncli[c] = 0 BY <2>10, <4>1 DEF Popcli
      <4>2. CASE ncli[c] # 0
        <5>1. ncli' = ncli \/ ncli' = [ncli EXCEPT ![c] = @ - 1]
          BY <2>10 DEF Popcli
        <5>2. CASE ncli' = ncli BY <5>2
        <5>3. CASE ncli' = [ncli EXCEPT ![c] = @ - 1] BY <4>2, <5>3
        <5> QED BY <5>1, <5>2, <5>3
      <4> QED BY <4>1, <4>2
    <3>2. IF_on' \in [CPUs -> BOOLEAN]
      BY <2>10 DEF Popcli
    <3>3. pc' \in [CPUs -> [Levels -> PCs]]
      <4>1. Goto(c, "panic") \/ Goto(c, "idle")
        BY <2>10 DEF Popcli
      <4>2. CASE Goto(c, "panic") BY <4>2
      <4>3. CASE Goto(c, "idle") BY <4>3
      <4> QED BY <4>1, <4>2, <4>3
    <3> QED BY <2>10, <3>1, <3>2, <3>3 DEF Popcli
  <2> QED BY <1>1, <2>1, <2>2, <2>3, <2>4, <2>5, <2>6, <2>7, <2>8, <2>9, <2>10
          DEF CallStep
<1>2. ASSUME NEW c \in CPUs, Interrupt(c) PROVE TypeOK'
  <2>1. depth' \in [CPUs -> Levels]
    BY <1>2, InLevels DEF Interrupt
  <2>2. IF_on' \in [CPUs -> BOOLEAN]
    BY <1>2 DEF Interrupt
  <2>3. UNCHANGED <<locked, lkcpu, ncli, intena, pc, arg, eflags, held>>
    BY <1>2 DEF Interrupt
  <2> QED BY <2>1, <2>2, <2>3
<1>3. ASSUME NEW c \in CPUs, InterruptReturn(c) PROVE TypeOK'
  <2>1. depth' \in [CPUs -> Levels]
    BY <1>3, InLevels DEF InterruptReturn
  <2>2. IF_on' \in [CPUs -> BOOLEAN]
    BY <1>3 DEF InterruptReturn
  <2>3. UNCHANGED <<locked, lkcpu, ncli, intena, pc, arg, eflags, held>>
    BY <1>3 DEF InterruptReturn
  <2> QED BY <2>1, <2>2, <2>3
<1>4. ASSUME NEW c \in CPUs, NEW l \in Locks, CallAcquire(c, l) PROVE TypeOK'
  BY <1>4 DEF CallAcquire
<1>5. ASSUME NEW c \in CPUs, NEW l \in Locks, CallRelease(c, l) PROVE TypeOK'
  BY <1>5 DEF CallRelease
<1>6. CASE UNCHANGED vars
  BY <1>6 DEF vars
<1> QED
  BY <1>1, <1>2, <1>3, <1>4, <1>5, <1>6 DEF Next, CpuStep

-----------------------------------------------------------------------------
(* What a step of CPU c leaves alone, and what it does to c's running       *)
(* context.                                                                 *)

\* The state of CPU d is the same before and after the step.
Same(d) ==
  /\ pc'[d] = pc[d] /\ arg'[d] = arg[d] /\ eflags'[d] = eflags[d]
  /\ held'[d] = held[d] /\ depth'[d] = depth[d]
  /\ IF_on'[d] = IF_on[d] /\ ncli'[d] = ncli[d] /\ intena'[d] = intena[d]

\* A step of one CPU leaves the contexts and counters of the others alone.
LEMMA OthersSame ==
  ASSUME TypeOK, NEW c \in CPUs, CpuStep(c), NEW d \in CPUs, d # c
  PROVE  Same(d)
<1> USE DEF TypeOK, At, Goto, Arg, PC, Same
<1>1. CASE CallStep(c)
  <2>1. CASE Pushcli(c) BY <2>1 DEF Pushcli
  <2>2. CASE AcquireReadLocked(c) BY <2>2 DEF AcquireReadLocked
  <2>3. CASE AcquireReadCpu(c) BY <2>3 DEF AcquireReadCpu
  <2>4. CASE Xchg1(c) BY <2>4 DEF Xchg1
  <2>5. CASE SetCpu(c) BY <2>5 DEF SetCpu
  <2>6. CASE ReleaseReadLocked(c) BY <2>6 DEF ReleaseReadLocked
  <2>7. CASE ReleaseReadCpu(c) BY <2>7 DEF ReleaseReadCpu
  <2>8. CASE ClearCpu(c) BY <2>8 DEF ClearCpu
  <2>9. CASE Xchg0(c) BY <2>9 DEF Xchg0
  <2>10. CASE Popcli(c)
    <3>1. CASE IF_on[c] \/ ncli[c] = 0 BY <2>10, <3>1 DEF Popcli
    <3>2. CASE ~(IF_on[c] \/ ncli[c] = 0) BY <2>10, <3>2 DEF Popcli
    <3> QED BY <3>1, <3>2
  <2> QED BY <1>1, <2>1, <2>2, <2>3, <2>4, <2>5, <2>6, <2>7, <2>8, <2>9, <2>10
          DEF CallStep
<1>2. CASE Interrupt(c) BY <1>2 DEF Interrupt
<1>3. CASE InterruptReturn(c) BY <1>3 DEF InterruptReturn
<1>4. ASSUME NEW l \in Locks, CallAcquire(c, l) PROVE Same(d)
  BY <1>4 DEF CallAcquire
<1>5. ASSUME NEW l \in Locks, CallRelease(c, l) PROVE Same(d)
  BY <1>5 DEF CallRelease
<1> QED
  BY <1>1, <1>2, <1>3, <1>4, <1>5 DEF CpuStep

\* A step that leaves a CPU's variables alone preserves what is known of it.
LEMMA SameView ==
  ASSUME NEW d \in CPUs, Same(d)
  PROVE  /\ PC(d)' = PC(d) /\ Held(d)' = Held(d) /\ Arg(d)' = Arg(d)
         /\ CpuInv(d) => CpuInv(d)'
BY DEF Same, PC, Held, Arg, CpuInv, Suspended, HandlerMasked, Counted, ArgOwned

\* An action that moves the running context of c to w and stays in it.
LEMMA GotoView ==
  ASSUME TypeOK, NEW c \in CPUs, NEW w, depth' = depth, Goto(c, w)
  PROVE  /\ PC(c)' = w
         /\ \A k \in Levels : k # depth[c] => pc'[c][k] = pc[c][k]
BY DEF TypeOK, Goto, PC

\* Suspended contexts stay as they are while the running one executes.
LEMMA SuspendedStep ==
  ASSUME TypeOK, NEW c \in CPUs, Suspended(c), depth' = depth,
         \A k \in Levels : k # depth[c] =>
           pc'[c][k] = pc[c][k] /\ held'[c][k] = held[c][k]
  PROVE  Suspended(c)'
<1> depth[c] \in Int /\ \A k \in Levels : k \in Int
  BY SpinlockAssumption DEF TypeOK, Levels
<1> QED
  BY DEF Suspended

\* What is known of the other CPUs in every action lemma.
LEMMA OthersView ==
  ASSUME TypeOK, NEW c \in CPUs, CpuStep(c)
  PROVE  \A d \in CPUs : d # c =>
           PC(d)' = PC(d) /\ Held(d)' = Held(d) /\ Arg(d)' = Arg(d)
BY OthersSame, SameView

\* A step that changes no ownership and no lock word, and neither enters nor
\* leaves the two windows in which lk->cpu lags behind, preserves LockInv.
LEMMA LockQuiet ==
  ASSUME LockInv, locked' = locked, lkcpu' = lkcpu,
         \A d \in CPUs : Held(d)' = Held(d),
         \A d \in CPUs : \A l \in Locks : Unnamed(d, l)' <=> Unnamed(d, l)
  PROVE  LockInv'
<1>1. \A l \in Locks : locked'[l] <=> \E c \in CPUs : l \in Held(c)'
  BY DEF LockInv
<1>2. \A c, d \in CPUs : \A l \in Locks : l \in Held(c)' /\ l \in Held(d)' => c = d
  BY DEF LockInv
<1>3. \A c \in CPUs : \A l \in Locks :
        lkcpu'[l] = c <=> l \in Held(c)' /\ ~Unnamed(c, l)'
  BY DEF LockInv
<1> QED
  BY <1>1, <1>2, <1>3 DEF LockInv

\* A step of a call that only moves the running context of c between places
\* with the same obligations preserves the whole invariant.
LEMMA MoveStep ==
  ASSUME SpinlockInv, NEW c \in CPUs, CpuStep(c), NEW w \in PCs,
         PC(c) # "cli", w # "cli", w # "panic",
         PC(c) \in Transit <=> w \in Transit,
         PC(c) \in Owning <=> w \in Owning,
         PC(c) \notin {"setcpu", "xchg0"}, w \notin {"setcpu", "xchg0"},
         Goto(c, w),
         UNCHANGED <<locked, lkcpu, IF_on, ncli, intena, depth, arg, eflags, held>>
  PROVE  CpuInv(c)' /\ LockInv'
<1>1. TypeOK /\ CpuInv(c) /\ LockInv
  BY DEF SpinlockInv
<1>2. /\ PC(c)' = w
      /\ \A k \in Levels : k # depth[c] => pc'[c][k] = pc[c][k]
  BY <1>1, GotoView
<1>3. Held(c)' = Held(c) /\ Arg(c)' = Arg(c)
  BY DEF Held, Arg
<1>4. Suspended(c)'
  BY <1>1, <1>2, SuspendedStep DEF CpuInv
<1>5. HandlerMasked(c)' /\ Counted(c)' /\ ArgOwned(c)'
  BY <1>1, <1>2, <1>3 DEF CpuInv, HandlerMasked, Counted, ArgOwned
<1>6. \A d \in CPUs : Held(d)' = Held(d)
  BY <1>1, <1>3, OthersView
<1>7. \A d \in CPUs : \A l \in Locks : Unnamed(d, l)' <=> Unnamed(d, l)
  BY <1>1, <1>2, <1>3, OthersView DEF Unnamed
<1>8. LockInv'
  BY <1>1, <1>6, <1>7, LockQuiet
<1> QED
  BY <1>4, <1>5, <1>8 DEF CpuInv

-----------------------------------------------------------------------------
(* The actions of acquire *)

\* The call of acquire, up to readeflags, preserves the invariant.
LEMMA CallAcquireStep ==
  ASSUME SpinlockInv, NEW c \in CPUs, NEW l \in Locks, CallAcquire(c, l)
  PROVE  CpuInv(c)' /\ LockInv'
<1>1. TypeOK /\ CpuInv(c) /\ LockInv /\ CpuStep(c)
  BY DEF SpinlockInv, CpuStep
<1>2. /\ PC(c) = "idle" /\ PC(c)' = "cli"
      /\ \A k \in Levels : k # depth[c] => pc'[c][k] = pc[c][k]
  BY <1>1, GotoView DEF CallAcquire, At
<1>3. Held(c)' = Held(c) /\ Arg(c)' = l
  BY <1>1, SpinlockAssumption DEF CallAcquire, Held, Arg, TypeOK
<1>4. l \notin Held(c)
  BY SpinlockAssumption DEF CallAcquire
<1>5. eflags'[c][depth'[c]] = IF_on[c]
  BY <1>1 DEF CallAcquire, TypeOK
<1>6. Suspended(c)'
  BY <1>1, <1>2, SuspendedStep DEF CallAcquire, CpuInv
<1>7. HandlerMasked(c)'
  BY <1>1, <1>2, <1>5 DEF CallAcquire, CpuInv, HandlerMasked
<1>8. Counted(c)' /\ ArgOwned(c)'
  BY <1>1, <1>2, <1>3, <1>4 DEF CallAcquire, CpuInv, Counted, ArgOwned, Transit, Owning
<1>9. \A d \in CPUs : Held(d)' = Held(d)
  BY <1>1, <1>3, OthersView
<1>10. \A d \in CPUs : \A m \in Locks : Unnamed(d, m)' <=> Unnamed(d, m)
  BY <1>1, <1>2, OthersView DEF Unnamed
<1>11. LockInv'
  BY <1>1, <1>9, <1>10, LockQuiet DEF CallAcquire
<1> QED
  BY <1>6, <1>7, <1>8, <1>11 DEF CpuInv

\* cli and the count in pushcli preserve the invariant.
LEMMA PushcliStep ==
  ASSUME SpinlockInv, NEW c \in CPUs, Pushcli(c)
  PROVE  CpuInv(c)' /\ LockInv'
<1>1. TypeOK /\ CpuInv(c) /\ LockInv /\ CpuStep(c)
  BY DEF SpinlockInv, CpuStep, CallStep
<1>2. /\ PC(c) = "cli" /\ PC(c)' = "acq_locked"
      /\ \A k \in Levels : k # depth[c] => pc'[c][k] = pc[c][k]
  BY <1>1, GotoView DEF Pushcli, At
<1>3. Held(c)' = Held(c) /\ Arg(c)' = Arg(c)
  BY DEF Pushcli, Held, Arg
<1>4. ~IF_on'[c] /\ ncli'[c] = ncli[c] + 1
  BY <1>1 DEF Pushcli, TypeOK
<1>5. ncli[c] \in Nat /\ intena'[c] = IF ncli[c] = 0 THEN eflags[c][depth[c]] ELSE intena[c]
  BY <1>1 DEF Pushcli, TypeOK
<1>6. Suspended(c)'
  BY <1>1, <1>2, SuspendedStep DEF Pushcli, CpuInv
<1>7. HandlerMasked(c)'
  BY <1>1, <1>2, <1>4, <1>5 DEF Pushcli, CpuInv, HandlerMasked
<1>8. Counted(c)'
  <2>1. PC(c) \notin Transit /\ PC(c)' \in Transit
    BY <1>2 DEF Transit
  <2>2. IsFiniteSet(Held(c)) /\ ncli[c] = Cardinality(Held(c)) + 0
    BY <1>1, <2>1 DEF CpuInv, Counted
  <2>3. Cardinality(Held(c)) \in Nat
    BY <2>2, FS_CardinalityType
  <2>4. ncli'[c] = Cardinality(Held(c)) + 1
    BY <1>4, <2>2, <2>3
  <2> QED BY <1>3, <1>4, <2>1, <2>2, <2>4 DEF Counted
<1>9. ArgOwned(c)'
  BY <1>1, <1>2, <1>3 DEF CpuInv, ArgOwned, Transit, Owning
<1>10. \A d \in CPUs : Held(d)' = Held(d)
  BY <1>1, <1>3, OthersView
<1>11. \A d \in CPUs : \A m \in Locks : Unnamed(d, m)' <=> Unnamed(d, m)
  BY <1>1, <1>2, OthersView DEF Unnamed
<1>12. LockInv'
  BY <1>1, <1>10, <1>11, LockQuiet DEF Pushcli
<1> QED
  BY <1>6, <1>7, <1>8, <1>9, <1>12 DEF CpuInv

\* holding's read of lk->locked in acquire preserves the invariant.
LEMMA AcquireReadLockedStep ==
  ASSUME SpinlockInv, NEW c \in CPUs, AcquireReadLocked(c)
  PROVE  CpuInv(c)' /\ LockInv'
BY MoveStep DEF AcquireReadLocked, At, CpuStep, CallStep, Transit, Owning, PCs

\* holding() in acquire reads lk->cpu of a lock this CPU does not own.
LEMMA AcquireReadCpuStep ==
  ASSUME SpinlockInv, NEW c \in CPUs, AcquireReadCpu(c)
  PROVE  CpuInv(c)' /\ LockInv'
<1>1. Arg(c) \in Locks
  BY DEF SpinlockInv, TypeOK, Arg
<1>2. Arg(c) \notin Held(c)
  BY DEF SpinlockInv, CpuInv, ArgOwned, AcquireReadCpu, At, Transit
<1>3. lkcpu[Arg(c)] # c
  BY <1>1, <1>2 DEF SpinlockInv, LockInv
<1>4. Goto(c, "spin")
  BY <1>3 DEF AcquireReadCpu
<1> QED
  BY <1>4, MoveStep DEF AcquireReadCpu, At, CpuStep, CallStep, Transit, Owning, PCs

\* The xchg that wins: no CPU owned the lock, now c does and lk->cpu lags.
LEMMA Xchg1Step ==
  ASSUME SpinlockInv, NEW c \in CPUs, Xchg1(c)
  PROVE  CpuInv(c)' /\ LockInv'
<1> DEFINE l == Arg(c)
<1>1. TypeOK /\ CpuInv(c) /\ LockInv /\ CpuStep(c) /\ l \in Locks
  BY DEF SpinlockInv, CpuStep, CallStep, TypeOK, Arg
<1>2. /\ PC(c) = "spin" /\ PC(c)' = "setcpu"
      /\ \A k \in Levels : k # depth[c] => pc'[c][k] = pc[c][k]
  BY <1>1, GotoView DEF Xchg1, At
<1>3. /\ Held(c)' = Held(c) \cup {l}
      /\ \A k \in Levels : k # depth[c] => held'[c][k] = held[c][k]
  BY <1>1 DEF Xchg1, Held, TypeOK
<1>4. Arg(c)' = l
  BY DEF Xchg1, Arg
<1>5. \A d \in CPUs : l \notin Held(d)
  BY <1>1 DEF Xchg1, LockInv
<1>6. Suspended(c)'
  BY <1>1, <1>2, <1>3, SuspendedStep DEF Xchg1, CpuInv
<1>7. HandlerMasked(c)'
  BY <1>1, <1>2 DEF Xchg1, CpuInv, HandlerMasked
<1>8. Counted(c)'
  <2>1. /\ IsFiniteSet(Held(c)')
        /\ Cardinality(Held(c)') = Cardinality(Held(c)) + 1
    BY <1>1, <1>3, <1>5, FS_AddElement DEF CpuInv, Counted
  <2>2. Cardinality(Held(c)) \in Nat
    BY <1>1, FS_CardinalityType DEF CpuInv, Counted
  <2> QED
    BY <1>1, <1>2, <2>1, <2>2 DEF Xchg1, CpuInv, Counted, Transit
<1>9. ArgOwned(c)'
  BY <1>1, <1>2, <1>3, <1>4 DEF ArgOwned, Transit, Owning
<1>10. LockInv'
  <2>1. \A d \in CPUs : d # c => Held(d)' = Held(d)
    BY <1>1, OthersView
  <2>2. \A m \in Locks : locked'[m] <=> (m = l \/ locked[m])
    BY <1>1 DEF Xchg1, TypeOK
  <2>3. \A m \in Locks : locked'[m] <=> \E d \in CPUs : m \in Held(d)'
    BY <1>1, <1>3, <2>1, <2>2 DEF LockInv
  <2>4. \A b, d \in CPUs : \A m \in Locks : m \in Held(b)' /\ m \in Held(d)' => b = d
    BY <1>1, <1>3, <1>5, <2>1 DEF LockInv
  <2>5. ASSUME NEW d \in CPUs, NEW m \in Locks
        PROVE  lkcpu'[m] = d <=> m \in Held(d)' /\ ~Unnamed(d, m)'
    <3>1. CASE d # c
      BY <1>1, <2>1, <3>1, OthersView DEF Xchg1, LockInv, Unnamed
    <3>2. CASE d = c
      BY <1>1, <1>2, <1>3, <1>4, <1>5, <3>2 DEF Xchg1, LockInv, Unnamed
    <3> QED BY <3>1, <3>2
  <2> QED BY <2>3, <2>4, <2>5 DEF LockInv
<1> QED
  BY <1>6, <1>7, <1>8, <1>9, <1>10 DEF CpuInv

\* Setting lk->cpu closes the first window.
LEMMA SetCpuStep ==
  ASSUME SpinlockInv, NEW c \in CPUs, SetCpu(c)
  PROVE  CpuInv(c)' /\ LockInv'
<1> DEFINE l == Arg(c)
<1>1. TypeOK /\ CpuInv(c) /\ LockInv /\ CpuStep(c) /\ l \in Locks
  BY DEF SpinlockInv, CpuStep, CallStep, TypeOK, Arg
<1>2. /\ PC(c) = "setcpu" /\ PC(c)' = "idle"
      /\ \A k \in Levels : k # depth[c] => pc'[c][k] = pc[c][k]
  BY <1>1, GotoView DEF SetCpu, At
<1>3. Held(c)' = Held(c) /\ Arg(c)' = l
  BY DEF SetCpu, Held, Arg
<1>4. l \in Held(c)
  BY <1>1, <1>2 DEF CpuInv, ArgOwned, Owning
<1>5. Suspended(c)'
  BY <1>1, <1>2, SuspendedStep DEF SetCpu, CpuInv
<1>6. HandlerMasked(c)' /\ Counted(c)' /\ ArgOwned(c)'
  BY <1>1, <1>2, <1>3
  DEF SetCpu, CpuInv, HandlerMasked, Counted, ArgOwned, Transit, Owning
<1>7. LockInv'
  <2>1. \A d \in CPUs : Held(d)' = Held(d)
    BY <1>1, <1>3, OthersView
  <2>2. \A m \in Locks : locked'[m] <=> \E d \in CPUs : m \in Held(d)'
    BY <1>1, <2>1 DEF SetCpu, LockInv
  <2>3. \A b, d \in CPUs : \A m \in Locks : m \in Held(b)' /\ m \in Held(d)' => b = d
    BY <1>1, <2>1 DEF LockInv
  <2>4. \A m \in Locks : lkcpu'[m] = IF m = l THEN c ELSE lkcpu[m]
    BY <1>1 DEF SetCpu, TypeOK
  <2>5. ASSUME NEW d \in CPUs, NEW m \in Locks
        PROVE  lkcpu'[m] = d <=> m \in Held(d)' /\ ~Unnamed(d, m)'
    <3>1. CASE d # c
      BY <1>1, <1>4, <2>1, <2>4, <3>1, OthersView DEF LockInv, Unnamed
    <3>2. CASE d = c
      BY <1>1, <1>2, <1>3, <1>4, <2>1, <2>4, <3>2 DEF LockInv, Unnamed
    <3> QED BY <3>1, <3>2
  <2> QED BY <2>2, <2>3, <2>5 DEF LockInv
<1> QED
  BY <1>5, <1>6, <1>7 DEF CpuInv

-----------------------------------------------------------------------------
(* The actions of release *)

\* The call of release by an owner preserves the invariant.
LEMMA CallReleaseStep ==
  ASSUME SpinlockInv, NEW c \in CPUs, NEW l \in Locks, CallRelease(c, l)
  PROVE  CpuInv(c)' /\ LockInv'
<1>1. TypeOK /\ CpuInv(c) /\ LockInv /\ CpuStep(c)
  BY DEF SpinlockInv, CpuStep
<1>2. /\ PC(c) = "idle" /\ PC(c)' = "rel_locked"
      /\ \A k \in Levels : k # depth[c] => pc'[c][k] = pc[c][k]
  BY <1>1, GotoView DEF CallRelease, At
<1>3. Held(c)' = Held(c) /\ Arg(c)' = l /\ l \in Held(c)
  BY <1>1 DEF CallRelease, Held, Arg, TypeOK
<1>4. Suspended(c)'
  BY <1>1, <1>2, SuspendedStep DEF CallRelease, CpuInv
<1>5. HandlerMasked(c)' /\ Counted(c)' /\ ArgOwned(c)'
  BY <1>1, <1>2, <1>3
  DEF CallRelease, CpuInv, HandlerMasked, Counted, ArgOwned, Transit, Owning
<1>6. \A d \in CPUs : Held(d)' = Held(d)
  BY <1>1, <1>3, OthersView
<1>7. \A d \in CPUs : \A m \in Locks : Unnamed(d, m)' <=> Unnamed(d, m)
  BY <1>1, <1>2, OthersView DEF Unnamed
<1>8. LockInv'
  BY <1>1, <1>6, <1>7, LockQuiet DEF CallRelease
<1> QED
  BY <1>4, <1>5, <1>8 DEF CpuInv

\* holding() in release reads the lock word of a lock this CPU owns.
LEMMA ReleaseReadLockedStep ==
  ASSUME SpinlockInv, NEW c \in CPUs, ReleaseReadLocked(c)
  PROVE  CpuInv(c)' /\ LockInv'
<1>1. Arg(c) \in Locks
  BY DEF SpinlockInv, TypeOK, Arg
<1>2. Arg(c) \in Held(c)
  BY DEF SpinlockInv, CpuInv, ArgOwned, ReleaseReadLocked, At, Owning
<1>3. locked[Arg(c)]
  BY <1>1, <1>2 DEF SpinlockInv, LockInv
<1>4. Goto(c, "rel_cpu")
  BY <1>3 DEF ReleaseReadLocked
<1> QED
  BY <1>4, MoveStep DEF ReleaseReadLocked, At, CpuStep, CallStep, Transit, Owning, PCs

\* holding() in release reads lk->cpu of a lock this CPU owns.
LEMMA ReleaseReadCpuStep ==
  ASSUME SpinlockInv, NEW c \in CPUs, ReleaseReadCpu(c)
  PROVE  CpuInv(c)' /\ LockInv'
<1>1. Arg(c) \in Locks
  BY DEF SpinlockInv, TypeOK, Arg
<1>2. Arg(c) \in Held(c) /\ ~Unnamed(c, Arg(c))
  BY DEF SpinlockInv, CpuInv, ArgOwned, ReleaseReadCpu, At, Owning, Unnamed
<1>3. lkcpu[Arg(c)] = c
  BY <1>1, <1>2 DEF SpinlockInv, LockInv
<1>4. Goto(c, "clearcpu")
  BY <1>3 DEF ReleaseReadCpu
<1> QED
  BY <1>4, MoveStep DEF ReleaseReadCpu, At, CpuStep, CallStep, Transit, Owning, PCs

\* Clearing lk->cpu opens the second window.
LEMMA ClearCpuStep ==
  ASSUME SpinlockInv, NEW c \in CPUs, ClearCpu(c)
  PROVE  CpuInv(c)' /\ LockInv'
<1> DEFINE l == Arg(c)
<1>1. TypeOK /\ CpuInv(c) /\ LockInv /\ CpuStep(c) /\ l \in Locks
  BY DEF SpinlockInv, CpuStep, CallStep, TypeOK, Arg
<1>2. /\ PC(c) = "clearcpu" /\ PC(c)' = "xchg0"
      /\ \A k \in Levels : k # depth[c] => pc'[c][k] = pc[c][k]
  BY <1>1, GotoView DEF ClearCpu, At
<1>3. Held(c)' = Held(c) /\ Arg(c)' = l
  BY DEF ClearCpu, Held, Arg
<1>4. l \in Held(c)
  BY <1>1, <1>2 DEF CpuInv, ArgOwned, Owning
<1>5. Suspended(c)'
  BY <1>1, <1>2, SuspendedStep DEF ClearCpu, CpuInv
<1>6. HandlerMasked(c)' /\ Counted(c)' /\ ArgOwned(c)'
  <2>1. /\ PC(c) \notin Transit /\ PC(c)' \notin Transit \cup {"cli", "panic"}
        /\ UNCHANGED <<ncli, IF_on, intena, depth, eflags>>
    BY <1>2 DEF ClearCpu, Transit
  <2>2. HandlerMasked(c)'
    BY <1>1, <2>1 DEF CpuInv, HandlerMasked
  <2>3. Counted(c)'
    BY <1>1, <1>3, <2>1 DEF CpuInv, Counted
  <2>4. ArgOwned(c)'
    BY <1>3, <1>4, <2>1 DEF ArgOwned
  <2> QED BY <2>2, <2>3, <2>4
<1>7. LockInv'
  <2>1. \A d \in CPUs : Held(d)' = Held(d)
    BY <1>1, <1>3, OthersView
  <2>2. \A m \in Locks : locked'[m] <=> \E d \in CPUs : m \in Held(d)'
    BY <1>1, <2>1 DEF ClearCpu, LockInv
  <2>3. \A b, d \in CPUs : \A m \in Locks : m \in Held(b)' /\ m \in Held(d)' => b = d
    BY <1>1, <2>1 DEF LockInv
  <2>4. \A m \in Locks : lkcpu'[m] = IF m = l THEN NoCPU ELSE lkcpu[m]
    BY <1>1 DEF ClearCpu, TypeOK
  <2>5. ASSUME NEW d \in CPUs, NEW m \in Locks
        PROVE  lkcpu'[m] = d <=> m \in Held(d)' /\ ~Unnamed(d, m)'
    <3>1. CASE d # c
      <4>1. Unnamed(d, m)' <=> Unnamed(d, m)
        BY <1>1, <3>1, OthersView DEF Unnamed
      <4>2. lkcpu[m] = d <=> m \in Held(d) /\ ~Unnamed(d, m)
        BY <1>1 DEF LockInv
      <4>3. m = l => m \notin Held(d)
        BY <1>1, <1>4, <3>1 DEF LockInv
      <4> QED
        BY <2>1, <2>4, <4>1, <4>2, <4>3, SpinlockAssumption
    <3>2. CASE d = c
      <4>1. Unnamed(c, m)' <=> m = l
        BY <1>2, <1>3 DEF Unnamed
      <4>2. ~Unnamed(c, m)
        BY <1>2 DEF Unnamed
      <4>3. lkcpu[m] = c <=> m \in Held(c)
        BY <1>1, <4>2 DEF LockInv
      <4> QED
        BY <2>1, <2>4, <3>2, <4>1, <4>3, SpinlockAssumption
    <3> QED BY <3>1, <3>2
  <2> QED BY <2>2, <2>3, <2>5 DEF LockInv
<1> QED
  BY <1>5, <1>6, <1>7 DEF CpuInv

\* Clearing the lock word gives up the lock: c was its only owner.
LEMMA Xchg0Step ==
  ASSUME SpinlockInv, NEW c \in CPUs, Xchg0(c)
  PROVE  CpuInv(c)' /\ LockInv'
<1> DEFINE l == Arg(c)
<1>1. TypeOK /\ CpuInv(c) /\ LockInv /\ CpuStep(c) /\ l \in Locks
  BY DEF SpinlockInv, CpuStep, CallStep, TypeOK, Arg
<1>2. /\ PC(c) = "xchg0" /\ PC(c)' = "popcli"
      /\ \A k \in Levels : k # depth[c] => pc'[c][k] = pc[c][k]
  BY <1>1, GotoView DEF Xchg0, At
<1>3. /\ Held(c)' = Held(c) \ {l}
      /\ \A k \in Levels : k # depth[c] => held'[c][k] = held[c][k]
  BY <1>1 DEF Xchg0, Held, TypeOK
<1>4. Arg(c)' = l
  BY DEF Xchg0, Arg
<1>5. l \in Held(c)
  BY <1>1, <1>2 DEF CpuInv, ArgOwned, Owning
<1>6. Suspended(c)'
  BY <1>1, <1>2, <1>3, SuspendedStep DEF Xchg0, CpuInv
<1>7. HandlerMasked(c)'
  BY <1>1, <1>2 DEF Xchg0, CpuInv, HandlerMasked
<1>8. Counted(c)'
  <2>1. /\ IsFiniteSet(Held(c)')
        /\ Cardinality(Held(c)') = Cardinality(Held(c)) - 1
    BY <1>1, <1>3, <1>5, FS_RemoveElement DEF CpuInv, Counted
  <2>2. Cardinality(Held(c)) \in Nat
    BY <1>1, FS_CardinalityType DEF CpuInv, Counted
  <2> QED
    BY <1>1, <1>2, <2>1, <2>2 DEF Xchg0, CpuInv, Counted, Transit
<1>9. ArgOwned(c)'
  BY <1>1, <1>2, <1>3, <1>4 DEF ArgOwned, Transit, Owning
<1>10. LockInv'
  <2>1. \A d \in CPUs : d # c => Held(d)' = Held(d) /\ l \notin Held(d)
    BY <1>1, <1>5, OthersView DEF LockInv
  <2>2. \A m \in Locks : locked'[m] <=> (m # l /\ locked[m])
    BY <1>1 DEF Xchg0, TypeOK
  <2>3. \A m \in Locks : locked'[m] <=> \E d \in CPUs : m \in Held(d)'
    BY <1>1, <1>3, <2>1, <2>2 DEF LockInv
  <2>4. \A b, d \in CPUs : \A m \in Locks : m \in Held(b)' /\ m \in Held(d)' => b = d
    <3>1. \A d \in CPUs : Held(d)' \subseteq Held(d)
      BY <1>3, <2>1
    <3> QED BY <1>1, <3>1 DEF LockInv
  <2>5. ASSUME NEW d \in CPUs, NEW m \in Locks
        PROVE  lkcpu'[m] = d <=> m \in Held(d)' /\ ~Unnamed(d, m)'
    <3>1. CASE d # c
      BY <1>1, <2>1, <3>1, OthersView DEF Xchg0, LockInv, Unnamed
    <3>2. CASE d = c
      BY <1>1, <1>2, <1>3, <1>4, <3>2 DEF Xchg0, LockInv, Unnamed
    <3> QED BY <3>1, <3>2
  <2> QED BY <2>3, <2>4, <2>5 DEF LockInv
<1> QED
  BY <1>6, <1>7, <1>8, <1>9, <1>10 DEF CpuInv

\* popcli finds interrupts off and a positive count; it turns interrupts on
\* only when nothing is owned, and never in a handler.
LEMMA PopcliStep ==
  ASSUME SpinlockInv, NEW c \in CPUs, Popcli(c)
  PROVE  CpuInv(c)' /\ LockInv'
<1>1. TypeOK /\ CpuInv(c) /\ LockInv /\ CpuStep(c)
  BY DEF SpinlockInv, CpuStep, CallStep
<1>2. Cardinality(Held(c)) \in Nat
  BY <1>1, FS_CardinalityType DEF CpuInv, Counted
<1>3. PC(c) = "popcli" /\ ncli[c] = Cardinality(Held(c)) + 1
  BY <1>1 DEF Popcli, At, CpuInv, Counted, Transit
<1>4. ~(IF_on[c] \/ ncli[c] = 0)
  BY <1>1, <1>2, <1>3 DEF CpuInv, Counted
<1>5. /\ Goto(c, "idle")
      /\ ncli' = [ncli EXCEPT ![c] = @ - 1]
      /\ IF_on' = IF ncli[c] = 1 /\ intena[c] THEN [IF_on EXCEPT ![c] = TRUE] ELSE IF_on
      /\ UNCHANGED <<locked, lkcpu, intena, depth, arg, eflags, held>>
  BY <1>4 DEF Popcli
<1>6. /\ PC(c)' = "idle"
      /\ \A k \in Levels : k # depth[c] => pc'[c][k] = pc[c][k]
  BY <1>1, <1>5, GotoView
<1>7. Held(c)' = Held(c) /\ Arg(c)' = Arg(c)
  BY <1>5 DEF Held, Arg
<1>8. ncli'[c] = Cardinality(Held(c))
  BY <1>1, <1>2, <1>3, <1>5 DEF TypeOK
<1>9. IF_on'[c] => ncli[c] = 1 /\ intena[c]
  BY <1>1, <1>4, <1>5 DEF TypeOK
<1>10. Suspended(c)'
  BY <1>1, <1>5, <1>6, SuspendedStep DEF CpuInv
<1>11. HandlerMasked(c)'
  <2>1. ncli[c] > 0
    BY <1>2, <1>3
  <2>2. ASSUME depth[c] > 1 PROVE depth[c] = 2 /\ ~intena[c]
    BY <1>1, <2>1, <2>2 DEF CpuInv, HandlerMasked
  <2>3. /\ UNCHANGED <<depth, intena, eflags>>
        /\ PC(c)' # "cli"
    BY <1>5, <1>6
  <2> QED BY <1>9, <2>2, <2>3 DEF HandlerMasked
<1>12. Counted(c)'
  <2>1. PC(c)' \notin Transit
    BY <1>6 DEF Transit
  <2>2. IsFiniteSet(Held(c))
    BY <1>1 DEF CpuInv, Counted
  <2>3. ncli'[c] = Cardinality(Held(c)) + 0
    BY <1>2, <1>8
  <2>4. ncli'[c] > 0 => ~IF_on'[c]
    BY <1>2, <1>3, <1>8, <1>9
  <2> QED BY <1>7, <2>1, <2>2, <2>3, <2>4 DEF Counted
<1>13. ArgOwned(c)'
  BY <1>6 DEF ArgOwned, Transit, Owning
<1>14. \A d \in CPUs : Held(d)' = Held(d)
  BY <1>1, <1>7, OthersView
<1>15. \A d \in CPUs : \A m \in Locks : Unnamed(d, m)' <=> Unnamed(d, m)
  BY <1>1, <1>3, <1>6, OthersView DEF Unnamed
<1>16. LockInv'
  BY <1>1, <1>5, <1>14, <1>15, LockQuiet
<1> QED
  BY <1>10, <1>11, <1>12, <1>13, <1>16 DEF CpuInv

-----------------------------------------------------------------------------
(* Interrupts *)

\* A context that owns nothing and is between calls counts nothing.
LEMMA IdleCounted ==
  ASSUME NEW c \in CPUs, PC(c)' \in {"idle", "cli"}, Held(c)' = {}, ncli'[c] = 0
  PROVE  Counted(c)' /\ ArgOwned(c)'
<1>1. PC(c)' \notin Transit /\ PC(c)' \notin Owning /\ PC(c)' # "panic"
  BY DEF Transit, Owning
<1>2. IsFiniteSet(Held(c)') /\ Cardinality(Held(c)') = 0
  BY FS_EmptySet
<1>3. ncli'[c] = Cardinality(Held(c)') + 0 /\ ~(ncli'[c] > 0)
  BY <1>2
<1>4. Counted(c)'
  BY ONLY <1>1, <1>2, <1>3 DEF Counted
<1>5. ArgOwned(c)'
  BY <1>1 DEF ArgOwned
<1> QED
  BY <1>4, <1>5

\* An interrupt arrives only while the running context owns nothing.
LEMMA InterruptStep ==
  ASSUME SpinlockInv, NEW c \in CPUs, Interrupt(c)
  PROVE  CpuInv(c)' /\ LockInv'
<1>1. TypeOK /\ CpuInv(c) /\ LockInv /\ CpuStep(c)
  BY DEF SpinlockInv, CpuStep
<1>2. depth[c] \in Levels /\ depth[c] + 1 \in Levels /\ depth'[c] = depth[c] + 1
      /\ ~IF_on'[c] /\ ncli[c] \in Nat
  BY <1>1, SpinlockAssumption DEF Interrupt, TypeOK, Levels
<1>3. depth[c] = 1 /\ depth'[c] = 2
  <2>1. ~(depth[c] > 1)
    BY <1>1 DEF Interrupt, CpuInv, HandlerMasked
  <2> QED BY <1>2, <2>1 DEF Levels
<1>4. ncli[c] = 0
  <2>1. Counted(c) /\ IF_on[c]
    BY <1>1 DEF CpuInv, Interrupt
  <2>2. ~(ncli[c] > 0)
    BY <2>1 DEF Counted
  <2>3. ncli[c] \in Nat
    BY <1>2
  <2> QED BY ONLY <2>2, <2>3
<1>5. Held(c) = {} /\ PC(c) \notin Transit
  <2>1. Counted(c) /\ IsFiniteSet(Held(c))
    BY <1>1 DEF CpuInv, Counted
  <2>2. Cardinality(Held(c)) = 0 /\ PC(c) \notin Transit
    BY ONLY <1>4, <2>1, c \in CPUs, CountedValue
  <2> QED BY <2>1, <2>2, FS_EmptySet
<1>6. PC(c) \in {"idle", "cli"}
  <2>1. PC(c) \in PCs
    BY <1>1 DEF TypeOK, PC
  <2> QED BY <1>1, <1>5, <2>1 DEF CpuInv, ArgOwned, Owning, Transit, PCs
<1>7. \A k \in Levels : pc'[c][k] = pc[c][k] /\ held'[c][k] = held[c][k]
  BY DEF Interrupt
<1>8. PC(c)' = "idle" /\ Held(c)' = {}
  <2>1. 2 \in Levels /\ PC(c)' = pc[c][2] /\ Held(c)' = held[c][2]
    <3>1. 2 \in Levels
      BY <1>2, <1>3
    <3>2. PC(c)' = pc'[c][2] /\ Held(c)' = held'[c][2]
      BY ONLY <1>3 DEF PC, Held
    <3> QED BY ONLY <1>7, <3>1, <3>2
  <2>2. Suspended(c) /\ 2 > depth[c] /\ 2 # depth[c]
    BY <1>1, <1>3 DEF CpuInv
  <2> QED BY ONLY <2>1, <2>2 DEF Suspended
<1>9. Suspended(c)'
  <2>1. pc[c][1] \in {"idle", "cli"} /\ held[c][1] = {}
    BY ONLY <1>3, <1>5, <1>6 DEF PC, Held
  <2>2. ASSUME NEW k \in Levels
        PROVE  /\ k # 2 => pc[c][k] \in {"idle", "cli"} /\ held[c][k] = {}
               /\ k > 2 => pc[c][k] = "idle"
    <3>1. k \in Int /\ Suspended(c)
      BY <1>1 DEF Levels, CpuInv
    <3>2. k > 2 => k > 1
      BY ONLY <3>1
    <3> QED BY ONLY <1>3, <2>1, <3>1, <3>2, k \in Levels DEF Suspended
  <2> QED BY ONLY <1>3, <1>7, <2>2 DEF Suspended
<1>10. HandlerMasked(c)'
  <2>1. ~(ncli'[c] > 0)
    BY <1>4 DEF Interrupt
  <2> QED BY <1>2, <1>3, <1>8, <2>1 DEF HandlerMasked
<1>11. Counted(c)' /\ ArgOwned(c)'
  <2>1. ncli'[c] = 0
    BY <1>4 DEF Interrupt
  <2> QED BY <1>8, <2>1, IdleCounted
<1>12. \A d \in CPUs : Held(d)' = Held(d)
  BY <1>1, <1>5, <1>8, OthersView
<1>13. \A d \in CPUs : \A m \in Locks : Unnamed(d, m)' <=> Unnamed(d, m)
  BY <1>1, <1>6, <1>8, OthersView DEF Unnamed
<1>14. LockInv'
  BY <1>1, <1>12, <1>13, LockQuiet DEF Interrupt
<1> QED
  BY <1>9, <1>10, <1>11, <1>14 DEF CpuInv

\* A handler returns with nothing counted, to code that was interruptible.
LEMMA InterruptReturnStep ==
  ASSUME SpinlockInv, NEW c \in CPUs, InterruptReturn(c)
  PROVE  CpuInv(c)' /\ LockInv'
<1>1. TypeOK /\ CpuInv(c) /\ LockInv /\ CpuStep(c)
  BY DEF SpinlockInv, CpuStep
<1>2. depth[c] = 2 /\ depth'[c] = 1 /\ 1 \in Levels
  BY <1>1, SpinlockAssumption DEF InterruptReturn, CpuInv, HandlerMasked, TypeOK, Levels
<1>3. PC(c) = "idle" /\ Held(c) = {}
  BY DEF InterruptReturn, At
<1>4. ncli[c] = 0
  BY <1>1, <1>3, FS_EmptySet DEF CpuInv, Counted, Transit
<1>5. \A k \in Levels : pc'[c][k] = pc[c][k] /\ held'[c][k] = held[c][k]
  BY DEF InterruptReturn
<1>6. PC(c)' \in {"idle", "cli"} /\ Held(c)' = {}
  <2>1. PC(c)' = pc'[c][1] /\ Held(c)' = held'[c][1]
    BY ONLY <1>2 DEF PC, Held
  <2>2. PC(c)' = pc[c][1] /\ Held(c)' = held[c][1]
    BY ONLY <1>2, <1>5, <2>1
  <2>3. Suspended(c) /\ 1 # depth[c] /\ 1 \in Levels
    BY <1>1, <1>2 DEF CpuInv
  <2> QED BY ONLY <2>2, <2>3 DEF Suspended
<1>7. Suspended(c)'
  <2>1. pc[c][2] = "idle" /\ held[c][2] = {}
    BY ONLY <1>2, <1>3 DEF PC, Held
  <2>2. ASSUME NEW k \in Levels
        PROVE  /\ k # 1 => pc[c][k] \in {"idle", "cli"} /\ held[c][k] = {}
               /\ k > 1 => pc[c][k] = "idle"
    <3>1. k \in Int /\ Suspended(c)
      BY <1>1 DEF Levels, CpuInv
    <3>2. k > 1 => k = 2 \/ k > 2
      BY ONLY <3>1
    <3> QED BY ONLY <1>2, <2>1, <3>1, <3>2, k \in Levels DEF Suspended
  <2> QED BY ONLY <1>2, <1>5, <2>2 DEF Suspended
<1>8. HandlerMasked(c)'
  BY <1>2 DEF HandlerMasked
<1>9. Counted(c)' /\ ArgOwned(c)'
  <2>1. ncli'[c] = 0
    BY <1>4 DEF InterruptReturn
  <2>2. PC(c)' = "cli" => Arg(c)' \notin Held(c)'
    BY <1>6
  <2> QED BY <1>6, <2>1, IdleCounted
<1>10. \A d \in CPUs : Held(d)' = Held(d)
  BY <1>1, <1>3, <1>6, OthersView
<1>11. \A d \in CPUs : \A m \in Locks : Unnamed(d, m)' <=> Unnamed(d, m)
  BY <1>1, <1>3, <1>6, OthersView DEF Unnamed
<1>12. LockInv'
  BY <1>1, <1>10, <1>11, LockQuiet DEF InterruptReturn
<1> QED
  BY <1>7, <1>8, <1>9, <1>12 DEF CpuInv

-----------------------------------------------------------------------------
(* The theorems *)

\* The invariant holds after initlock, before any call.
LEMMA InitInv == Init => SpinlockInv
<1> SUFFICES ASSUME Init PROVE SpinlockInv
  OBVIOUS
<1> USE SpinlockAssumption DEF Init
<1>1. 1 \in Levels
  BY DEF Levels
<1>2. TypeOK
  BY <1>1 DEF TypeOK, PCs
<1>3. \A c \in CPUs : PC(c) = "idle" /\ Held(c) = {}
  BY <1>1 DEF PC, Held
<1>4. ASSUME NEW c \in CPUs PROVE CpuInv(c)
  <2>1. Suspended(c) /\ HandlerMasked(c)
    <3>1. depth[c] = 1 /\ \A k \in Levels : pc[c][k] = "idle" /\ held[c][k] = {}
      OBVIOUS
    <3>2. Suspended(c)
      BY ONLY <3>1 DEF Suspended
    <3>3. HandlerMasked(c)
      BY ONLY <3>1 DEF HandlerMasked
    <3> QED BY ONLY <3>2, <3>3
  <2>2. ArgOwned(c)
    BY <1>3 DEF ArgOwned, Transit, Owning
  <2>3. Counted(c)
    <3>1. ncli[c] = 0 /\ IsFiniteSet(Held(c)) /\ Cardinality(Held(c)) = 0
      BY <1>3, FS_EmptySet
    <3>2. PC(c) \notin Transit
      BY <1>3 DEF Transit
    <3>3. ncli[c] = Cardinality(Held(c)) + 0 /\ ~(ncli[c] > 0)
      BY ONLY <3>1
    <3> QED BY ONLY <3>1, <3>2, <3>3 DEF Counted
  <2> QED BY <2>1, <2>2, <2>3 DEF CpuInv
<1>5. LockInv
  BY <1>3 DEF LockInv
<1> QED
  BY <1>2, <1>4, <1>5 DEF SpinlockInv

\* The invariant is inductive.
LEMMA NextInv == SpinlockInv /\ [Next]_vars => SpinlockInv'
<1> SUFFICES ASSUME SpinlockInv, [Next]_vars PROVE SpinlockInv'
  OBVIOUS
<1>1. TypeOK'
  BY TypeStep DEF SpinlockInv
<1>2. ASSUME NEW c \in CPUs, CpuStep(c) PROVE (\A d \in CPUs : CpuInv(d)') /\ LockInv'
  <2>1. CpuInv(c)' /\ LockInv'
    BY <1>2, PushcliStep, AcquireReadLockedStep, AcquireReadCpuStep, Xchg1Step,
       SetCpuStep, ReleaseReadLockedStep, ReleaseReadCpuStep, ClearCpuStep,
       Xchg0Step, PopcliStep, InterruptStep, InterruptReturnStep,
       CallAcquireStep, CallReleaseStep
    DEF CpuStep, CallStep
  <2>2. \A d \in CPUs : d # c => CpuInv(d)'
    BY <1>2, OthersSame, SameView DEF SpinlockInv
  <2> QED BY <2>1, <2>2
<1>3. CASE UNCHANGED vars
  <2>1. \A d \in CPUs : Same(d)
    BY <1>3 DEF vars, Same
  <2>2. \A d \in CPUs : CpuInv(d)' /\ Held(d)' = Held(d)
                        /\ \A l \in Locks : Unnamed(d, l)' <=> Unnamed(d, l)
    BY <2>1, SameView DEF SpinlockInv, Unnamed
  <2>3. LockInv'
    BY <1>3, <2>2, LockQuiet DEF SpinlockInv, vars
  <2> QED BY <1>1, <2>2, <2>3 DEF SpinlockInv
<1> QED
  BY <1>1, <1>2, <1>3 DEF Next, SpinlockInv

\* The state of every lock, CPU and context keeps its type.
THEOREM SpinlockTyping == Spec => []TypeOK
<1>1. SpinlockInv => TypeOK
  BY DEF SpinlockInv
<1> QED
  BY <1>1, InitInv, NextInv, PTL DEF Spec

\* acquire and release give mutual exclusion between any number of CPUs, and
\* between a CPU's handlers and the code they interrupt.
THEOREM SpinlockExclusion == Spec => []MutualExclusion
<1>1. SpinlockInv => MutualExclusion
  <2> SUFFICES ASSUME SpinlockInv, NEW c \in CPUs, NEW d \in CPUs,
                      NEW j \in Levels, NEW k \in Levels,
                      held[c][j] \cap held[d][k] # {}
               PROVE  c = d /\ j = k
    BY DEF MutualExclusion
  <2>1. j = depth[c] /\ k = depth[d]
    BY DEF SpinlockInv, CpuInv, Suspended
  <2>2. PICK l : l \in Held(c) /\ l \in Held(d)
    BY <2>1 DEF Held
  <2>3. l \in Locks
    BY <2>1, <2>2 DEF SpinlockInv, TypeOK, Held
  <2> QED
    BY <2>1, <2>2, <2>3 DEF SpinlockInv, LockInv
<1> QED
  BY <1>1, InitInv, NextInv, PTL DEF Spec

\* The panics of acquire, release and popcli are unreachable for callers that
\* nest locks in order: the racy reads in holding() are exact when it matters.
THEOREM SpinlockNoPanic == Spec => []NoPanic
<1>1. SpinlockInv => NoPanic
  BY DEF SpinlockInv, CpuInv, Suspended, ArgOwned, PC, NoPanic
<1> QED
  BY <1>1, InitInv, NextInv, PTL DEF Spec

\* A CPU that owns or waits for a lock cannot be interrupted.
THEOREM SpinlockMasked == Spec => []InterruptsOffInside
<1>1. SpinlockInv => InterruptsOffInside
  <2> SUFFICES ASSUME SpinlockInv, NEW c \in CPUs, NEW k \in 1..depth[c],
                      held[c][k] # {} \/ pc[c][k] \notin {"idle", "cli"}
               PROVE  ~IF_on[c]
    BY DEF InterruptsOffInside
  <2>1. depth[c] \in Levels /\ k \in Levels
    BY SpinlockAssumption DEF SpinlockInv, TypeOK, Levels
  <2>2. k = depth[c]
    BY <2>1 DEF SpinlockInv, CpuInv, Suspended
  <2>3. /\ IsFiniteSet(Held(c)) /\ Cardinality(Held(c)) \in Nat
        /\ Held(c) # {} => Cardinality(Held(c)) # 0
    BY FS_CardinalityType, FS_EmptySet DEF SpinlockInv, CpuInv, Counted
  <2>4. Held(c) # {} \/ PC(c) \in Transit
    <3>1. PC(c) \in PCs /\ (Held(c) # {} \/ PC(c) \notin {"idle", "cli"})
      BY <2>1, <2>2 DEF Held, PC, SpinlockInv, TypeOK
    <3> QED BY <3>1 DEF SpinlockInv, CpuInv, ArgOwned, PCs, Transit, Owning
  <2>5. Counted(c)
    BY DEF SpinlockInv, CpuInv
  <2>6. ncli[c] > 0
    BY ONLY <2>3, <2>4, <2>5, c \in CPUs, CountedValue
  <2> QED
    BY <2>5, <2>6 DEF Counted
<1> QED
  BY <1>1, InitInv, NextInv, PTL DEF Spec

\* pushcli/popcli restore interrupts only where they were on: a handler is
\* never interrupted.
THEOREM SpinlockHandlers == Spec => []HandlersNotInterrupted
<1>1. SpinlockInv => HandlersNotInterrupted
  BY SpinlockAssumption
  DEF SpinlockInv, TypeOK, Levels, CpuInv, HandlerMasked, HandlersNotInterrupted
<1> QED
  BY <1>1, InitInv, NextInv, PTL DEF Spec

=============================================================================
