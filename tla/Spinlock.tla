------------------------------ MODULE Spinlock ------------------------------
(***************************************************************************)
(* kernel/spinlock.c: acquire, release, holding, pushcli and popcli, run   *)
(* by several CPUs whose kernel code may be interrupted.                   *)
(*                                                                         *)
(* A CPU runs a stack of contexts: context 1 is the code that was running, *)
(* a context above it is an interrupt handler entered through an interrupt *)
(* gate.  The context depth[c] is the running one.  One action is one read *)
(* or write of memory that another CPU may also access, or one access to   *)
(* the interrupt flag; accesses to cpu->ncli and cpu->intena made with     *)
(* interrupts off are private to the CPU and join a neighbouring step.     *)
(*                                                                         *)
(* The callers (all of the kernel) appear as what they must do to use the  *)
(* interface: release what they hold, take no lock they already hold, and  *)
(* nest locks in the order Rank.                                           *)
(***************************************************************************)
EXTENDS Naturals, FiniteSets

CONSTANTS CPUs,      \* struct cpu cpus[]
          Locks,     \* the struct spinlock objects
          NoCPU,     \* the null pointer in lk->cpu
          Rank,      \* the order in which callers nest locks
          MaxDepth   \* bound: contexts stacked on one CPU

ASSUME SpinlockAssumption ==
  /\ NoCPU \notin CPUs
  /\ Rank \in [Locks -> Nat]
  /\ MaxDepth \in Nat \ {0}

VARIABLES
  locked,   \* lk->locked, the word xchg works on
  lkcpu,    \* lk->cpu
  IF_on,    \* the FL_IF bit of each CPU's eflags
  ncli,     \* cpu->ncli
  intena,   \* cpu->intena
  depth,    \* number of contexts on the CPU
  pc,       \* where each context is
  arg,      \* the lk argument of the call a context is in
  eflags,   \* pushcli's local variable
  held      \* locks a context owns: from its winning xchg to its clearing one

vars == <<locked, lkcpu, IF_on, ncli, intena, depth, pc, arg, eflags, held>>

Levels == 1..MaxDepth

PCs == {"idle", "cli", "acq_locked", "acq_cpu", "spin", "setcpu",
        "rel_locked", "rel_cpu", "clearcpu", "xchg0", "popcli", "panic"}

TypeOK ==
  /\ locked \in [Locks -> BOOLEAN]
  /\ lkcpu \in [Locks -> CPUs \cup {NoCPU}]
  /\ IF_on \in [CPUs -> BOOLEAN]
  /\ ncli \in [CPUs -> Nat]
  /\ intena \in [CPUs -> BOOLEAN]
  /\ depth \in [CPUs -> Levels]
  /\ pc \in [CPUs -> [Levels -> PCs]]
  /\ arg \in [CPUs -> [Levels -> Locks]]
  /\ eflags \in [CPUs -> [Levels -> BOOLEAN]]
  /\ held \in [CPUs -> [Levels -> SUBSET Locks]]

\* initlock on every lock; every CPU runs its scheduler with interrupts on.
Init ==
  /\ locked = [l \in Locks |-> FALSE]
  /\ lkcpu = [l \in Locks |-> NoCPU]
  /\ IF_on = [c \in CPUs |-> TRUE]
  /\ ncli = [c \in CPUs |-> 0]
  /\ intena = [c \in CPUs |-> FALSE]
  /\ depth = [c \in CPUs |-> 1]
  /\ pc = [c \in CPUs |-> [k \in Levels |-> "idle"]]
  /\ arg \in {[c \in CPUs |-> [k \in Levels |-> l]] : l \in Locks}
  /\ eflags = [c \in CPUs |-> [k \in Levels |-> FALSE]]
  /\ held = [c \in CPUs |-> [k \in Levels |-> {}]]

-----------------------------------------------------------------------------
(* The running context of a CPU. *)

PC(c) == pc[c][depth[c]]
At(c, where) == PC(c) = where
Goto(c, where) == pc' = [pc EXCEPT ![c][depth[c]] = where]
Arg(c) == arg[c][depth[c]]
Held(c) == held[c][depth[c]]

-----------------------------------------------------------------------------
(* acquire *)

\* Mutant: a caller that nests locks in any order.
CallAcquireUnordered(c, l) ==
  /\ At(c, "idle")
  /\ l \notin Held(c)
  /\ arg' = [arg EXCEPT ![c][depth[c]] = l]
  /\ eflags' = [eflags EXCEPT ![c][depth[c]] = IF_on[c]]
  /\ Goto(c, "cli")
  /\ UNCHANGED <<locked, lkcpu, IF_on, ncli, intena, depth, held>>

\* The call acquire(l), up to readeflags() in pushcli.
CallAcquire(c, l) ==
  /\ At(c, "idle")
  /\ \A h \in Held(c) : Rank[h] < Rank[l]
  /\ arg' = [arg EXCEPT ![c][depth[c]] = l]
  /\ eflags' = [eflags EXCEPT ![c][depth[c]] = IF_on[c]]
  /\ Goto(c, "cli")
  /\ UNCHANGED <<locked, lkcpu, IF_on, ncli, intena, depth, held>>

\* Mutant: pushcli counts without cli().
PushcliNoCli(c) ==
  /\ At(c, "cli")
  /\ ncli' = [ncli EXCEPT ![c] = @ + 1]
  /\ intena' = IF ncli[c] = 0
               THEN [intena EXCEPT ![c] = eflags[c][depth[c]]]
               ELSE intena
  /\ Goto(c, "acq_locked")
  /\ UNCHANGED <<locked, lkcpu, IF_on, depth, arg, eflags, held>>

\* pushcli: cli(); if (cpu->ncli++ == 0) cpu->intena = eflags & FL_IF.
Pushcli(c) ==
  /\ At(c, "cli")
  /\ IF_on' = [IF_on EXCEPT ![c] = FALSE]
  /\ ncli' = [ncli EXCEPT ![c] = @ + 1]
  /\ intena' = IF ncli[c] = 0
               THEN [intena EXCEPT ![c] = eflags[c][depth[c]]]
               ELSE intena
  /\ Goto(c, "acq_locked")
  /\ UNCHANGED <<locked, lkcpu, depth, arg, eflags, held>>

\* acquire: holding(lk) reads lk->locked, and lk->cpu only if it was set.
AcquireReadLocked(c) ==
  /\ At(c, "acq_locked")
  /\ Goto(c, IF locked[Arg(c)] THEN "acq_cpu" ELSE "spin")
  /\ UNCHANGED <<locked, lkcpu, IF_on, ncli, intena, depth, arg, eflags, held>>

\* acquire: holding(lk) reads lk->cpu; panic("acquire") if this CPU is there.
AcquireReadCpu(c) ==
  /\ At(c, "acq_cpu")
  /\ Goto(c, IF lkcpu[Arg(c)] = c THEN "panic" ELSE "spin")
  /\ UNCHANGED <<locked, lkcpu, IF_on, ncli, intena, depth, arg, eflags, held>>

\* Mutant: the value xchg returns is not tested.
Xchg1Blind(c) ==
  /\ At(c, "spin")
  /\ locked' = [locked EXCEPT ![Arg(c)] = TRUE]
  /\ held' = [held EXCEPT ![c][depth[c]] = @ \cup {Arg(c)}]
  /\ Goto(c, "setcpu")
  /\ UNCHANGED <<lkcpu, IF_on, ncli, intena, depth, arg, eflags>>

\* The xchg that finds lk->locked zero.  A failing xchg writes back the 1 it
\* read and loops, so it changes nothing.
Xchg1(c) ==
  /\ At(c, "spin")
  /\ ~locked[Arg(c)]
  /\ locked' = [locked EXCEPT ![Arg(c)] = TRUE]
  /\ held' = [held EXCEPT ![c][depth[c]] = @ \cup {Arg(c)}]
  /\ Goto(c, "setcpu")
  /\ UNCHANGED <<lkcpu, IF_on, ncli, intena, depth, arg, eflags>>

\* lk->cpu = cpu; acquire returns.
SetCpu(c) ==
  /\ At(c, "setcpu")
  /\ lkcpu' = [lkcpu EXCEPT ![Arg(c)] = c]
  /\ Goto(c, "idle")
  /\ UNCHANGED <<locked, IF_on, ncli, intena, depth, arg, eflags, held>>

-----------------------------------------------------------------------------
(* release *)

\* The call release(l) by a context that owns l.
CallRelease(c, l) ==
  /\ At(c, "idle")
  /\ l \in Held(c)
  /\ arg' = [arg EXCEPT ![c][depth[c]] = l]
  /\ Goto(c, "rel_locked")
  /\ UNCHANGED <<locked, lkcpu, IF_on, ncli, intena, depth, eflags, held>>

\* release: holding(lk) reads lk->locked; panic("release") if it is zero.
ReleaseReadLocked(c) ==
  /\ At(c, "rel_locked")
  /\ Goto(c, IF locked[Arg(c)] THEN "rel_cpu" ELSE "panic")
  /\ UNCHANGED <<locked, lkcpu, IF_on, ncli, intena, depth, arg, eflags, held>>

\* release: holding(lk) reads lk->cpu; panic("release") if it is not this CPU.
ReleaseReadCpu(c) ==
  /\ At(c, "rel_cpu")
  /\ Goto(c, IF lkcpu[Arg(c)] = c THEN "clearcpu" ELSE "panic")
  /\ UNCHANGED <<locked, lkcpu, IF_on, ncli, intena, depth, arg, eflags, held>>

\* Mutant: lk->cpu is left as it is.
ClearCpuSkipped(c) ==
  /\ At(c, "clearcpu")
  /\ Goto(c, "xchg0")
  /\ UNCHANGED <<locked, lkcpu, IF_on, ncli, intena, depth, arg, eflags, held>>

\* lk->pcs[0] = 0; lk->cpu = 0.
ClearCpu(c) ==
  /\ At(c, "clearcpu")
  /\ lkcpu' = [lkcpu EXCEPT ![Arg(c)] = NoCPU]
  /\ Goto(c, "xchg0")
  /\ UNCHANGED <<locked, IF_on, ncli, intena, depth, arg, eflags, held>>

\* xchg(&lk->locked, 0).
Xchg0(c) ==
  /\ At(c, "xchg0")
  /\ locked' = [locked EXCEPT ![Arg(c)] = FALSE]
  /\ held' = [held EXCEPT ![c][depth[c]] = @ \ {Arg(c)}]
  /\ Goto(c, "popcli")
  /\ UNCHANGED <<lkcpu, IF_on, ncli, intena, depth, arg, eflags>>

\* Mutant: sti() without looking at intena.
PopcliAlwaysSti(c) ==
  /\ At(c, "popcli")
  /\ IF IF_on[c] \/ ncli[c] = 0
     THEN /\ Goto(c, "panic")
          /\ UNCHANGED <<ncli, IF_on>>
     ELSE /\ Goto(c, "idle")
          /\ ncli' = [ncli EXCEPT ![c] = @ - 1]
          /\ IF_on' = IF ncli[c] = 1 THEN [IF_on EXCEPT ![c] = TRUE] ELSE IF_on
  /\ UNCHANGED <<locked, lkcpu, intena, depth, arg, eflags, held>>

\* popcli: panics if interrupts are on or the count would become negative;
\* sti() when the count reaches zero and intena is set.
Popcli(c) ==
  /\ At(c, "popcli")
  /\ IF IF_on[c] \/ ncli[c] = 0
     THEN /\ Goto(c, "panic")
          /\ UNCHANGED <<ncli, IF_on>>
     ELSE /\ Goto(c, "idle")
          /\ ncli' = [ncli EXCEPT ![c] = @ - 1]
          /\ IF_on' = IF ncli[c] = 1 /\ intena[c]
                      THEN [IF_on EXCEPT ![c] = TRUE]
                      ELSE IF_on
  /\ UNCHANGED <<locked, lkcpu, intena, depth, arg, eflags, held>>

-----------------------------------------------------------------------------
(* The processor.  Interrupt gates clear FL_IF on entry; iret restores the  *)
(* flag of the interrupted context, which was on.                           *)

Interrupt(c) ==
  /\ IF_on[c]
  /\ ~At(c, "panic")
  /\ depth[c] < MaxDepth
  /\ depth' = [depth EXCEPT ![c] = @ + 1]
  /\ IF_on' = [IF_on EXCEPT ![c] = FALSE]
  /\ UNCHANGED <<locked, lkcpu, ncli, intena, pc, arg, eflags, held>>

\* Mutant: an iret outside any handler.
IretAnywhere(c) ==
  /\ At(c, "idle")
  /\ Held(c) = {}
  /\ depth' = [depth EXCEPT ![c] = @ - 1]
  /\ IF_on' = [IF_on EXCEPT ![c] = TRUE]
  /\ UNCHANGED <<locked, lkcpu, ncli, intena, pc, arg, eflags, held>>

InterruptReturn(c) ==
  /\ depth[c] > 1
  /\ At(c, "idle")
  /\ Held(c) = {}
  /\ depth' = [depth EXCEPT ![c] = @ - 1]
  /\ IF_on' = [IF_on EXCEPT ![c] = TRUE]
  /\ UNCHANGED <<locked, lkcpu, ncli, intena, pc, arg, eflags, held>>

-----------------------------------------------------------------------------

\* The steps of a call in progress.
CallStep(c) ==
  \/ Pushcli(c)
  \/ AcquireReadLocked(c)
  \/ AcquireReadCpu(c)
  \/ Xchg1(c)
  \/ SetCpu(c)
  \/ ReleaseReadLocked(c)
  \/ ReleaseReadCpu(c)
  \/ ClearCpu(c)
  \/ Xchg0(c)
  \/ Popcli(c)

CpuStep(c) ==
  \/ CallStep(c)
  \/ Interrupt(c)
  \/ InterruptReturn(c)
  \/ \E l \in Locks : CallAcquire(c, l) \/ CallRelease(c, l)

Next == \E c \in CPUs : CpuStep(c)

Spec == Init /\ [][Next]_vars

\* A CPU that is inside a call, or whose caller owns a lock, keeps executing;
\* callers return from handlers and release what they own.  Nothing is assumed
\* about new acquire calls, about interrupts, or about which CPU wins an xchg.
Fairness ==
  \A c \in CPUs :
    /\ WF_vars(CallStep(c))
    /\ WF_vars(\E l \in Locks : CallRelease(c, l))
    /\ WF_vars(InterruptReturn(c))

FairSpec == Spec /\ Fairness

-----------------------------------------------------------------------------
(* Properties *)

\* A lock is owned by at most one context: neither two CPUs nor an interrupt
\* handler and the code it interrupted are between acquire and release of the
\* same lock (spinlock.c, acquire: "Loops (spins) until the lock is acquired").
MutualExclusion ==
  \A c1, c2 \in CPUs : \A k1, k2 \in Levels :
    held[c1][k1] \cap held[c2][k2] # {} => c1 = c2 /\ k1 = k2

\* The unlocked reads of lk->locked and lk->cpu in holding() never mislead:
\* no caller that follows the rules meets a panic of acquire, release or
\* popcli, whatever the other CPUs and the interrupt handlers do meanwhile.
NoPanic == \A c \in CPUs : \A k \in Levels : pc[c][k] # "panic"

\* A CPU that owns any lock, or is spinning for one, has interrupts off, so
\* that no handler can spin for a lock its own CPU owns (acquire: "disable
\* interrupts to avoid deadlock").
InterruptsOffInside ==
  \A c \in CPUs : \A k \in 1..depth[c] :
    (held[c][k] # {} \/ pc[c][k] \notin {"idle", "cli"}) => ~IF_on[c]

\* pushcli reads eflags before it disables interrupts, and a handler that
\* arrives in between runs its own pushcli/popcli pairs on the same ncli and
\* intena.  Still, releasing the outermost lock gives back the interrupt state
\* there was when it was taken: a handler, entered with interrupts off, never
\* runs with them on and is itself never interrupted.
HandlersNotInterrupted ==
  \A c \in CPUs : depth[c] <= 2 /\ (depth[c] = 2 => ~IF_on[c])

\* Deadlock freedom across CPUs, handlers and nested locks: a lock on which
\* every other lock may be nested but which nests nothing (ptable.lock is the
\* kernel's) is always released again.
InnermostReleased ==
  \A l \in Locks :
    (\A m \in Locks : Rank[m] <= Rank[l]) => (locked[l] ~> ~locked[l])

=============================================================================
