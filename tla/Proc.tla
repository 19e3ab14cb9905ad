-------------------------------- MODULE Proc --------------------------------
(***************************************************************************)
(* kernel/proc.c: the process table, the per-CPU schedulers, and fork,     *)
(* exit, wait, kill, sleep, wakeup and yield, with the trap handler's      *)
(* timer preemption and its exit of killed processes (kernel/trap.c).      *)
(*                                                                         *)
(* ptable.lock protects the table.  A critical section that ends in        *)
(* release is one action, taken when the lock is free.  sched() passes the *)
(* lock to the CPU's scheduler, and the scheduler passes it on to the      *)
(* process it switches to, so between the two the lock is held: plock.     *)
(* The table writes that fork and allocproc make without the lock are      *)
(* actions of their own that do not wait for it.                           *)
(***************************************************************************)
EXTENDS Naturals, FiniteSets, FiniteSetsExt

CONSTANTS NPROC,      \* size of ptable.proc
          CPUs,       \* processors running scheduler()
          Chans,      \* sleep channels other than process addresses
          Free,       \* nobody holds ptable.lock
          KillPids,   \* arguments given to kill
          MaxPid,     \* bound: the largest pid that is handed out
          Services    \* what user code does: subset of AllServices

AllServices == {"fork", "exit", "wait", "kill", "sleep", "wakeup"}

Slots == 1..NPROC
initproc == 1
NoProc == 0

ASSUME ProcAssumption ==
  /\ NPROC \in Nat \ {0}
  /\ MaxPid \in Nat \ {0}
  /\ KillPids \subseteq Nat
  /\ Free \notin CPUs
  /\ Chans \cap (0..NPROC) = {}
  /\ Services \subseteq AllServices

VARIABLES
  state,    \* p->state
  pid,      \* p->pid
  parent,   \* p->parent
  killed,   \* p->killed
  chan,     \* p->chan
  nextpid,  \* nextpid
  pc,       \* where the process's kernel thread is
  np,       \* fork's local np
  plock,    \* the CPU holding ptable.lock across a swtch, or Free
  cur,      \* cpu->proc
  mode,     \* where the CPU's scheduler is
  pos,      \* scheduler's local p
  asked     \* pids kill has been called with since they were handed out

table == <<state, pid, parent, killed, chan, nextpid>>
threads == <<pc, np>>
cpuvars == <<plock, cur, mode, pos>>
vars == <<state, pid, parent, killed, chan, nextpid, pc, np, plock, cur, mode,
          pos, asked>>

States == {"UNUSED", "EMBRYO", "SLEEPING", "RUNNABLE", "RUNNING", "ZOMBIE"}
PCs == {"none", "user", "fork_kstack", "fork_copy", "fork_run", "wait",
        "sleep_check", "sleep", "sleep_ret", "exit", "panic: init exiting"}

TypeOK ==
  /\ state \in [Slots -> States]
  /\ pid \in [Slots -> 0..MaxPid]
  /\ parent \in [Slots -> Slots \cup {NoProc}]
  /\ killed \in [Slots -> BOOLEAN]
  /\ chan \in [Slots -> Slots \cup Chans \cup {NoProc}]
  /\ nextpid \in 1..MaxPid + 1
  /\ pc \in [Slots -> PCs]
  /\ np \in [Slots -> Slots \cup {NoProc}]
  /\ plock \in CPUs \cup {Free}
  /\ cur \in [CPUs -> Slots \cup {NoProc}]
  /\ mode \in [CPUs -> {"top", "hlt", "irq", "scan", "run"}]
  /\ pos \in [CPUs -> 0..NPROC + 1]
  /\ asked \subseteq KillPids

\* userinit has made the first process runnable; every CPU enters scheduler().
Init ==
  /\ state = [s \in Slots |-> IF s = initproc THEN "RUNNABLE" ELSE "UNUSED"]
  /\ pid = [s \in Slots |-> IF s = initproc THEN 1 ELSE 0]
  /\ parent = [s \in Slots |-> NoProc]
  /\ killed = [s \in Slots |-> FALSE]
  /\ chan = [s \in Slots |-> NoProc]
  /\ nextpid = 2
  /\ pc = [s \in Slots |-> IF s = initproc THEN "user" ELSE "none"]
  /\ np = [s \in Slots |-> NoProc]
  /\ plock = Free
  /\ cur = [c \in CPUs |-> NoProc]
  /\ mode = [c \in CPUs |-> "top"]
  /\ pos = [c \in CPUs |-> 0]
  /\ asked = {}

-----------------------------------------------------------------------------
(* scheduler() *)

\* The test at the top of the loop: p is the end of the table.
SchedHlt(c) ==
  /\ mode[c] = "top"
  /\ pos[c] = NPROC + 1
  /\ mode' = [mode EXCEPT ![c] = "hlt"]
  /\ UNCHANGED <<table, threads, plock, cur, pos, asked>>

\* An interrupt ends the hlt.
HltInterrupt(c) ==
  /\ mode[c] = "hlt"
  /\ mode' = [mode EXCEPT ![c] = "irq"]
  /\ UNCHANGED <<table, threads, plock, cur, pos, asked>>

SchedAcquire(c) ==
  /\ mode[c] = "irq" \/ (mode[c] = "top" /\ pos[c] # NPROC + 1)
  /\ plock = Free
  /\ plock' = c
  /\ mode' = [mode EXCEPT ![c] = "scan"]
  /\ pos' = [pos EXCEPT ![c] = 1]
  /\ UNCHANGED <<table, threads, cur, asked>>

\* The processes the scan of CPU c has still to visit and would run.
Candidates(c) == {s \in pos[c]..NPROC : state[s] = "RUNNABLE"}

\* Mutant: the process resumed in wait() is taken to release the lock.
SchedSwitchFrees(c) ==
  LET s == Min(Candidates(c)) IN
  /\ mode[c] = "scan"
  /\ Candidates(c) # {}
  /\ state' = [state EXCEPT ![s] = "RUNNING"]
  /\ chan' = [chan EXCEPT ![s] = NoProc]
  /\ pc' = [pc EXCEPT ![s] = IF @ = "sleep_ret" THEN "sleep_check" ELSE @]
  /\ cur' = [cur EXCEPT ![c] = s]
  /\ mode' = [mode EXCEPT ![c] = "run"]
  /\ pos' = [pos EXCEPT ![c] = s]
  /\ plock' = Free
  /\ UNCHANGED <<pid, parent, killed, nextpid, np, asked>>

\* swtch to the next runnable process.  It is in sleep() (which clears chan),
\* in yield() or in forkret(), and releases ptable.lock, unless it sleeps in
\* wait(), which keeps it.
SchedSwitch(c) ==
  LET s == Min(Candidates(c)) IN
  /\ mode[c] = "scan"
  /\ Candidates(c) # {}
  /\ state' = [state EXCEPT ![s] = "RUNNING"]
  /\ chan' = [chan EXCEPT ![s] = NoProc]
  /\ pc' = [pc EXCEPT ![s] = IF @ = "sleep_ret" THEN "sleep_check" ELSE @]
  /\ cur' = [cur EXCEPT ![c] = s]
  /\ mode' = [mode EXCEPT ![c] = "run"]
  /\ pos' = [pos EXCEPT ![c] = s]
  /\ plock' = IF pc[s] = "wait" THEN c ELSE Free
  /\ UNCHANGED <<pid, parent, killed, nextpid, np, asked>>

\* The scan reaches the end of the table and releases the lock.
SchedEnd(c) ==
  /\ mode[c] = "scan"
  /\ Candidates(c) = {}
  /\ mode' = [mode EXCEPT ![c] = "top"]
  /\ pos' = [pos EXCEPT ![c] = NPROC + 1]
  /\ plock' = Free
  /\ UNCHANGED <<table, threads, cur, asked>>

\* Mutant: the loop variable is advanced twice.
SchedSkips(c) ==
  /\ plock' = c
  /\ mode' = [mode EXCEPT ![c] = "scan"]
  /\ pos' = [pos EXCEPT ![c] = cur[c] + 2]
  /\ cur' = [cur EXCEPT ![c] = NoProc]

\* Mutant: the scan starts again from the first slot.
SchedRestarts(c) ==
  /\ plock' = c
  /\ mode' = [mode EXCEPT ![c] = "scan"]
  /\ pos' = [pos EXCEPT ![c] = 1]
  /\ cur' = [cur EXCEPT ![c] = NoProc]

\* sched(): the process on c has changed its state and switches back to the
\* scheduler, which holds ptable.lock and goes on after it.
Sched(c) ==
  /\ plock' = c
  /\ mode' = [mode EXCEPT ![c] = "scan"]
  /\ pos' = [pos EXCEPT ![c] = cur[c] + 1]
  /\ cur' = [cur EXCEPT ![c] = NoProc]

-----------------------------------------------------------------------------
(* What the running process does *)

\* Process s runs on c at the place named, and nobody holds ptable.lock.
Running(c, s, where) == mode[c] = "run" /\ cur[c] = s /\ pc[s] = where

GoTo(s, where) == pc' = [pc EXCEPT ![s] = where]

\* The table's states once everyone sleeping on a channel of cs is woken.
Wakeup1(cs) ==
  [s \in Slots |-> IF state[s] = "SLEEPING" /\ chan[s] \in cs
                   THEN "RUNNABLE" ELSE state[s]]

\* A timer interrupt: trap() calls yield(), in user or in kernel code, unless
\* the code has interrupts off because it holds a lock.
Yield(c, s) ==
  /\ mode[c] = "run" /\ cur[c] = s
  /\ pc[s] \notin {"sleep", "panic: init exiting"}
  /\ plock = Free
  /\ state' = [state EXCEPT ![s] = "RUNNABLE"]
  /\ Sched(c)
  /\ UNCHANGED <<pid, parent, killed, chan, nextpid, threads, asked>>

-----------------------------------------------------------------------------
(* fork *)

\* allocproc under the lock.  With no UNUSED slot fork returns -1.
Allocproc(c, s) ==
  LET unused == {t \in Slots : state[t] = "UNUSED"} IN
  /\ "fork" \in Services
  /\ Running(c, s, "user")
  /\ plock = Free
  /\ nextpid <= MaxPid
  /\ unused # {}
  /\ state' = [state EXCEPT ![Min(unused)] = "EMBRYO"]
  /\ pid' = [pid EXCEPT ![Min(unused)] = nextpid]
  /\ asked' = asked \ {nextpid}
  /\ nextpid' = nextpid + 1
  /\ np' = [np EXCEPT ![s] = Min(unused)]
  /\ GoTo(s, "fork_kstack")
  /\ UNCHANGED <<parent, killed, chan, cpuvars>>

\* kalloc of the kernel stack, and the unlocked write when it fails.
ForkKstack(c, s) ==
  /\ Running(c, s, "fork_kstack")
  /\ \/ /\ GoTo(s, "fork_copy")
        /\ UNCHANGED <<state, np>>
     \/ /\ state' = [state EXCEPT ![np[s]] = "UNUSED"]
        /\ np' = [np EXCEPT ![s] = NoProc]
        /\ GoTo(s, "user")
  /\ UNCHANGED <<pid, parent, killed, chan, nextpid, cpuvars, asked>>

\* copyuvm, with its unlocked write when it fails, else the copying of the
\* process: np->parent is written without the lock too.
ForkCopy(c, s) ==
  /\ Running(c, s, "fork_copy")
  /\ \/ /\ parent' = [parent EXCEPT ![np[s]] = s]
        /\ GoTo(s, "fork_run")
        /\ UNCHANGED <<state, np>>
     \/ /\ state' = [state EXCEPT ![np[s]] = "UNUSED"]
        /\ np' = [np EXCEPT ![s] = NoProc]
        /\ GoTo(s, "user")
        /\ UNCHANGED parent
  /\ UNCHANGED <<pid, killed, chan, nextpid, cpuvars, asked>>

\* np->state = RUNNABLE under the lock.  The child starts in forkret and goes
\* to user space.
ForkRun(c, s) ==
  /\ Running(c, s, "fork_run")
  /\ plock = Free
  /\ state' = [state EXCEPT ![np[s]] = "RUNNABLE"]
  /\ pc' = [pc EXCEPT ![s] = "user", ![np[s]] = "user"]
  /\ np' = [np EXCEPT ![s] = NoProc]
  /\ UNCHANGED <<pid, parent, killed, chan, nextpid, cpuvars, asked>>

-----------------------------------------------------------------------------
(* exit, wait, kill *)

\* The exit system call; init's is a panic.
ExitCall(c, s) ==
  /\ "exit" \in Services
  /\ Running(c, s, "user")
  /\ s # initproc
  /\ GoTo(s, "exit")
  /\ UNCHANGED <<table, np, cpuvars, asked>>

\* trap() makes a killed process exit on its way from or to user space.
ExitKilled(c, s) ==
  /\ Running(c, s, "user")
  /\ killed[s]
  /\ GoTo(s, IF s = initproc THEN "panic: init exiting" ELSE "exit")
  /\ UNCHANGED <<table, np, cpuvars, asked>>

\* Mutant: init is not woken for a zombie it inherits.
NoInheritor(orphans) == {}

\* exit wakes init when one of the children it passes on is a zombie.
Inheritors(orphans) ==
  IF \E t \in orphans : state[t] = "ZOMBIE" THEN {initproc} ELSE {}

\* p->parent of every slot once abandoned children are init's.
Reparent(orphans) == [t \in Slots |-> IF t \in orphans THEN initproc ELSE parent[t]]

\* The critical section of exit: wake the parent, give the children to init,
\* waking it if one is a zombie, become a zombie, sched().
Exit(c, s) ==
  LET orphans == {t \in Slots : parent[t] = s}
      woken == {parent[s]} \cup Inheritors(orphans)
  IN
  /\ Running(c, s, "exit")
  /\ plock = Free
  /\ state' = [Wakeup1(woken) EXCEPT ![s] = "ZOMBIE"]
  /\ parent' = Reparent(orphans)
  /\ GoTo(s, "none")
  /\ Sched(c)
  /\ UNCHANGED <<pid, killed, chan, nextpid, np, asked>>

\* Mutant: p->parent is left as it is.
ReapKeepsParent(z) ==
  /\ state' = [state EXCEPT ![z] = "UNUSED"]
  /\ pid' = [pid EXCEPT ![z] = 0]
  /\ killed' = [killed EXCEPT ![z] = FALSE]
  /\ UNCHANGED parent

\* wait() frees the slot of a zombie.
Reap(z) ==
  /\ state' = [state EXCEPT ![z] = "UNUSED"]
  /\ pid' = [pid EXCEPT ![z] = 0]
  /\ parent' = [parent EXCEPT ![z] = NoProc]
  /\ killed' = [killed EXCEPT ![z] = FALSE]

\* One pass of wait's loop, on entry or when sleep() returns with the lock
\* still held: reap the first zombie child, give up, or sleep on proc itself.
Wait(c, s) ==
  LET children == {t \in Slots : parent[t] = s}
      zombies == {t \in children : state[t] = "ZOMBIE"}
      z == Min(zombies)
  IN
  /\ \/ "wait" \in Services /\ Running(c, s, "user") /\ plock = Free
     \/ Running(c, s, "wait") /\ plock = c
  /\ \/ /\ zombies # {}
        /\ Reap(z)
        /\ plock' = Free
        /\ GoTo(s, "user")
        /\ UNCHANGED <<chan, cur, mode, pos>>
     \/ /\ zombies = {}
        /\ children = {} \/ killed[s]
        /\ plock' = Free
        /\ GoTo(s, "user")
        /\ UNCHANGED <<state, pid, parent, killed, chan, cur, mode, pos>>
     \/ /\ zombies = {}
        /\ children # {} /\ ~killed[s]
        /\ chan' = [chan EXCEPT ![s] = s]
        /\ state' = [state EXCEPT ![s] = "SLEEPING"]
        /\ GoTo(s, "wait")
        /\ Sched(c)
        /\ UNCHANGED <<pid, parent, killed>>
  /\ UNCHANGED <<nextpid, np, asked>>

\* Mutant: the state is not tested before it is made RUNNABLE.
KillAwake(st) == "RUNNABLE"

\* What kill makes of p->state.
KillState(st) == IF st = "SLEEPING" THEN "RUNNABLE" ELSE st

\* kill(n): the first slot whose pid is n, whatever its state.
Kill(c, s, n) ==
  LET match == {t \in Slots : pid[t] = n}
      t == Min(match)
  IN
  /\ "kill" \in Services
  /\ Running(c, s, "user")
  /\ plock = Free
  /\ match # {}
  /\ killed' = [killed EXCEPT ![t] = TRUE]
  /\ state' = [state EXCEPT ![t] = KillState(@)]
  /\ asked' = asked \cup {n}
  /\ UNCHANGED <<pid, parent, chan, nextpid, threads, cpuvars>>

-----------------------------------------------------------------------------
(* sleep and wakeup, as system calls use them: with a lock of their own they *)
(* test proc->killed and call sleep(), in a loop (sys_sleep, piperead, ...). *)

SleepCall(c, s) ==
  /\ "sleep" \in Services
  /\ Running(c, s, "user")
  /\ GoTo(s, "sleep_check")
  /\ UNCHANGED <<table, np, cpuvars, asked>>

\* The condition holds or the process was killed: return.  Otherwise sleep,
\* still holding the caller's lock.
SleepCheck(c, s) ==
  /\ Running(c, s, "sleep_check")
  /\ \/ GoTo(s, "user")
     \/ ~killed[s] /\ GoTo(s, "sleep")
  /\ UNCHANGED <<table, np, cpuvars, asked>>

\* sleep(ch, lk): ptable.lock taken, lk released.
Sleep(c, s, ch) ==
  /\ Running(c, s, "sleep")
  /\ plock = Free
  /\ chan' = [chan EXCEPT ![s] = ch]
  /\ state' = [state EXCEPT ![s] = "SLEEPING"]
  /\ GoTo(s, "sleep_ret")
  /\ Sched(c)
  /\ UNCHANGED <<pid, parent, killed, nextpid, np, asked>>

\* wakeup(ch), by a running process.
Wakeup(c, s, ch) ==
  /\ "wakeup" \in Services
  /\ Running(c, s, "user")
  /\ plock = Free
  /\ state' = Wakeup1({ch})
  /\ UNCHANGED <<pid, parent, killed, chan, nextpid, threads, cpuvars, asked>>

-----------------------------------------------------------------------------

SchedulerStep(c) ==
  SchedHlt(c) \/ HltInterrupt(c) \/ SchedAcquire(c) \/ SchedSwitch(c) \/ SchedEnd(c)

\* Steps of a process already inside the kernel.
KernelStep(c, s) ==
  \/ ForkKstack(c, s) \/ ForkCopy(c, s) \/ ForkRun(c, s)
  \/ ExitKilled(c, s) \/ Exit(c, s)
  \/ SleepCheck(c, s) \/ \E ch \in Chans : Sleep(c, s, ch)
  \/ pc[s] = "wait" /\ Wait(c, s)

Next ==
  \E c \in CPUs :
    \/ SchedHlt(c) \/ HltInterrupt(c) \/ SchedAcquire(c)
    \/ SchedSwitch(c) \/ SchedEnd(c)
    \/ \E s \in Slots :
         \/ Yield(c, s)
         \/ Allocproc(c, s) \/ ForkKstack(c, s) \/ ForkCopy(c, s) \/ ForkRun(c, s)
         \/ ExitCall(c, s) \/ ExitKilled(c, s) \/ Exit(c, s) \/ Wait(c, s)
         \/ SleepCall(c, s) \/ SleepCheck(c, s)
         \/ \E ch \in Chans : Sleep(c, s, ch) \/ Wakeup(c, s, ch)
         \/ \E n \in KillPids : Kill(c, s, n)

Spec == Init /\ [][Next]_vars

\* Interrupts keep arriving, so a scheduler does not stay in hlt and a running
\* process is preempted.  A process that is given the CPU again and again gets
\* further between two timer ticks, and init, which loops calling wait() in
\* user/init.c, calls it.  With one CPU ptable.lock is never contended, so
\* nothing is assumed of the spin lock.
Fairness ==
  \A c \in CPUs :
    /\ WF_vars(SchedulerStep(c))
    /\ \A s \in Slots : WF_vars(Yield(c, s)) /\ SF_vars(KernelStep(c, s))
    /\ SF_vars(Wait(c, initproc))

FairSpec == Spec /\ Fairness

-----------------------------------------------------------------------------
(* Properties *)

\* A process runs on at most one CPU, and is RUNNING exactly while it does:
\* with fork, exit, kill and wakeups changing p->state from other CPUs, no two
\* schedulers ever pick the same process (scheduler, sched).
RunsOnOneCpu ==
  \A s \in Slots :
    Cardinality({c \in CPUs : cur[c] = s}) = IF state[s] = "RUNNING" THEN 1 ELSE 0

\* ptable.lock changes hands correctly across every swtch: it is held exactly
\* while some CPU's scheduler scans the table or a process resumes in wait()
\* (scheduler: "It is the process's job to release ptable.lock and then
\* reacquire it before jumping back to us").
LockHandedOver ==
  \A c \in CPUs :
    plock = c <=> \/ mode[c] = "scan"
                  \/ mode[c] = "run" /\ pc[cur[c]] = "wait"

\* No wakeup is lost between exit and wait: a process asleep in wait() has a
\* child and none of its children, adopted ones included, is a zombie
\* ("Parent might be sleeping in wait()").
NoLostChild ==
  \A s \in Slots :
    state[s] = "SLEEPING" /\ pc[s] = "wait" =>
      /\ \E t \in Slots : parent[t] = s
      /\ \A t \in Slots : parent[t] = s => state[t] # "ZOMBIE"

\* Nobody is orphaned: the parent of every started process but init is a
\* process that has not exited, so that someone can reap it ("Pass abandoned
\* children to init").  And wait() counts every slot whose parent is the caller
\* as a child, whatever its state: a free slot keeps no parent, on any path, or
\* wait() would sleep for a child that does not exist.
ParentAlive ==
  \A s \in Slots \ {initproc} :
    /\ state[s] \notin {"UNUSED", "EMBRYO"} =>
         parent[s] \in Slots /\ state[parent[s]] \notin {"UNUSED", "EMBRYO", "ZOMBIE"}
    /\ state[s] = "UNUSED" => parent[s] = NoProc

\* The writes fork makes to the table without ptable.lock touch only a slot
\* that this fork owns: each EMBRYO slot belongs to exactly one fork, and a
\* fork's slot stays EMBRYO until that fork changes it.
EmbryoOwned ==
  LET forking == {s \in Slots : pc[s] \in {"fork_kstack", "fork_copy", "fork_run"}}
  IN /\ \A s \in forking : state[np[s]] = "EMBRYO"
     /\ \A t \in Slots :
          state[t] = "EMBRYO" => Cardinality({s \in forking : np[s] = t}) = 1

\* Zombies handed to init are reaped, however often init is preempted.
OrphansReaped ==
  \A s \in Slots :
    (state[s] = "ZOMBIE" /\ parent[s] = initproc) ~> (state[s] = "UNUSED")

\* Round robin: the scheduler's scan, which goes on behind the process that
\* comes back, starves no runnable process.
NoStarvation ==
  \A s \in Slots : state[s] = "RUNNABLE" ~> state[s] # "RUNNABLE"

\* kill affects the process with the given pid and no other: a process that is
\* marked killed was named in a kill (kill: "Kill the process with the given
\* pid").
KillHitsItsPid ==
  \A s \in Slots :
    killed[s] /\ state[s] \notin {"UNUSED", "EMBRYO"} => pid[s] \in asked

=============================================================================
