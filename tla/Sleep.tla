-------------------------------- MODULE Sleep -------------------------------
(***************************************************************************)
(* kernel/proc.c, sleep() and wakeup() on one channel: how the two locks,  *)
(* the caller's lk and ptable.lock, make the release of lk and the going   *)
(* to sleep one atomic step for every waker.                               *)
(*                                                                         *)
(* Waiters run the loop every caller of sleep() runs: acquire(lk); while   *)
(* the condition is false, sleep(chan, lk); use it; release(lk).  Wakers   *)
(* (processes or interrupt handlers) make it true and call wakeup(chan)    *)
(* holding lk, as ideintr, brelse, end_op, the pipe and the timer do.      *)
(***************************************************************************)
CONSTANTS Waiters, Wakers,
          Free,    \* a lock nobody holds
          Sched    \* the scheduler a sleeping process has switched to

ASSUME SleepAssumption ==
  /\ Waiters \cap Wakers = {}
  /\ Free \notin Waiters \cup Wakers
  /\ Sched \notin Waiters \cup Wakers \cup {Free}

VARIABLES lk,      \* holder of the caller's lock
          plock,   \* holder of ptable.lock
          ready,   \* the condition lk protects
          state,   \* p->state of the waiters
          pc

vars == <<lk, plock, ready, state, pc>>

WaiterPCs == {"start", "test", "sl_acquire", "sl_release", "sl_sched",
              "sl_resume", "sl_tidy", "sl_reacquire", "leave"}
WakerPCs == {"start", "set", "wk_acquire", "wk_scan", "leave"}

TypeOK ==
  /\ lk \in Waiters \cup Wakers \cup {Free}
  /\ plock \in Waiters \cup Wakers \cup {Free, Sched}
  /\ ready \in BOOLEAN
  /\ state \in [Waiters -> {"RUNNING", "SLEEPING", "RUNNABLE"}]
  /\ pc \in [Waiters \cup Wakers -> WaiterPCs \cup WakerPCs]
  /\ \A p \in Waiters : pc[p] \in WaiterPCs
  /\ \A p \in Wakers : pc[p] \in WakerPCs

Init ==
  /\ lk = Free
  /\ plock = Free
  /\ ready = FALSE
  /\ state = [p \in Waiters |-> "RUNNING"]
  /\ pc = [p \in Waiters \cup Wakers |-> "start"]

Goto(p, from, to) == pc[p] = from /\ pc' = [pc EXCEPT ![p] = to]

-----------------------------------------------------------------------------
(* The caller of sleep *)

Acquire(p) ==
  /\ Goto(p, "start", "test")
  /\ lk = Free
  /\ lk' = p
  /\ UNCHANGED <<plock, ready, state>>

\* while (!ready) sleep(chan, lk): leave the loop, or call sleep.
TestTrue(p) ==
  /\ ready
  /\ Goto(p, "test", "leave")
  /\ ready' = FALSE
  /\ UNCHANGED <<lk, plock, state>>

TestFalse(p) ==
  /\ ~ready
  /\ Goto(p, "test", "sl_acquire")
  /\ UNCHANGED <<lk, plock, ready, state>>

Leave(p) ==
  /\ Goto(p, "leave", "start")
  /\ lk' = Free
  /\ UNCHANGED <<plock, ready, state>>

-----------------------------------------------------------------------------
(* sleep(chan, lk) *)

\* Mutant: sleep goes on without ptable.lock.
SleepUnlocked(p) ==
  /\ Goto(p, "sl_acquire", "sl_release")
  /\ UNCHANGED <<lk, plock, ready, state>>

SleepAcquire(p) ==
  /\ Goto(p, "sl_acquire", "sl_release")
  /\ plock = Free
  /\ plock' = p
  /\ UNCHANGED <<lk, ready, state>>

SleepRelease(p) ==
  /\ Goto(p, "sl_release", "sl_sched")
  /\ lk' = Free
  /\ UNCHANGED <<plock, ready, state>>

\* proc->chan = chan; proc->state = SLEEPING; sched().
SleepSched(p) ==
  /\ Goto(p, "sl_sched", "sl_resume")
  /\ state' = [state EXCEPT ![p] = "SLEEPING"]
  /\ plock' = Sched
  /\ UNCHANGED <<lk, ready>>

\* The scheduler, or the process it switches to, releases ptable.lock.
SchedRelease ==
  /\ plock = Sched
  /\ plock' = Free
  /\ UNCHANGED <<lk, ready, state, pc>>

\* The scheduler switches back to a runnable process, ptable.lock held.
Resume(p) ==
  /\ Goto(p, "sl_resume", "sl_tidy")
  /\ state[p] = "RUNNABLE"
  /\ plock = Free
  /\ plock' = p
  /\ state' = [state EXCEPT ![p] = "RUNNING"]
  /\ UNCHANGED <<lk, ready>>

\* proc->chan = 0; release(&ptable.lock).
SleepTidy(p) ==
  /\ Goto(p, "sl_tidy", "sl_reacquire")
  /\ plock' = Free
  /\ UNCHANGED <<lk, ready, state>>

SleepReacquire(p) ==
  /\ Goto(p, "sl_reacquire", "test")
  /\ lk = Free
  /\ lk' = p
  /\ UNCHANGED <<plock, ready, state>>

-----------------------------------------------------------------------------
(* A waker *)

WakerAcquire(p) ==
  /\ Goto(p, "start", "set")
  /\ lk = Free
  /\ lk' = p
  /\ UNCHANGED <<plock, ready, state>>

WakerSet(p) ==
  /\ Goto(p, "set", "wk_acquire")
  /\ ready' = TRUE
  /\ UNCHANGED <<lk, plock, state>>

\* wakeup(): acquire ptable.lock, run wakeup1, release ptable.lock.
WakeupAcquire(p) ==
  /\ Goto(p, "wk_acquire", "wk_scan")
  /\ plock = Free
  /\ plock' = p
  /\ UNCHANGED <<lk, ready, state>>

\* Mutant: wakeup1 stops at the first sleeper it finds.
WakeupOne(p) ==
  /\ Goto(p, "wk_scan", "leave")
  /\ IF \E q \in Waiters : state[q] = "SLEEPING"
     THEN \E q \in Waiters : /\ state[q] = "SLEEPING"
                             /\ state' = [state EXCEPT ![q] = "RUNNABLE"]
     ELSE UNCHANGED state
  /\ plock' = Free
  /\ UNCHANGED <<lk, ready>>

WakeupScan(p) ==
  /\ Goto(p, "wk_scan", "leave")
  /\ state' = [q \in Waiters |-> IF state[q] = "SLEEPING" THEN "RUNNABLE" ELSE state[q]]
  /\ plock' = Free
  /\ UNCHANGED <<lk, ready>>

-----------------------------------------------------------------------------

\* What a process does once it has left "start".
Inside(p) ==
  \/ p \in Waiters /\ (\/ TestTrue(p) \/ TestFalse(p) \/ Leave(p)
                       \/ SleepAcquire(p) \/ SleepRelease(p) \/ SleepSched(p)
                       \/ Resume(p) \/ SleepTidy(p) \/ SleepReacquire(p))
  \/ p \in Wakers /\ (WakerSet(p) \/ WakeupAcquire(p) \/ WakeupScan(p) \/ Leave(p))

Next ==
  \/ \E p \in Waiters :
       \/ Acquire(p) \/ TestTrue(p) \/ TestFalse(p) \/ Leave(p)
       \/ SleepAcquire(p) \/ SleepRelease(p) \/ SleepSched(p)
       \/ Resume(p) \/ SleepTidy(p) \/ SleepReacquire(p)
  \/ \E p \in Wakers :
       \/ WakerAcquire(p) \/ WakerSet(p) \/ WakeupAcquire(p) \/ WakeupScan(p)
       \/ Leave(p)
  \/ SchedRelease

Spec == Init /\ [][Next]_vars

\* Everyone inside keeps running, a spin lock that is free again and again is
\* eventually taken, and a runnable process is scheduled.
Fairness ==
  /\ WF_vars(SchedRelease)
  /\ \A p \in Waiters \cup Wakers : SF_vars(Inside(p))

FairSpec == Spec /\ Fairness

-----------------------------------------------------------------------------
(* Properties *)

\* p has released lk in sleep() and has not been woken.
Waiting(p) ==
  \/ pc[p] = "sl_sched"
  \/ pc[p] = "sl_resume" /\ state[p] = "SLEEPING"

Mon == INSTANCE Monitor WITH waiting <- {p \in Waiters : Waiting(p)}

\* sleep() releases lk and sleeps atomically as far as any waker can tell: the
\* code implements the monitor (sleep: "Once we hold ptable.lock, we can be
\* guaranteed that we won't miss any wakeup").
AtomicSleep == Mon!Spec

\* No lost wakeup: a process sleeps while the condition is true only if a waker
\* that made it true is about to wake it.
NoLostWakeup ==
  (\E p \in Waiters : Waiting(p)) /\ ready =>
    \E k \in Wakers : pc[k] \in {"wk_acquire", "wk_scan"}

\* The condition, once true, is seen by some waiter that is in the loop, even
\* if all of them sleep and wakers stop coming.
ReadyIsConsumed ==
  ready /\ (\E p \in Waiters : pc[p] # "start") ~> ~ready

=============================================================================
