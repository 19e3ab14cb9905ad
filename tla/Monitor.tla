------------------------------ MODULE Monitor -------------------------------
(***************************************************************************)
(* What sleep() and wakeup() promise: "Atomically release lock and sleep   *)
(* on chan" (kernel/proc.c).  A lock, a condition it protects, and the set *)
(* of processes waiting on one channel.                                    *)
(***************************************************************************)
CONSTANTS Waiters, Wakers, Free

VARIABLES lk,       \* holder of the condition's lock
          ready,    \* the condition
          waiting   \* processes asleep on the channel

monvars == <<lk, ready, waiting>>

Init == lk = Free /\ ready = FALSE /\ waiting = {}

Acquire(p) ==
  /\ lk = Free
  /\ p \notin waiting
  /\ lk' = p
  /\ UNCHANGED <<ready, waiting>>

Release(p) ==
  /\ lk = p
  /\ lk' = Free
  /\ UNCHANGED <<ready, waiting>>

Consume(p) ==
  /\ lk = p
  /\ ready
  /\ ready' = FALSE
  /\ UNCHANGED <<lk, waiting>>

\* Only a process that saw the condition false waits; giving up the lock and
\* joining the channel is one step.
Wait(p) ==
  /\ lk = p
  /\ ~ready
  /\ waiting' = waiting \cup {p}
  /\ lk' = Free
  /\ UNCHANGED ready

Signal(p) ==
  /\ lk = p
  /\ ready' = TRUE
  /\ UNCHANGED <<lk, waiting>>

WakeAll(p) ==
  /\ lk = p
  /\ waiting' = {}
  /\ UNCHANGED <<lk, ready>>

Next ==
  \/ \E p \in Waiters : Acquire(p) \/ Consume(p) \/ Wait(p) \/ Release(p)
  \/ \E p \in Wakers : Acquire(p) \/ Signal(p) \/ WakeAll(p) \/ Release(p)

Spec == Init /\ [][Next]_monvars
=============================================================================
