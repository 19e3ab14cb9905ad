---------------------------- MODULE SleepProofs -----------------------------
(***************************************************************************)
(* sleep() and wakeup() implement an atomic monitor, and lose no wakeup,   *)
(* for any number of waiters and wakers.                                   *)
(***************************************************************************)
EXTENDS Sleep, TLAPS

-----------------------------------------------------------------------------
(* The inductive invariant *)

\* Who holds lk is where the code says it does.
LkHeld(p) ==
  lk = p <=> \/ p \in Waiters /\ pc[p] \in {"test", "sl_acquire", "sl_release", "leave"}
             \/ p \in Wakers /\ pc[p] \in {"set", "wk_acquire", "wk_scan", "leave"}

\* Who holds ptable.lock is where the code says it does.
PlockHeld(p) ==
  plock = p <=> pc[p] \in {"sl_release", "sl_sched", "sl_tidy", "wk_scan"}

\* A waiter is not running exactly between sched() and its return.
StateOK(p) == state[p] # "RUNNING" <=> pc[p] = "sl_resume"

\* The condition a waiter saw false is still false while it holds lk in sleep().
StillFalse(p) == pc[p] \in {"sl_acquire", "sl_release"} => ~ready

SleepInv ==
  /\ TypeOK
  /\ \A p \in Waiters \cup Wakers : LkHeld(p) /\ PlockHeld(p)
  /\ \A p \in Waiters : StateOK(p) /\ StillFalse(p)
  /\ NoLostWakeup

-----------------------------------------------------------------------------

\* The invariant holds before any call of sleep or wakeup.
LEMMA InitInv == Init => SleepInv
BY SleepAssumption
DEF Init, SleepInv, TypeOK, LkHeld, PlockHeld, StateOK, StillFalse, NoLostWakeup,
    Waiting, WaiterPCs, WakerPCs

\* Typing, the two locks' holders and p->state.
Basics ==
  /\ TypeOK
  /\ \A p \in Waiters \cup Wakers : LkHeld(p) /\ PlockHeld(p)
  /\ \A p \in Waiters : StateOK(p)

\* Typing, the holders of the two locks and p->state survive every step.
LEMMA BasicsStep == SleepInv /\ [Next]_vars => Basics'
<1> SUFFICES ASSUME SleepInv, [Next]_vars PROVE Basics'
  OBVIOUS
<1> USE SleepAssumption
    DEF SleepInv, Basics, TypeOK, LkHeld, PlockHeld, StateOK, WaiterPCs, WakerPCs, Goto
<1>1. ASSUME NEW p \in Waiters, Acquire(p) PROVE Basics'
  BY <1>1 DEF Acquire
<1>2. ASSUME NEW p \in Waiters, TestTrue(p) PROVE Basics'
  BY <1>2 DEF TestTrue
<1>3. ASSUME NEW p \in Waiters, TestFalse(p) PROVE Basics'
  BY <1>3 DEF TestFalse
<1>4. ASSUME NEW p \in Waiters \cup Wakers, Leave(p) PROVE Basics'
  BY <1>4 DEF Leave
<1>5. ASSUME NEW p \in Waiters, SleepAcquire(p) PROVE Basics'
  BY <1>5 DEF SleepAcquire
<1>6. ASSUME NEW p \in Waiters, SleepRelease(p) PROVE Basics'
  BY <1>6 DEF SleepRelease
<1>7. ASSUME NEW p \in Waiters, SleepSched(p) PROVE Basics'
  BY <1>7 DEF SleepSched
<1>8. ASSUME NEW p \in Waiters, Resume(p) PROVE Basics'
  BY <1>8 DEF Resume
<1>9. ASSUME NEW p \in Waiters, SleepTidy(p) PROVE Basics'
  BY <1>9 DEF SleepTidy
<1>10. ASSUME NEW p \in Waiters, SleepReacquire(p) PROVE Basics'
  BY <1>10 DEF SleepReacquire
<1>11. ASSUME NEW p \in Wakers, WakerAcquire(p) PROVE Basics'
  BY <1>11 DEF WakerAcquire
<1>12. ASSUME NEW p \in Wakers, WakerSet(p) PROVE Basics'
  BY <1>12 DEF WakerSet
<1>13. ASSUME NEW p \in Wakers, WakeupAcquire(p) PROVE Basics'
  BY <1>13 DEF WakeupAcquire
<1>14. ASSUME NEW p \in Wakers, WakeupScan(p) PROVE Basics'
  BY <1>14 DEF WakeupScan
<1>15. CASE SchedRelease
  BY <1>15 DEF SchedRelease
<1>16. CASE UNCHANGED vars
  BY <1>16 DEF vars
<1> QED
  BY <1>1, <1>2, <1>3, <1>4, <1>5, <1>6, <1>7, <1>8, <1>9, <1>10, <1>11, <1>12, <1>13, <1>14, <1>15, <1>16 DEF Next

\* A condition seen false under lk stays false while lk is held in sleep().
LEMMA StillFalseStep ==
  ASSUME SleepInv, [Next]_vars, NEW q \in Waiters
  PROVE  StillFalse(q)'
<1> USE SleepAssumption
    DEF SleepInv, TypeOK, LkHeld, StillFalse, WaiterPCs, WakerPCs, Goto
<1>1. ASSUME NEW p \in Waiters, Acquire(p) PROVE StillFalse(q)'
  BY <1>1 DEF Acquire
<1>2. ASSUME NEW p \in Waiters, TestTrue(p) PROVE StillFalse(q)'
  BY <1>2 DEF TestTrue
<1>3. ASSUME NEW p \in Waiters, TestFalse(p) PROVE StillFalse(q)'
  BY <1>3 DEF TestFalse
<1>4. ASSUME NEW p \in Waiters \cup Wakers, Leave(p) PROVE StillFalse(q)'
  BY <1>4 DEF Leave
<1>5. ASSUME NEW p \in Waiters, SleepAcquire(p) PROVE StillFalse(q)'
  BY <1>5 DEF SleepAcquire
<1>6. ASSUME NEW p \in Waiters, SleepRelease(p) PROVE StillFalse(q)'
  BY <1>6 DEF SleepRelease
<1>7. ASSUME NEW p \in Waiters, SleepSched(p) PROVE StillFalse(q)'
  BY <1>7 DEF SleepSched
<1>8. ASSUME NEW p \in Waiters, Resume(p) PROVE StillFalse(q)'
  BY <1>8 DEF Resume
<1>9. ASSUME NEW p \in Waiters, SleepTidy(p) PROVE StillFalse(q)'
  BY <1>9 DEF SleepTidy
<1>10. ASSUME NEW p \in Waiters, SleepReacquire(p) PROVE StillFalse(q)'
  BY <1>10 DEF SleepReacquire
<1>11. ASSUME NEW p \in Wakers, WakerAcquire(p) PROVE StillFalse(q)'
  BY <1>11 DEF WakerAcquire
<1>12. ASSUME NEW p \in Wakers, WakerSet(p) PROVE StillFalse(q)'
  BY <1>12 DEF WakerSet
<1>13. ASSUME NEW p \in Wakers, WakeupAcquire(p) PROVE StillFalse(q)'
  BY <1>13 DEF WakeupAcquire
<1>14. ASSUME NEW p \in Wakers, WakeupScan(p) PROVE StillFalse(q)'
  BY <1>14 DEF WakeupScan
<1>15. CASE SchedRelease
  BY <1>15 DEF SchedRelease
<1>16. CASE UNCHANGED vars
  BY <1>16 DEF vars
<1> QED
  BY <1>1, <1>2, <1>3, <1>4, <1>5, <1>6, <1>7, <1>8, <1>9, <1>10, <1>11, <1>12, <1>13, <1>14, <1>15, <1>16 DEF Next

\* The argument of sleep's comment: a waiter that has released lk still holds
\* ptable.lock until it is SLEEPING, so the scan of wakeup1 cannot fall between.
LEMMA NoLostStep == SleepInv /\ [Next]_vars => NoLostWakeup'
<1> SUFFICES ASSUME SleepInv, [Next]_vars PROVE NoLostWakeup'
  OBVIOUS
<1> USE SleepAssumption
    DEF SleepInv, TypeOK, NoLostWakeup, Waiting, StateOK, WaiterPCs, WakerPCs, Goto
<1>1. ASSUME NEW p \in Waiters, Acquire(p) PROVE NoLostWakeup'
  BY <1>1 DEF Acquire
<1>2. ASSUME NEW p \in Waiters, TestTrue(p) PROVE NoLostWakeup'
  BY <1>2 DEF TestTrue
<1>3. ASSUME NEW p \in Waiters, TestFalse(p) PROVE NoLostWakeup'
  BY <1>3 DEF TestFalse
<1>4. ASSUME NEW p \in Waiters \cup Wakers, Leave(p) PROVE NoLostWakeup'
  BY <1>4 DEF Leave
<1>5. ASSUME NEW p \in Waiters, SleepAcquire(p) PROVE NoLostWakeup'
  BY <1>5 DEF SleepAcquire
<1>6. ASSUME NEW p \in Waiters, SleepRelease(p) PROVE NoLostWakeup'
  BY <1>6 DEF SleepRelease, StillFalse
<1>7. ASSUME NEW p \in Waiters, SleepSched(p) PROVE NoLostWakeup'
  BY <1>7 DEF SleepSched
<1>8. ASSUME NEW p \in Waiters, Resume(p) PROVE NoLostWakeup'
  BY <1>8 DEF Resume
<1>9. ASSUME NEW p \in Waiters, SleepTidy(p) PROVE NoLostWakeup'
  BY <1>9 DEF SleepTidy
<1>10. ASSUME NEW p \in Waiters, SleepReacquire(p) PROVE NoLostWakeup'
  BY <1>10 DEF SleepReacquire
<1>11. ASSUME NEW p \in Wakers, WakerAcquire(p) PROVE NoLostWakeup'
  BY <1>11 DEF WakerAcquire
<1>12. ASSUME NEW p \in Wakers, WakerSet(p) PROVE NoLostWakeup'
  BY <1>12 DEF WakerSet
<1>13. ASSUME NEW p \in Wakers, WakeupAcquire(p) PROVE NoLostWakeup'
  BY <1>13 DEF WakeupAcquire
<1>14. ASSUME NEW p \in Wakers, WakeupScan(p) PROVE NoLostWakeup'
  BY <1>14 DEF WakeupScan, PlockHeld
<1>15. CASE SchedRelease
  BY <1>15 DEF SchedRelease
<1>16. CASE UNCHANGED vars
  BY <1>16 DEF vars
<1> QED
  BY <1>1, <1>2, <1>3, <1>4, <1>5, <1>6, <1>7, <1>8, <1>9, <1>10, <1>11, <1>12, <1>13, <1>14, <1>15, <1>16 DEF Next

\* The invariant is inductive.
LEMMA NextInv == SleepInv /\ [Next]_vars => SleepInv'
BY BasicsStep, StillFalseStep, NoLostStep DEF SleepInv, Basics

\* The variables of sleep() and wakeup() keep their types.
THEOREM SleepTyping == Spec => []TypeOK
<1>1. SleepInv => TypeOK
  BY DEF SleepInv
<1> QED
  BY <1>1, InitInv, NextInv, PTL DEF Spec

\* No wakeup is lost, for any number of waiters and wakers.
THEOREM SleepLosesNoWakeup == Spec => []NoLostWakeup
<1>1. SleepInv => NoLostWakeup
  BY DEF SleepInv
<1> QED
  BY <1>1, InitInv, NextInv, PTL DEF Spec

-----------------------------------------------------------------------------
(* The refinement *)

\* Every step of the code is a step of the monitor or leaves it unchanged.
LEMMA MonitorStep ==
  ASSUME SleepInv, SleepInv', [Next]_vars
  PROVE  [Mon!Next]_(Mon!monvars)
<1> USE SleepAssumption
    DEF TypeOK, WaiterPCs, WakerPCs, Goto, Waiting, Mon!monvars
<1>1. ASSUME NEW p \in Waiters, Acquire(p) PROVE [Mon!Next]_(Mon!monvars)
  BY <1>1 DEF Acquire, Mon!Next, Mon!Acquire, SleepInv
<1>2. ASSUME NEW p \in Waiters, TestTrue(p) PROVE [Mon!Next]_(Mon!monvars)
  BY <1>2 DEF TestTrue, Mon!Next, Mon!Consume, SleepInv, LkHeld
<1>3. ASSUME NEW p \in Waiters, TestFalse(p) PROVE [Mon!Next]_(Mon!monvars)
  BY <1>3 DEF TestFalse, SleepInv
<1>4. ASSUME NEW p \in Waiters \cup Wakers, Leave(p) PROVE [Mon!Next]_(Mon!monvars)
  BY <1>4 DEF Leave, Mon!Next, Mon!Release, SleepInv, LkHeld
<1>5. ASSUME NEW p \in Waiters, SleepAcquire(p) PROVE [Mon!Next]_(Mon!monvars)
  BY <1>5 DEF SleepAcquire, SleepInv
<1>6. ASSUME NEW p \in Waiters, SleepRelease(p) PROVE [Mon!Next]_(Mon!monvars)
  BY <1>6 DEF SleepRelease, Mon!Next, Mon!Wait, SleepInv, LkHeld, StillFalse
<1>7. ASSUME NEW p \in Waiters, SleepSched(p) PROVE [Mon!Next]_(Mon!monvars)
  BY <1>7 DEF SleepSched, SleepInv
<1>8. ASSUME NEW p \in Waiters, Resume(p) PROVE [Mon!Next]_(Mon!monvars)
  BY <1>8 DEF Resume, SleepInv
<1>9. ASSUME NEW p \in Waiters, SleepTidy(p) PROVE [Mon!Next]_(Mon!monvars)
  BY <1>9 DEF SleepTidy, SleepInv, StateOK
<1>10. ASSUME NEW p \in Waiters, SleepReacquire(p) PROVE [Mon!Next]_(Mon!monvars)
  BY <1>10 DEF SleepReacquire, Mon!Next, Mon!Acquire, SleepInv
<1>11. ASSUME NEW p \in Wakers, WakerAcquire(p) PROVE [Mon!Next]_(Mon!monvars)
  BY <1>11 DEF WakerAcquire, Mon!Next, Mon!Acquire, SleepInv
<1>12. ASSUME NEW p \in Wakers, WakerSet(p) PROVE [Mon!Next]_(Mon!monvars)
  BY <1>12 DEF WakerSet, Mon!Next, Mon!Signal, SleepInv, LkHeld
<1>13. ASSUME NEW p \in Wakers, WakeupAcquire(p) PROVE [Mon!Next]_(Mon!monvars)
  BY <1>13 DEF WakeupAcquire, SleepInv
<1>14. ASSUME NEW p \in Wakers, WakeupScan(p) PROVE [Mon!Next]_(Mon!monvars)
  BY <1>14 DEF WakeupScan, Mon!Next, Mon!WakeAll, SleepInv, LkHeld, PlockHeld, StateOK
<1>15. CASE SchedRelease
  BY <1>15 DEF SchedRelease
<1>16. CASE UNCHANGED vars
  BY <1>16 DEF vars
<1> QED
  BY <1>1, <1>2, <1>3, <1>4, <1>5, <1>6, <1>7, <1>8, <1>9, <1>10, <1>11, <1>12, <1>13, <1>14, <1>15, <1>16 DEF Next

\* sleep() and wakeup() implement the monitor in which releasing the lock and
\* going to sleep is one step.
THEOREM SleepIsAtomic == Spec => AtomicSleep
<1>1. Init => Mon!Init
  BY DEF Init, Mon!Init, Waiting
<1>2. SleepInv /\ SleepInv' /\ [Next]_vars => [Mon!Next]_(Mon!monvars)
  BY MonitorStep
<1> QED
  BY <1>1, <1>2, InitInv, NextInv, PTL DEF Spec, AtomicSleep, Mon!Spec

=============================================================================
