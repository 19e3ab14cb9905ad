\* Three waiters and two wakers.
CONSTANTS
  Waiters = {w1, w2, w3}
  Wakers = {k1, k2}
  Free = Free
  Sched = Sched
SPECIFICATION FairSpec
PROPERTIES AtomicSleep ReadyIsConsumed
