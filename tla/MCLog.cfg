\* Three processes with operations of one block each, a log for two of them and
\* a third block: transactions of several operations, waiting for log space and
\* absorption all happen.
CONSTANTS
  Proc = {p1, p2, p3}
  Blocks = {b1, b2, b3}
  Vals = {v0, v1}
  NotCached = NotCached
  LOGSIZE = 2
  LOGDISK = 3
  MAXOPBLOCKS = 1
SPECIFICATION Spec
SYMMETRY Symmetry
INVARIANTS PinnedUntilInstalled  SleepersHaveAWaker
PROPERTY AtomicTransactions
