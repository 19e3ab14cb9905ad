--------------------------------- MODULE Log --------------------------------
(***************************************************************************)
(* kernel/log.c: the redo log that groups the block writes of concurrent   *)
(* file-system calls into transactions, and its recovery after a crash.    *)
(*                                                                         *)
(* log.lock makes begin_op, the two locked parts of end_op and the locked  *)
(* part of log_write atomic; every disk write of commit() and of recovery  *)
(* is a step of its own, and the machine may lose power between any two.   *)
(* The buffer cache appears as what log.c sees of it: a block is cached or *)
(* not, dirty (pinned) or clean (may be recycled), busy or free.           *)
(***************************************************************************)
EXTENDS Naturals, Sequences, FiniteSets, Functions

CONSTANTS Proc,         \* processes in file-system calls
          Blocks,       \* home blocks of the file system
          Vals,         \* contents of a block
          NotCached,    \* no buffer holds the block
          LOGSIZE,      \* param.h: room in struct logheader
          LOGDISK,      \* sb.nlog = log.size: on-disk blocks, header included
          MAXOPBLOCKS   \* param.h: blocks an operation may write

ASSUME LogAssumption ==
  /\ LOGSIZE \in Nat /\ LOGDISK \in Nat \ {0} /\ MAXOPBLOCKS \in Nat \ {0}
  /\ MAXOPBLOCKS <= LOGSIZE
  /\ NotCached \notin Vals
  /\ IsFiniteSet(Proc)

VARIABLES
  disk,         \* home blocks on the disk
  dlog,         \* on-disk log blocks, log.start + 1 ...
  dhead,        \* on-disk header block: its block[0 .. n-1]
  cache,        \* buffer cache contents of the home blocks
  dirty,        \* blocks whose buffer has B_DIRTY
  busy,         \* blocks whose buffer has B_BUSY
  lh,           \* log.lh: its block[0 .. n-1]
  outstanding,  \* log.outstanding
  committing,   \* log.committing
  pc,           \* where each process is
  buf,          \* the buffer a process passes to log_write
  wrote,        \* distinct blocks the process's operation has logged
  tail          \* loop variable of write_log and install_trans

diskside == <<disk, dlog, dhead>>
bcache == <<cache, dirty, busy>>
logstate == <<lh, outstanding, committing>>
locals == <<buf, wrote, tail>>
vars == <<disk, dlog, dhead, cache, dirty, busy, lh, outstanding, committing,
          pc, buf, wrote, tail>>

LogSlots == 1..LOGDISK - 1

InOpPCs == {"op", "check", "append", "panic: too big a transaction"}
RecoveryPCs == {"down", "r_install", "r_clear"}
PCs == InOpPCs \cup RecoveryPCs \cup
       {"idle", "sleep", "retry", "commit", "write_log", "write_head",
        "install", "clear", "done", "panic: log.committing",
        "panic: outside of trans", "panic: incorrect blockno"}

TypeOK ==
  /\ disk \in [Blocks -> Vals]
  /\ dlog \in [LogSlots -> Vals]
  /\ dhead \in Seq(Blocks)
  /\ cache \in [Blocks -> Vals \cup {NotCached}]
  /\ dirty \subseteq Blocks
  /\ busy \subseteq Blocks
  /\ lh \in Seq(Blocks)
  /\ outstanding \in Nat
  /\ committing \in BOOLEAN
  /\ pc \in [Proc -> PCs]
  /\ buf \in [Proc -> Blocks]
  /\ wrote \in [Proc -> SUBSET Blocks]
  /\ tail \in [Proc -> Nat]

\* A disk as mkfs leaves it: an empty header.  The machine is about to boot.
Init ==
  /\ disk \in {[b \in Blocks |-> v] : v \in Vals}
  /\ dlog \in {[i \in LogSlots |-> v] : v \in Vals}
  /\ dhead = <<>>
  /\ cache = [b \in Blocks |-> NotCached]
  /\ dirty = {}
  /\ busy = {}
  /\ lh = <<>>
  /\ outstanding = 0
  /\ committing = FALSE
  /\ pc = [p \in Proc |-> "down"]
  /\ buf \in {[p \in Proc |-> b] : b \in Blocks}
  /\ wrote = [p \in Proc |-> {}]
  /\ tail = [p \in Proc |-> 0]

Goto(p, where) == pc' = [pc EXCEPT ![p] = where]

\* Process p goes to where and everyone asleep on &log is made runnable.
GotoAndWakeup(p, where) ==
  pc' = [q \in Proc |-> IF q = p THEN where
                        ELSE IF pc[q] = "sleep" THEN "retry" ELSE pc[q]]

\* What bread(b) returns.
Bread(b) == IF cache[b] = NotCached THEN disk[b] ELSE cache[b]

-----------------------------------------------------------------------------
(* begin_op *)

\* Mutant: the operation that asks is not counted.
MustWaitOffByOne ==
  \/ committing
  \/ Len(lh) + outstanding * MAXOPBLOCKS > LOGSIZE

\* One pass of the loop in begin_op must wait: a commit is running, or this
\* operation and those outstanding might not fit.
MustWait ==
  \/ committing
  \/ Len(lh) + (outstanding + 1) * MAXOPBLOCKS > LOGSIZE

BeginOpSleep(p) ==
  /\ pc[p] \in {"idle", "retry"}
  /\ MustWait
  /\ Goto(p, "sleep")
  /\ UNCHANGED <<diskside, bcache, logstate, locals>>

BeginOpEnter(p) ==
  /\ pc[p] \in {"idle", "retry"}
  /\ ~MustWait
  /\ outstanding' = outstanding + 1
  /\ wrote' = [wrote EXCEPT ![p] = {}]
  /\ Goto(p, "op")
  /\ UNCHANGED <<diskside, bcache, lh, committing, buf, tail>>

-----------------------------------------------------------------------------
(* An operation's writes: bread, modify, log_write, brelse *)

\* The caller gets the buffer busy and modifies b->data.  Operations keep to
\* MAXOPBLOCKS distinct blocks, as param.h says they do.
ModifyBuf(p, b, v) ==
  /\ pc[p] = "op"
  /\ b \notin busy
  /\ Cardinality(wrote[p] \cup {b}) <= MAXOPBLOCKS
  /\ cache' = [cache EXCEPT ![b] = v]
  /\ busy' = busy \cup {b}
  /\ buf' = [buf EXCEPT ![p] = b]
  /\ Goto(p, "check")
  /\ UNCHANGED <<diskside, dirty, logstate, wrote, tail>>

\* log_write tests the log's size before it takes log.lock.
LogWriteCheck(p) ==
  /\ pc[p] = "check"
  /\ Goto(p, IF Len(lh) >= LOGSIZE \/ Len(lh) >= LOGDISK - 1
             THEN "panic: too big a transaction"
             ELSE IF outstanding < 1 THEN "panic: outside of trans"
             ELSE "append")
  /\ UNCHANGED <<diskside, bcache, logstate, locals>>

\* Mutant: the buffer is not pinned.
LogWriteUnpinned(p) ==
  /\ pc[p] = "append"
  /\ lh' = IF buf[p] \in Range(lh) THEN lh ELSE Append(lh, buf[p])
  /\ busy' = busy \ {buf[p]}
  /\ wrote' = [wrote EXCEPT ![p] = @ \cup {buf[p]}]
  /\ Goto(p, "op")
  /\ UNCHANGED <<diskside, cache, dirty, outstanding, committing, buf, tail>>

\* The locked part: absorb or append, pin the buffer; then brelse.
LogWriteAppend(p) ==
  /\ pc[p] = "append"
  /\ lh' = IF buf[p] \in Range(lh) THEN lh ELSE Append(lh, buf[p])
  /\ dirty' = dirty \cup {buf[p]}
  /\ busy' = busy \ {buf[p]}
  /\ wrote' = [wrote EXCEPT ![p] = @ \cup {buf[p]}]
  /\ Goto(p, "op")
  /\ UNCHANGED <<diskside, cache, outstanding, committing, buf, tail>>

-----------------------------------------------------------------------------
(* end_op and commit *)

\* The first locked part of end_op: the last operation commits, another one
\* wakes those waiting for log space.
EndOp(p) ==
  /\ pc[p] = "op"
  /\ outstanding' = outstanding - 1
  /\ IF committing
     THEN /\ Goto(p, "panic: log.committing")
          /\ UNCHANGED committing
     ELSE IF outstanding = 1
     THEN /\ committing' = TRUE
          /\ Goto(p, "commit")
     ELSE /\ GotoAndWakeup(p, "idle")
          /\ UNCHANGED committing
  /\ UNCHANGED <<diskside, bcache, lh, locals>>

\* Mutant: "if (log.lh.n > 1)".
CommitOffByOne(p) ==
  /\ pc[p] = "commit"
  /\ Goto(p, IF Len(lh) <= 1 THEN "done" ELSE "write_log")
  /\ tail' = [tail EXCEPT ![p] = 0]
  /\ UNCHANGED <<diskside, bcache, logstate, buf, wrote>>

\* commit() does nothing for an empty transaction.
Commit(p) ==
  /\ pc[p] = "commit"
  /\ Goto(p, IF lh = <<>> THEN "done" ELSE "write_log")
  /\ tail' = [tail EXCEPT ![p] = 0]
  /\ UNCHANGED <<diskside, bcache, logstate, buf, wrote>>

\* The loop over tail goes on at this place, or leaves for the next one.
Advance(p, here, next) ==
  /\ tail' = [tail EXCEPT ![p] = IF tail[p] + 1 < Len(lh) THEN @ + 1 ELSE 0]
  /\ Goto(p, IF tail[p] + 1 < Len(lh) THEN here ELSE next)

\* One iteration of write_log.  The log is the last thing on the disk, so a
\* block past it stops in idestart: panic("incorrect blockno").
WriteLog(p) ==
  LET b == lh[tail[p] + 1] IN
  /\ pc[p] = "write_log"
  /\ b \notin busy
  /\ IF tail[p] + 1 \in LogSlots
     THEN /\ dlog' = [dlog EXCEPT ![tail[p] + 1] = Bread(b)]
          /\ Advance(p, "write_log", "write_head")
     ELSE /\ Goto(p, "panic: incorrect blockno")
          /\ UNCHANGED <<dlog, tail>>
  /\ UNCHANGED <<disk, dhead, bcache, logstate, buf, wrote>>

\* write_head: the transaction commits.
WriteHead(p) ==
  /\ pc[p] = "write_head"
  /\ dhead' = lh
  /\ Goto(p, "install")
  /\ UNCHANGED <<disk, dlog, bcache, logstate, locals>>

\* One iteration of install_trans: copy the log block into the home block's
\* buffer and write that, which also leaves the buffer clean.
InstallBlock(p, here, next) ==
  LET b == lh[tail[p] + 1] IN
  /\ pc[p] = here
  /\ b \notin busy
  /\ disk' = [disk EXCEPT ![b] = dlog[tail[p] + 1]]
  /\ cache' = [cache EXCEPT ![b] = dlog[tail[p] + 1]]
  /\ dirty' = dirty \ {b}
  /\ Advance(p, here, next)
  /\ UNCHANGED <<dlog, dhead, busy, logstate, buf, wrote>>

InstallTrans(p) == InstallBlock(p, "install", "clear")

\* Mutant: the header is cleared in memory only.
ClearHeadInMemory(p) ==
  /\ pc[p] = "clear"
  /\ lh' = <<>>
  /\ Goto(p, "done")
  /\ UNCHANGED <<diskside, bcache, outstanding, committing, locals>>

\* log.lh.n = 0; write_head(): erase the transaction.
ClearHead(p) ==
  /\ pc[p] = "clear"
  /\ lh' = <<>>
  /\ dhead' = <<>>
  /\ Goto(p, "done")
  /\ UNCHANGED <<disk, dlog, bcache, outstanding, committing, locals>>

\* Mutant: no wakeup after the commit.
CommitDoneSilent(p) ==
  /\ pc[p] = "done"
  /\ committing' = FALSE
  /\ Goto(p, "idle")
  /\ UNCHANGED <<diskside, bcache, lh, outstanding, locals>>

\* Mutant: the operation is counted out a second time.
CommitDoneTwice(p) ==
  /\ pc[p] = "done"
  /\ committing' = FALSE
  /\ outstanding' = outstanding - 1
  /\ GotoAndWakeup(p, "idle")
  /\ UNCHANGED <<diskside, bcache, lh, locals>>

\* The second locked part of end_op.
CommitDone(p) ==
  /\ pc[p] = "done"
  /\ committing' = FALSE
  /\ GotoAndWakeup(p, "idle")
  /\ UNCHANGED <<diskside, bcache, lh, outstanding, locals>>

-----------------------------------------------------------------------------
(* The buffer cache recycles a clean, free buffer (bget). *)

Evict(b) ==
  /\ cache[b] # NotCached
  /\ b \notin dirty \cup busy
  /\ cache' = [cache EXCEPT ![b] = NotCached]
  /\ UNCHANGED <<diskside, dirty, busy, logstate, pc, locals>>

-----------------------------------------------------------------------------
(* Power loss and recovery *)

\* Everything in memory is lost; the disk keeps the block writes done so far.
Crash ==
  /\ \E p \in Proc : pc[p] # "down"
  /\ cache' = [b \in Blocks |-> NotCached]
  /\ dirty' = {}
  /\ busy' = {}
  /\ lh' = <<>>
  /\ outstanding' = 0
  /\ committing' = FALSE
  /\ pc' = [p \in Proc |-> "down"]
  /\ wrote' = [p \in Proc |-> {}]
  /\ tail' = [p \in Proc |-> 0]
  /\ UNCHANGED <<diskside, buf>>

\* The first process runs initlog from forkret, alone: recover_from_log calls
\* read_head.
InitLog(p) ==
  /\ \A q \in Proc : pc[q] = "down"
  /\ lh' = dhead
  /\ Goto(p, IF dhead = <<>> THEN "r_clear" ELSE "r_install")
  /\ UNCHANGED <<diskside, bcache, outstanding, committing, locals>>

\* recover_from_log: install_trans.
RecoverInstall(p) == InstallBlock(p, "r_install", "r_clear")

\* recover_from_log: log.lh.n = 0; write_head(); then the system is up.
RecoverClear(p) ==
  /\ pc[p] = "r_clear"
  /\ lh' = <<>>
  /\ dhead' = <<>>
  /\ pc' = [q \in Proc |-> "idle"]
  /\ UNCHANGED <<disk, dlog, bcache, outstanding, committing, locals>>

-----------------------------------------------------------------------------

Next ==
  \/ \E p \in Proc :
       \/ BeginOpSleep(p) \/ BeginOpEnter(p)
       \/ \E b \in Blocks, v \in Vals : ModifyBuf(p, b, v)
       \/ LogWriteCheck(p) \/ LogWriteAppend(p)
       \/ EndOp(p) \/ Commit(p) \/ WriteLog(p) \/ WriteHead(p)
       \/ InstallTrans(p) \/ ClearHead(p) \/ CommitDone(p)
       \/ InitLog(p) \/ RecoverInstall(p) \/ RecoverClear(p)
  \/ \E b \in Blocks : Evict(b)
  \/ Crash

Spec == Init /\ [][Next]_vars

-----------------------------------------------------------------------------
(* Properties *)

\* The machine is up: recovery has finished.
Up == \A p \in Proc : pc[p] \notin RecoveryPCs

\* What recovery would make of the disk now.
Recovered ==
  [b \in Blocks |-> IF b \in Range(dhead)
                    THEN dlog[CHOOSE i \in 1..Len(dhead) : dhead[i] = b]
                    ELSE disk[b]]

AD == INSTANCE AtomicDisk
        WITH stable <- Recovered,
             view <- IF Up THEN [b \in Blocks |-> Bread(b)] ELSE Recovered,
             inop <- {p \in Proc : pc[p] \in InOpPCs}

\* log.c implements a disk with atomic operations: whatever the interleaving
\* of operations and wherever power is lost, in commit() or in recovery
\* itself, what is recovered is the state after some set of complete
\* operations, and reads see every write (log.c: "there is never any reasoning
\* required about whether a commit might write an uncommitted system call's
\* updates to disk").
AtomicTransactions == AD!Spec

\* When the last operation's end_op has returned, everything written is on
\* stable storage and no buffer is pinned (log.c: "commits if this was the last
\* outstanding operation").
DurableWhenQuiet ==
  (Up /\ outstanding = 0 /\ ~committing) =>
    Recovered = [b \in Blocks |-> Bread(b)] /\ dirty = {} /\ lh = <<>>

\* Every block that an operation has logged stays pinned until it is in the
\* committed log and installed: no logged block can be recycled.
PinnedUntilInstalled ==
  \A p \in Proc : pc[p] \in InOpPCs \cup {"commit", "write_log", "write_head"} =>
    Range(lh) = dirty

\* The header array block[LOGSIZE] is never overrun, by any number of
\* operations that each keep to MAXOPBLOCKS blocks, although log_write tests
\* the size without holding log.lock.
HeaderInBounds == Len(lh) <= LOGSIZE

\* The blocks of a transaction fit in the on-disk log (begin_op: "this op might
\* exhaust log space; wait for commit").
LogRegionInBounds == Len(lh) <= LOGDISK - 1

\* An operation that begin_op admitted does not run out of log space.
NoTooBig == \A p \in Proc : pc[p] # "panic: too big a transaction"

\* Nobody is left asleep in begin_op: while a process sleeps there, an operation
\* that will call end_op is outstanding or a commit that ends in a wakeup is
\* running, whatever the sleeper waits for.
SleepersHaveAWaker ==
  (\E p \in Proc : pc[p] = "sleep") => outstanding > 0 \/ committing

=============================================================================
