------------------------------ MODULE BufCache ------------------------------
(***************************************************************************)
(* kernel/bio.c over kernel/ide.c: processes that read, change and release *)
(* disk blocks through a cache of NBUF buffers, the request queue of the   *)
(* disk driver, its interrupt handler, and the disk.                       *)
(*                                                                         *)
(* What bio.c does under bcache.lock, and ide.c under idelock, is one      *)
(* step; sleep gives the lock up and falls asleep in one step, as          *)
(* SleepProofs shows it does.  Both bget and iderw sleep on the buffer, so *)
(* a wakeup on a buffer wakes both kinds of sleepers.                      *)
(*                                                                         *)
(* The users of the cache hold one buffer at a time, and change a buffer   *)
(* only to write it at once (bwrite) or to pin it dirty for the log        *)
(* (log_write).                                                            *)
(***************************************************************************)
EXTENDS Naturals, FiniteSets, Sequences, FiniteSetsExt

CONSTANTS Proc, NoProc,
          NBUF,         \* buffers, 30 in the code
          Blocks, NoBlock,
          Vals,         \* contents of a block
          MaxPinned,    \* buffers the log keeps dirty at most
          Errors,       \* BOOLEAN: the disk may report an error on a read
          NoRequest

ASSUME BufCacheAssumption ==
  /\ NBUF \in Nat \ {0}
  /\ MaxPinned \in Nat
  /\ Errors \in BOOLEAN
  /\ NoProc \notin Proc
  /\ NoBlock \notin Blocks
  /\ NoRequest \notin [write : BOOLEAN, block : Blocks, val : Vals]

Bufs == 1..NBUF

VARIABLES flags, blockno, data,   \* struct buf
          lru,                    \* the list from bcache.head.next on
          idequeue,               \* idequeue and the qnext links
          request,                \* the command the controller works on
          irq,                    \* the controller has raised its interrupt
          disk,
          pc, want, held          \* of each process: where it is, the block
                                  \* it asked for, the buffer it has

vars == <<flags, blockno, data, lru, idequeue, request, irq, disk, pc, want, held>>

bcache == <<blockno, lru>>
driver == <<idequeue, request, irq, disk>>

PCs == {"user", "bget", "bsleep", "bread", "bwrite", "iosleep", "iocheck", "hold",
        "panic"}

Flags == {"BUSY", "VALID", "DIRTY"}

\* Every variable has its type; the list holds every buffer once, the queue
\* holds none twice.
TypeOK ==
  /\ flags \in [Bufs -> SUBSET Flags]
  /\ blockno \in [Bufs -> Blocks \cup {NoBlock}]
  /\ data \in [Bufs -> Vals]
  /\ lru \in Seq(Bufs) /\ Len(lru) = NBUF /\ Range(lru) = Bufs
  /\ idequeue \in Seq(Bufs) /\ IsInjective(idequeue)
  /\ request \in [write : BOOLEAN, block : Blocks, val : Vals] \cup {NoRequest}
  /\ irq \in BOOLEAN
  /\ disk \in [Blocks -> Vals]
  /\ pc \in [Proc -> PCs]
  /\ want \in [Proc -> Blocks \cup {NoBlock}]
  /\ held \in [Proc -> Bufs \cup {0}]

\* binit: each buffer is put at the front of the list, with no device.
Init ==
  /\ flags = [b \in Bufs |-> {}]
  /\ blockno = [b \in Bufs |-> NoBlock]
  /\ disk \in [Blocks -> Vals]
  /\ \E v \in Vals : data = [b \in Bufs |-> v]
  /\ lru = [k \in 1..NBUF |-> NBUF + 1 - k]
  /\ idequeue = <<>>
  /\ request = NoRequest
  /\ irq = FALSE
  /\ pc = [p \in Proc |-> "user"]
  /\ want = [p \in Proc |-> NoBlock]
  /\ held = [p \in Proc |-> 0]

Wakeup(b) ==
  [p \in Proc |->
    CASE pc[p] = "bsleep" /\ held[p] = b -> "bget"
      [] pc[p] = "iosleep" /\ held[p] = b -> "iocheck"
      [] OTHER -> pc[p]]

-----------------------------------------------------------------------------
(* bio.c *)

Bread(p) ==
  /\ pc[p] = "user"
  /\ pc' = [pc EXCEPT ![p] = "bget"]
  /\ \E k \in Blocks : want' = [want EXCEPT ![p] = k]
  /\ UNCHANGED <<flags, data, bcache, driver, held>>

Cached(k) == {b \in Bufs : blockno[b] = k}

\* Mutant: a pinned buffer is recycled.
RecyclablePinned == {b \in Bufs : "BUSY" \notin flags[b]}

\* "non-busy and clean"
Recyclable == {b \in Bufs : "BUSY" \notin flags[b] /\ "DIRTY" \notin flags[b]}

\* Mutant: B_BUSY is not tested.
BgetHitBusy(p) ==
  /\ pc[p] = "bget"
  /\ \E b \in Cached(want[p]) :
       /\ flags' = [flags EXCEPT ![b] = @ \cup {"BUSY"}]
       /\ held' = [held EXCEPT ![p] = b]
       /\ pc' = [pc EXCEPT ![p] = IF "VALID" \in flags[b] THEN "hold" ELSE "bread"]
  /\ UNCHANGED <<data, bcache, driver, want>>

BgetHit(p) ==
  /\ pc[p] = "bget"
  /\ \E b \in Cached(want[p]) :
       /\ "BUSY" \notin flags[b]
       /\ flags' = [flags EXCEPT ![b] = @ \cup {"BUSY"}]
       /\ held' = [held EXCEPT ![p] = b]
       /\ pc' = [pc EXCEPT ![p] = IF "VALID" \in flags[b] THEN "hold" ELSE "bread"]
  /\ UNCHANGED <<data, bcache, driver, want>>

\* held is the channel of a process that sleeps in bget.
BgetSleep(p) ==
  /\ pc[p] = "bget"
  /\ \E b \in Cached(want[p]) :
       /\ "BUSY" \in flags[b]
       /\ held' = [held EXCEPT ![p] = b]
  /\ pc' = [pc EXCEPT ![p] = "bsleep"]
  /\ UNCHANGED <<flags, data, bcache, driver, want>>

\* Mutant: the flags of the recycled buffer's old block are kept.
RecycledFlagsKept(b) == flags[b] \cup {"BUSY"}

\* The flags bget gives a recycled buffer: B_VALID is gone.
RecycledFlags(b) == {"BUSY"}

\* The buffer used least recently is taken first.
Victim == lru[Max({k \in 1..Len(lru) : lru[k] \in Recyclable})]

BgetMiss(p) ==
  /\ pc[p] = "bget"
  /\ Cached(want[p]) = {}
  /\ IF Recyclable = {}
       THEN /\ pc' = [pc EXCEPT ![p] = "panic"]
            /\ UNCHANGED <<flags, blockno, held>>
       ELSE LET b == Victim
            IN  /\ blockno' = [blockno EXCEPT ![b] = want[p]]
                /\ flags' = [flags EXCEPT ![b] = RecycledFlags(b)]
                /\ held' = [held EXCEPT ![p] = b]
                /\ pc' = [pc EXCEPT ![p] = "bread"]
  /\ UNCHANGED <<data, lru, driver, want>>

Bwrite(p) ==
  LET b == held[p]
  IN  /\ pc[p] = "hold"
      /\ \E v \in Vals : data' = [data EXCEPT ![b] = v]
      /\ flags' = [flags EXCEPT ![b] = @ \cup {"DIRTY"}]
      /\ pc' = [pc EXCEPT ![p] = "bwrite"]
      /\ UNCHANGED <<bcache, driver, want, held>>

\* Mutant: the buffer is put at the front without being unlinked.
MoveToHeadLinked(b) == <<b>> \o lru

\* The list with b unlinked and put at its front.
MoveToHead(b) ==
  LET at == CHOOSE k \in 1..Len(lru) : lru[k] = b
  IN  <<b>> \o (SubSeq(lru, 1, at - 1) \o SubSeq(lru, at + 1, Len(lru)))

\* Mutant: the processes waiting for the buffer are not woken.
BrelseSilent(p) ==
  LET b == held[p]
  IN  /\ pc[p] = "hold"
      /\ lru' = MoveToHead(b)
      /\ flags' = [flags EXCEPT ![b] = @ \ {"BUSY"}]
      /\ pc' = [pc EXCEPT ![p] = "user"]
      /\ held' = [held EXCEPT ![p] = 0]
      /\ want' = [want EXCEPT ![p] = NoBlock]
      /\ UNCHANGED <<data, blockno, driver>>

Brelse(p) ==
  LET b == held[p]
  IN  /\ pc[p] = "hold"
      /\ lru' = MoveToHead(b)
      /\ flags' = [flags EXCEPT ![b] = @ \ {"BUSY"}]
      /\ pc' = [Wakeup(b) EXCEPT ![p] = "user"]
      /\ held' = [held EXCEPT ![p] = 0]
      /\ want' = [want EXCEPT ![p] = NoBlock]
      /\ UNCHANGED <<data, blockno, driver>>

\* log_write, the other way to change a block: the buffer is pinned.
Pinned == {b \in Bufs : "DIRTY" \in flags[b]}

\* Mutant: no bound on what is pinned.
LogWriteUnbounded(p) ==
  LET b == held[p]
  IN  /\ pc[p] = "hold"
      /\ \E v \in Vals : data' = [data EXCEPT ![b] = v]
      /\ flags' = [flags EXCEPT ![b] = @ \cup {"DIRTY"}]
      /\ UNCHANGED <<bcache, driver, pc, want, held>>

LogWrite(p) ==
  LET b == held[p]
  IN  /\ pc[p] = "hold"
      /\ Cardinality(Pinned \cup {b}) <= MaxPinned
      /\ \E v \in Vals : data' = [data EXCEPT ![b] = v]
      /\ flags' = [flags EXCEPT ![b] = @ \cup {"DIRTY"}]
      /\ UNCHANGED <<bcache, driver, pc, want, held>>

-----------------------------------------------------------------------------
(* ide.c *)

\* idestart: the command and, for a write, the data go to the controller.
Idestart(b) == [write |-> "DIRTY" \in flags[b], block |-> blockno[b], val |-> data[b]]

\* Mutant: the disk is started for every request.
IderwStarts(p) ==
  LET b == held[p]
  IN  /\ pc[p] \in {"bread", "bwrite"}
      /\ idequeue' = Append(idequeue, b)
      /\ request' = Idestart(b)
      /\ pc' = [pc EXCEPT ![p] = "iosleep"]
      /\ UNCHANGED <<flags, data, bcache, irq, disk, want, held>>

Iderw(p) ==
  LET b == held[p]
  IN  /\ pc[p] \in {"bread", "bwrite"}
      /\ idequeue' = Append(idequeue, b)
      /\ request' = IF idequeue = <<>> THEN Idestart(b) ELSE request
      /\ pc' = [pc EXCEPT ![p] = "iosleep"]
      /\ UNCHANGED <<flags, data, bcache, irq, disk, want, held>>

\* Woken in iderw's loop.
IderwCheck(p) ==
  /\ pc[p] = "iocheck"
  /\ pc' = [pc EXCEPT ![p] = IF flags[held[p]] \cap {"VALID", "DIRTY"} = {"VALID"}
                               THEN "hold" ELSE "iosleep"]
  /\ UNCHANGED <<flags, data, bcache, driver, want, held>>

\* Takes the finished buffer off the queue and starts the next one.  A read
\* that failed leaves the buffer's data as they are.
Ideintr ==
  LET b == Head(idequeue)
      rest == Tail(idequeue)
  IN  /\ irq
      /\ idequeue # <<>>
      /\ idequeue' = rest
      /\ \/ /\ "DIRTY" \notin flags[b]
            /\ data' = [data EXCEPT ![b] = disk[request.block]]
         \/ /\ "DIRTY" \in flags[b] \/ Errors
            /\ UNCHANGED data
      /\ flags' = [flags EXCEPT ![b] = (@ \cup {"VALID"}) \ {"DIRTY"}]
      /\ pc' = Wakeup(b)
      /\ request' = IF rest = <<>> THEN NoRequest ELSE Idestart(Head(rest))
      /\ irq' = FALSE
      /\ UNCHANGED <<bcache, disk, want, held>>

\* The disk carries the command out and raises its interrupt.
DiskDone ==
  /\ request # NoRequest
  /\ ~irq
  /\ irq' = TRUE
  /\ disk' = IF request.write THEN [disk EXCEPT ![request.block] = request.val] ELSE disk
  /\ UNCHANGED <<flags, data, bcache, idequeue, request, pc, want, held>>

-----------------------------------------------------------------------------

Bget(p) == BgetHit(p) \/ BgetSleep(p) \/ BgetMiss(p)

Next ==
  \/ \E p \in Proc : \/ Bread(p) \/ Bget(p) \/ Iderw(p) \/ IderwCheck(p)
                     \/ LogWrite(p) \/ Bwrite(p) \/ Brelse(p)
  \/ Ideintr
  \/ DiskDone

Spec == Init /\ [][Next]_vars

-----------------------------------------------------------------------------
(* Properties *)

\* The processes between bget and brelse.
Owners(b) ==
  {p \in Proc : held[p] = b /\ pc[p] \in {"bread", "bwrite", "iosleep", "iocheck", "hold"}}

\* The contents of a block: its buffer's once that is valid, the disk's before.
Contents(k) ==
  LET loaded == {b \in Cached(k) : flags[b] \cap {"VALID", "DIRTY"} # {}}
  IN  IF loaded = {} THEN disk[k] ELSE data[CHOOSE b \in loaded : TRUE]

Holder(k) ==
  LET inside == UNION {Owners(b) : b \in Cached(k)}
  IN  IF inside = {} THEN NoProc ELSE CHOOSE p \in inside : TRUE

BS == INSTANCE BlockStore WITH
        val <- [k \in Blocks |-> Contents(k)],
        holder <- [k \in Blocks |-> Holder(k)]

\* Through recycling, pinning, queueing and interrupts, the cache behaves as one
\* value per block that only the process between bread and brelse changes: no
\* change is lost when a buffer is recycled and no stale data comes back.
Coherent == BS!Spec

\* bget never gives a block a second buffer, and B_BUSY is set exactly while
\* one process has the buffer.
OneOwnerOneBuffer ==
  /\ \A a, b \in Bufs : blockno[a] = blockno[b] /\ blockno[a] # NoBlock => a = b
  /\ \A b \in Bufs :
       IF "BUSY" \in flags[b] THEN \E p \in Proc : Owners(b) = {p} ELSE Owners(b) = {}

\* "B_VALID: the buffer data has been read from the disk": a valid buffer with no
\* change to write, as after bread and after bwrite, is what the disk holds.
CleanIsOnDisk ==
  \A b \in Bufs : flags[b] \cap {"VALID", "DIRTY"} = {"VALID"} => data[b] = disk[blockno[b]]

\* "First queued buffer is the active request": the controller works for the
\* head of the queue and is idle only when the queue is empty.
QueueIsServed ==
  IF idequeue = <<>> THEN request = NoRequest
  ELSE /\ request # NoRequest
       /\ request.block = blockno[Head(idequeue)]
       /\ request.write <=> "DIRTY" \in flags[Head(idequeue)]

\* Nobody sleeps with no wakeup to come: who sleeps in iderw has its buffer in
\* the disk's queue, who sleeps in bget waits for a buffer that is still busy.
SleepersHaveAWaker ==
  \A p \in Proc :
    /\ pc[p] = "iosleep" => held[p] \in Range(idequeue)
    /\ pc[p] = "bsleep" => "BUSY" \in flags[held[p]]

\* bget does not run out of buffers.
BuffersSuffice == \A p \in Proc : pc[p] # "panic"
=============================================================================
