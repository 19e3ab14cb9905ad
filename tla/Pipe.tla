-------------------------------- MODULE Pipe --------------------------------
(***************************************************************************)
(* kernel/pipe.c, with the part of file.c and proc.c it lives on: the      *)
(* descriptors that processes hold on the two ends, fork and close, kill.  *)
(*                                                                         *)
(* Between acquire(&p->lock) and the next release or sleep a process runs  *)
(* alone on the pipe, one byte per step, so that a kill can fall between   *)
(* two bytes.  sleep gives the lock up and falls asleep in one step, as    *)
(* SleepProofs shows it does.  nread and nwrite are C unsigned integers:   *)
(* they count modulo WRAP.                                                 *)
(***************************************************************************)
EXTENDS Naturals, Sequences

CONSTANTS Proc,       \* the processes that may hold an end of the pipe
          Creator,    \* the one that called pipe()
          NoProc,     \* "the lock is free"
          Bytes, NoByte,
          PIPESIZE,   \* size of the ring, 512 in the code
          WRAP,       \* 2^32 in the code
          Counts,     \* the n that read and write are called with
          Victims     \* the processes that may be killed

ASSUME PipeAssumption ==
  /\ Creator \in Proc
  /\ NoProc \notin Proc
  /\ NoByte \notin Bytes
  /\ PIPESIZE \in Nat \ {0}
  /\ WRAP \in Nat /\ WRAP > PIPESIZE /\ WRAP % PIPESIZE = 0
  /\ Counts \subseteq Nat
  /\ Victims \subseteq Proc

VARIABLES data,       \* p->data
          nread, nwrite,
          readopen, writeopen,
          allocated,  \* FALSE once kfree((char*)p) has run
          lock,       \* the process inside p->lock
          pc,         \* where each process is, "user" outside the kernel
          n,          \* bytes the call in progress was asked for
          i,          \* bytes it has moved
          got,        \* the byte copied to a reader last
          ends,       \* the ends each process has a descriptor for
          killed      \* proc->killed

vars == <<data, nread, nwrite, readopen, writeopen, allocated, lock, pc, n, i,
          got, ends, killed>>

ring   == <<data, nread, nwrite, got>>
opened == <<readopen, writeopen, allocated>>
call   == <<n, i>>
procs  == <<ends, killed>>

PCs == {"user", "write", "wsleep", "wwoken", "read", "copy", "rsleep", "rwoken",
        "close_r", "close_w"}

\* Every variable has its type; the counters stay below the wrap.
TypeOK ==
  /\ data \in [0..(PIPESIZE - 1) -> Bytes \cup {NoByte}]
  /\ nread \in 0..(WRAP - 1) /\ nwrite \in 0..(WRAP - 1)
  /\ readopen \in BOOLEAN /\ writeopen \in BOOLEAN /\ allocated \in BOOLEAN
  /\ lock \in Proc \cup {NoProc}
  /\ pc \in [Proc -> PCs]
  /\ n \in [Proc -> Counts \cup {0}]
  /\ i \in [Proc -> Nat]
  /\ got \in Bytes \cup {NoByte}
  /\ ends \in [Proc -> SUBSET {"r", "w"}]
  /\ killed \in [Proc -> BOOLEAN]

\* pipealloc has set the pipe up and sys_pipe has given its caller both ends.
Init ==
  /\ data = [k \in 0..(PIPESIZE - 1) |-> NoByte]
  /\ nread = 0 /\ nwrite = 0
  /\ readopen = TRUE /\ writeopen = TRUE /\ allocated = TRUE
  /\ lock = NoProc
  /\ pc = [p \in Proc |-> "user"]
  /\ n = [p \in Proc |-> 0]
  /\ i = [p \in Proc |-> 0]
  /\ got = NoByte
  /\ ends = [p \in Proc |-> IF p = Creator THEN {"r", "w"} ELSE {}]
  /\ killed = [p \in Proc |-> FALSE]

\* Mutant: one byte too many fits.
FullOffByOne == nwrite = (nread + PIPESIZE + 1) % WRAP

Empty == nread = nwrite
Full == nwrite = (nread + PIPESIZE) % WRAP

\* The woken processes are those that sleep on the channel.
Woken(asleep, awake) == [p \in Proc |-> IF pc[p] = asleep THEN awake ELSE pc[p]]
WakeReaders == Woken("rsleep", "rwoken")
WakeWriters == Woken("wsleep", "wwoken")

\* Return to user mode.  The registers of the call are dead.
Return(p, pcs) ==
  /\ lock' = NoProc
  /\ pc' = [pcs EXCEPT ![p] = "user"]
  /\ n' = [n EXCEPT ![p] = 0]
  /\ i' = [i EXCEPT ![p] = 0]

\* sleep(chan, &p->lock)
SleepOn(p, state, pcs) ==
  /\ lock' = NoProc
  /\ pc' = [pcs EXCEPT ![p] = state]
  /\ UNCHANGED call

\* sleep returns holding p->lock again.
Reacquire(p, from, to) ==
  /\ pc[p] = from
  /\ lock = NoProc
  /\ lock' = p
  /\ pc' = [pc EXCEPT ![p] = to]
  /\ UNCHANGED <<ring, opened, call, procs>>

\* A system call of a process that has not been killed: trap() makes a killed
\* one exit before it looks at the call.
Enter(p, end, to) ==
  /\ pc[p] = "user"
  /\ end \in ends[p]
  /\ ~killed[p]
  /\ lock = NoProc
  /\ lock' = p
  /\ pc' = [pc EXCEPT ![p] = to]
  /\ \E c \in Counts : n' = [n EXCEPT ![p] = c]
  /\ UNCHANGED <<ring, opened, i, procs>>

-----------------------------------------------------------------------------
(* pipewrite *)

PipewriteEnter(p) == Enter(p, "w", "write")

\* Mutant: nwrite wider than an unsigned int.
PipewriteByteWide(p) ==
  /\ pc[p] = "write"
  /\ i[p] < n[p]
  /\ ~Full
  /\ \E b \in Bytes : data' = [data EXCEPT ![nwrite % PIPESIZE] = b]
  /\ nwrite' = nwrite + 1
  /\ i' = [i EXCEPT ![p] = @ + 1]
  /\ UNCHANGED <<nread, got, opened, lock, pc, n, procs>>

PipewriteByte(p) ==
  /\ pc[p] = "write"
  /\ i[p] < n[p]
  /\ ~Full
  /\ \E b \in Bytes : data' = [data EXCEPT ![nwrite % PIPESIZE] = b]
  /\ nwrite' = (nwrite + 1) % WRAP
  /\ i' = [i EXCEPT ![p] = @ + 1]
  /\ UNCHANGED <<nread, got, opened, lock, pc, n, procs>>

PipewriteFail(p) ==
  /\ pc[p] = "write"
  /\ i[p] < n[p]
  /\ Full
  /\ ~readopen \/ killed[p]
  /\ Return(p, pc)
  /\ UNCHANGED <<ring, opened, procs>>

PipewriteFull(p) ==
  /\ pc[p] = "write"
  /\ i[p] < n[p]
  /\ Full
  /\ readopen /\ ~killed[p]
  /\ SleepOn(p, "wsleep", WakeReaders)
  /\ UNCHANGED <<ring, opened, procs>>

PipewriteWoken(p) == Reacquire(p, "wwoken", "write")

PipewriteDone(p) ==
  /\ pc[p] = "write"
  /\ i[p] = n[p]
  /\ Return(p, WakeReaders)
  /\ UNCHANGED <<ring, opened, procs>>

-----------------------------------------------------------------------------
(* piperead *)

PipereadEnter(p) == Enter(p, "r", "read")

PipereadFail(p) ==
  /\ pc[p] = "read"
  /\ Empty /\ writeopen
  /\ killed[p]
  /\ Return(p, pc)
  /\ UNCHANGED <<ring, opened, procs>>

PipereadEmpty(p) ==
  /\ pc[p] = "read"
  /\ Empty /\ writeopen
  /\ ~killed[p]
  /\ SleepOn(p, "rsleep", pc)
  /\ UNCHANGED <<ring, opened, procs>>

PipereadWoken(p) == Reacquire(p, "rwoken", "read")

PipereadReady(p) ==
  /\ pc[p] = "read"
  /\ ~(Empty /\ writeopen)
  /\ pc' = [pc EXCEPT ![p] = "copy"]
  /\ UNCHANGED <<ring, opened, lock, call, procs>>

PipereadByte(p) ==
  /\ pc[p] = "copy"
  /\ i[p] < n[p]
  /\ ~Empty
  /\ got' = data[nread % PIPESIZE]
  /\ nread' = (nread + 1) % WRAP
  /\ i' = [i EXCEPT ![p] = @ + 1]
  /\ UNCHANGED <<data, nwrite, opened, lock, pc, n, procs>>

\* Mutant: no wakeup of the writers.
PipereadDoneSilent(p) ==
  /\ pc[p] = "copy"
  /\ i[p] = n[p] \/ Empty
  /\ Return(p, pc)
  /\ UNCHANGED <<ring, opened, procs>>

PipereadDone(p) ==
  /\ pc[p] = "copy"
  /\ i[p] = n[p] \/ Empty
  /\ Return(p, WakeWriters)
  /\ UNCHANGED <<ring, opened, procs>>

-----------------------------------------------------------------------------
(* Descriptors *)

\* fork: the child gets a filedup of every descriptor.
Fork(p, child) ==
  /\ pc[p] = "user" /\ ends[p] # {} /\ ~killed[p]
  /\ pc[child] = "user" /\ ends[child] = {}
  /\ ends' = [ends EXCEPT ![child] = ends[p]]
  /\ killed' = [killed EXCEPT ![child] = FALSE]
  /\ UNCHANGED <<ring, opened, lock, pc, call>>

\* Mutant: every close goes on to pipeclose.
FilecloseEvery(p, end) ==
  /\ pc[p] = "user"
  /\ end \in ends[p]
  /\ ends' = [ends EXCEPT ![p] = @ \ {end}]
  /\ pc' = [pc EXCEPT ![p] = IF end = "r" THEN "close_r" ELSE "close_w"]
  /\ UNCHANGED <<ring, opened, lock, call, killed>>

\* fileclose, from sys_close or from exit: the last reference to an end goes on
\* to pipeclose, with ftable.lock released.
Fileclose(p, end) ==
  LET last == \A other \in Proc \ {p} : end \notin ends[other]
  IN  /\ pc[p] = "user"
      /\ end \in ends[p]
      /\ ends' = [ends EXCEPT ![p] = @ \ {end}]
      /\ \/ last /\ pc' = [pc EXCEPT ![p] = IF end = "r" THEN "close_r" ELSE "close_w"]
         \/ ~last /\ UNCHANGED pc
      /\ UNCHANGED <<ring, opened, lock, call, killed>>

\* Mutant: the page is freed with the first end.
PipecloseFrees(p) ==
  /\ pc[p] \in {"close_r", "close_w"}
  /\ lock = NoProc
  /\ writeopen' = (writeopen /\ pc[p] # "close_w")
  /\ readopen' = (readopen /\ pc[p] # "close_r")
  /\ pc' = [IF pc[p] = "close_w" THEN WakeReaders ELSE WakeWriters EXCEPT ![p] = "user"]
  /\ allocated' = (readopen' /\ writeopen')
  /\ UNCHANGED <<ring, lock, call, procs>>

\* Mutant: nobody is woken.
PipecloseSilent(p) ==
  /\ pc[p] \in {"close_r", "close_w"}
  /\ lock = NoProc
  /\ writeopen' = (writeopen /\ pc[p] # "close_w")
  /\ readopen' = (readopen /\ pc[p] # "close_r")
  /\ pc' = [pc EXCEPT ![p] = "user"]
  /\ allocated' = (readopen' \/ writeopen')
  /\ UNCHANGED <<ring, lock, call, procs>>

Pipeclose(p) ==
  /\ pc[p] \in {"close_r", "close_w"}
  /\ lock = NoProc
  /\ writeopen' = (writeopen /\ pc[p] # "close_w")
  /\ readopen' = (readopen /\ pc[p] # "close_r")
  /\ pc' = [IF pc[p] = "close_w" THEN WakeReaders ELSE WakeWriters EXCEPT ![p] = "user"]
  /\ allocated' = (readopen' \/ writeopen')
  /\ UNCHANGED <<ring, lock, call, procs>>

\* kill, by any other process: killed is not under p->lock.
Kill(p) ==
  /\ p \in Victims
  /\ ends[p] # {}
  /\ ~killed[p]
  /\ killed' = [killed EXCEPT ![p] = TRUE]
  /\ pc' = [pc EXCEPT ![p] = CASE @ = "rsleep" -> "rwoken"
                               [] @ = "wsleep" -> "wwoken"
                               [] OTHER -> @]
  /\ UNCHANGED <<ring, opened, lock, call, ends>>

-----------------------------------------------------------------------------

Pipewrite(p) == \/ PipewriteByte(p) \/ PipewriteFail(p) \/ PipewriteFull(p)
                \/ PipewriteWoken(p) \/ PipewriteDone(p)

Piperead(p) == \/ PipereadFail(p) \/ PipereadEmpty(p) \/ PipereadWoken(p)
               \/ PipereadReady(p) \/ PipereadByte(p) \/ PipereadDone(p)

Next ==
  \E p \in Proc :
    \/ PipewriteEnter(p)
    \/ Pipewrite(p)
    \/ PipereadEnter(p)
    \/ Piperead(p)
    \/ \E child \in Proc : Fork(p, child)
    \/ \E end \in {"r", "w"} : Fileclose(p, end)
    \/ Pipeclose(p)
    \/ Kill(p)

Spec == Init /\ [][Next]_vars

-----------------------------------------------------------------------------
(* Properties *)

Count == (nwrite + WRAP - nread) % WRAP

\* The bytes between nread and nwrite, oldest first.
Contents == [k \in 1..Count |-> data[(nread + k - 1) % PIPESIZE]]

BS == INSTANCE ByteStream WITH
        q <- Contents, Capacity <- PIPESIZE,
        sending <- writeopen, receiving <- readopen

\* The ring with its wrapping counters is a bounded FIFO: bytes come out of
\* piperead in the order pipewrite put them in, none is lost, duplicated or
\* overwritten when the counters wrap, and none enters after pipeclose has
\* closed the write end.
InOrder == BS!Spec

\* The page of the pipe goes back to the allocator only when no process is
\* inside pipewrite, piperead or pipeclose and none can get there again.
NoUseAfterFree ==
  ~allocated => \A p \in Proc : ends[p] = {} /\ pc[p] = "user"

\* The pipe is not freed while an end is held, and is freed when the last
\* descriptor has gone: readopen and writeopen agree with the descriptors.
OpenWhileHeld ==
  \A end \in {"r", "w"} :
    LET open == IF end = "r" THEN readopen ELSE writeopen
        closing == IF end = "r" THEN "close_r" ELSE "close_w"
    IN  open <=> \E p \in Proc : end \in ends[p] \/ pc[p] = closing

\* piperead sleeps on "pipe-empty": once nobody is inside the pipe, a process
\* asleep on nread has nothing to read and somebody who may still write.
ReaderSleepsOnEmpty ==
  lock = NoProc => \A p \in Proc : pc[p] = "rsleep" => Empty /\ writeopen

\* pipewrite sleeps on "pipewrite-full": once nobody is inside the pipe, a
\* process asleep on nwrite has no room and somebody who may still read.
WriterSleepsOnFull ==
  lock = NoProc => \A p \in Proc : pc[p] = "wsleep" => Full /\ readopen

\* A process asleep on nread has nothing to read and somebody who may still
\* write, or a writer is inside the pipe, who wakes it on its way out.
ReaderHasReason ==
  \A p \in Proc :
    pc[p] = "rsleep" => (Empty /\ writeopen) \/ \E q \in Proc : pc[q] = "write"

\* The only step that leaves a reader asleep without a reason is the early
\* return of a killed writer ("if(p->readopen == 0 || proc->killed)").
ReadersWokenUnlessKilled ==
  [][ReaderHasReason /\ ~ReaderHasReason' =>
       \E p \in Proc : killed[p] /\ PipewriteFail(p)]_vars
=============================================================================
