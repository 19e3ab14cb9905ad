# Verification of xv6-x86_64

TLA+ models of the xv6 kernel (a port of xv6 to x86-64), checked with TLC on
small instances, and proofs with TLAPS of the most important properties of its
locks, processes, log, buffer cache, pipes and console. Every module is a
translation of the C code under `src/`; line numbers below and in
`PROJECT.json` refer to that code.

## 1. The system

xv6 is a small multiprocessor Unix kernel. User processes enter it through
system calls and interrupts; kernel threads run on several CPUs at once,
exclude each other with spin locks, wait with `sleep` and `wakeup`, and reach
the disk through a log, a buffer cache and an interrupt-driven driver.

| part | state | operations | why it is hard |
|---|---|---|---|
| spin locks (`spinlock.c`) | `locked`, `cpu`, per-CPU `ncli`, `intena` | acquire, release, holding, pushcli, popcli | `holding` reads without the lock; `pushcli` can be interrupted before `cli` |
| sleep and wakeup (`proc.c`) | `chan`, `state`, two locks | sleep, wakeup | releasing one lock while going to sleep under another |
| processes (`proc.c`, `trap.c`) | `ptable`, `nextpid`, `cpu->proc` | fork, exit, wait, kill, yield, scheduler, sched | `ptable.lock` is acquired by one thread and released by another; unlocked writes in fork |
| log (`log.c`) | in-memory and on-disk header, log blocks, `outstanding`, `committing` | begin_op, log_write, end_op, commit, recovery | concurrent operations share a transaction; power fails between any two writes |
| buffer cache (`bio.c`) | `flags`, LRU list | bget, bread, bwrite, brelse | lookups restart after a sleep; dirty buffers are pinned |
| IDE driver (`ide.c`) | request queue | iderw, idestart, ideintr | queue shared with the interrupt handler |
| pipes (`pipe.c`, `file.c`) | ring, wrapping counters, open flags | pipealloc, pipewrite, piperead, pipeclose | two kinds of sleepers, kill, freeing by the last user |
| inodes and directories (`fs.c`, `sysfile.c`) | inode cache, bitmap, directories | ialloc, iget, ilock, iput, bmap, dirlink, namex, link, unlink, create | reference counts dropped while truncating; lock order on directories |
| open files (`file.c`, `sysfile.c`) | file table, descriptors | filealloc, filedup, fileclose, fileread, filewrite | reference counts, chunked writes inside transactions |
| memory (`kalloc.c`, `vm.c`, `vm64.c`, `exec.c`) | free list, page tables | kalloc, kfree, mappages, allocuvm, deallocuvm, copyuvm, freevm, exec | error paths must free exactly what was allocated |
| system calls, traps, clock (`syscall.c`, `trap.c`, `sysproc.c`) | `ticks`, trap frame | argument fetching, sys_sleep | bounds arithmetic; a counter that wraps around |
| console, keyboard (`console.c`, `kbd.c`) | input ring with three indices | consoleintr, consoleread | line editing behind a reader |
| user library and programs (`umalloc.c`, `sh.c`, ...) | free list | malloc, free, the shell's pipelines | coalescing; descriptors left open |
| image tools (`mkfs.c`, `libfs.c`, `opfs.c`) | image file | put, rm, cp, mv, ln, mkdir, rmdir | a second implementation of the kernel's block and link arithmetic; exits half-way |

Interactions that are modelled: pipes, the buffer cache, the driver and the log
all sleep, and rely on sleep being atomic, which `SleepProofs` proves. The log
runs on a buffer cache that may evict clean buffers (an action of `Log`), and
the buffer cache has the log as a user that pins dirty buffers (an action of
`BufCache`). The pipe module includes the reference counting of `file.c` and
the `killed` flag of `proc.c`. `Inode` composes the inode cache, directories,
the file table, descriptors, fork and exit; `Vm` composes the boot sequence, the
page allocator, page tables, fork, exec, sbrk, exit and wait; `Opfs` lets the
image tools and the kernel work on the same disk image in turn, with the
atomicity of transactions that `Log` shows; `Console` composes the keyboard, the
clock, readers, sleepers and kill.

## 2. Modules

In every module a critical section that no other actor can observe in the
middle is one action; everything outside a lock, and every disk write, is an
action of its own. `panic` is a place (`pc`) a thread stays at.

**Spinlock** (`MCSpinlock`, `SpinlockProofs`). One action per access to
memory another CPU may access. Each CPU has a stack of contexts: the code that
was running and the interrupt handlers on top of it. `held` is a history
variable: the locks a context owns, from its winning `xchg` to the clearing
one. The users of the locks (all of the kernel) are reduced to the discipline
the interface needs: nest in the order `Rank`, release what you hold.

**Sleep** refines **Monitor** (`MCSleep`, `SleepProofs`). `sleep` and `wakeup`
step by step with both locks, called from the loop every caller runs.
`Monitor` has one atomic "release and wait" and one atomic "wake everybody".

**Proc** (`MCProc`, `ProcProofs`). The table, one scheduler per CPU, and fork, exit,
wait, kill, sleep, wakeup, yield and the timer as actions. `fork` is four
steps, because only `allocproc`'s search is done under the lock and the rest
may interleave with scans of the table. `plock` is the CPU that holds
`ptable.lock` across a context switch. `asked` is a history variable of the pids
that `kill` was called with.

**Log** refines **AtomicDisk** (`MCLog`, `LogProofs`). The locked parts of
begin_op, log_write and end_op are atomic, the size test of log_write is a step
of its own because it is made without the lock, and each block write of commit
and of recovery is a step. `Crash` may happen in every state and loses
everything but the disk. `wrote` is a history variable, the blocks an operation
has logged. `AtomicDisk` has operations that change blocks and a `stable` disk
that a commit replaces as a whole when no operation is in progress.

**BufCache** refines **BlockStore** (`MCBufCache`, `BufCacheProofs`). bio.c and
ide.c together: the LRU list, the flags, the request queue, the command the controller
is working on and its interrupt. `BlockStore` has one value per block and one
holder.

**Pipe** refines **ByteStream** (`MCPipe`, `PipeProofs`). One step per byte, so
that a kill can fall between any two; counters modulo `WRAP`. `ByteStream` is a
bounded FIFO with two ends that can be closed.

**Inode** (`MCInode`). The system calls on path names: open, create, mkdir,
mknod, link, unlink, chdir, chmod, dup, close, pipe, fork, exit and the locking
of read and write. `icache` is the table of slots (inum, ref, I_BUSY, I_VALID,
cached nlink), `disk` the inodes with their link counts and entries, `th` what
each thread has on its stack: where it is, the path still to walk, the slots it
has a reference to. A section under `icache.lock` or `ftable.lock` is an action;
an inode that stays locked while its holder waits for another one stays busy
between steps. `iput` is three steps, because it gives up the lock to truncate.

**Vm** refines **AddressSpaces** (`MCVm`). Memory is a list of free pages and
the contents of every page; page directories and page tables live in those
pages, and walkpgdir, mappages, deallocuvm and freevm read and write them there.
Each kalloc that may fail is a step. The model starts in main with the lock of
the allocator unused. `starved` records that a kalloc failed. `AddressSpaces`
has one image (page number to contents) per process.

**DiskImage**, **Opfs** (`MCOpfs`). `DiskImage` has the layout of an image and
the functions both implementations compute on it: which block holds byte n, the
first free block, inode and entry, which blocks a file owns. In `Opfs` a
command or system call is an action that decides from the image which routines
it will call; these, down to one bmap and one turn of the read and write loops,
are actions. `fatal()` leaves the image as it is, a crash of the kernel goes back
to the start of the transaction. `cut` records that a command of opfs has not
done all its work, `wrote` what the current command has to write.

**Console** refines **CookedInput** (`MCConsole`, `ConsoleProofs`). kbdgetc's
shift state, consoleintr with its editing keys, consoleread, the clock, sys_sleep,
kill, and the exit of a killed process on its way to user space. The
indices `r`, `w`, `e` are unsigned and wrap at `UINT`. `since` is a history
variable, the ticks since a sys_sleep began. `CookedInput` has the characters
that can be read and the line being edited.

`PROJECT.json` maps each definition to the lines it translates.

## 3. Runs

| run | question | result |
|---|---|---|
| `spinlock` | Do the locks exclude, across CPUs and handlers; can a rule-abiding caller panic; is the innermost lock always released? | holds |
| `sleep` | Is sleep atomic (refinement), and is a true condition always consumed? | holds |
| `proc` | Does a process run on one CPU only; is no child ever lost to its parent or to init? | holds |
| `proc_live` | Are orphans reaped, is nobody starved? | holds |
| `log` | Are operations atomic and durable under crashes at every point; is the header never overrun; do buffers stay pinned until they are installed; do sleepers have a waker? | holds |
| `bufcache` | Do cache and driver give every block one value and one holder; do sleepers have a waker? | holds |
| `pipe` | Is the ring a FIFO across wraps; is the pipe freed after its last use; are sleepers woken? | holds |
| `fs` | Are reference and link counts right, is the cache coherent, are directories a tree, is an unlinked inode freed by the last iput and not before, can threads wait in a circle, can an assertion fail? | holds |
| `memory` | Has every page one use; what do failures lose; has a process all its pages; is the allocator's lock unused only while one CPU allocates; are processes isolated (refinement)? | holds |
| `image` | Do mkfs, opfs and the kernel agree on blocks, bitmap, link counts and contents, also after exits half-way and crashes? | holds |
| `console` | Is the ring a line editor in front of a queue (refinement); does sys_sleep last long enough and not too long; does a killed process exit? | holds |
| `image_spill` | Do the blocks of files lie in the data area? | **violated** |

`image_spill`: balloc (fs.c:61) takes any block whose bit is clear up to `sb.size`,
and the blocks of the log, which are the last ones of the disk, have clear bits.
A disk that is full gives a file blocks of the log. The run `image` stops a
behaviour there, since nothing can be said of the file afterwards.

Five more disagreements between the code and its comments have a property
and a configuration of their own, with which TLC finds a counterexample:

| configuration | property | what the code does |
|---|---|---|
| `MCProcKillPid.cfg` | `KillHitsItsPid` | `kill` (proc.c:424) compares pids in free slots too, whose `pid` is stale or 0, and neither allocproc nor fork clears `killed`: the next process in that slot starts killed. |
| `MCLogTooBig.cfg` | `NoTooBig` | `begin_op` (log.c:131) reserves against `LOGSIZE`, but the on-disk log has `sb.nlog = LOGSIZE` blocks including the header, so `log_write`'s test against `log.size - 1` can panic inside an admitted transaction. It also tests the size before it looks for the block in the header, so that writing a logged block again can panic when the header is full. |
| `MCBufCacheFull.cfg` | `BuffersSuffice` | The log may pin up to `LOGSIZE` buffers and `NBUF` is the same number (param.h), so with all but one pinned two readers exhaust the cache ("bget: no buffers"). |
| `MCBufCacheError.cfg` | `CleanIsOnDisk` | `ideintr` (ide.c:114) sets `B_VALID` also when `idewait` reported an error. |
| `MCPipeKill.cfg` | `ReaderSleepsOnEmpty` | A killed `pipewrite` (pipe.c:85) returns without the wakeup of the readers that a full or finished write makes. `ReadersWokenUnlessKilled`, which `pipe` checks, says that it is the only case. |

### Bounds

* *spinlock*: two CPUs, two locks, stacks of up to three contexts. Three is one
  more than the code can reach (`SpinlockHandlers` proves that).
* *sleep*: three waiters and two wakers. One more waiter than wakers makes a
  missed broadcast visible.
* *proc*: four slots, two CPUs, pids up to 4: three forks, so slots are reused
  and the table fills. Four is the smallest table in which a process that is
  not a child of init leaves a zombie to init, so that exit's second wakeup
  matters.
  `proc_live` uses one CPU, so that the liveness is the scheduler's own and no
  assumption on spin-lock fairness is needed.
* *log*: three one-block operations, a header for two, three blocks, two values.
  Group commit, waiting for space, absorption and a crash in every step occur.
  `LOGDISK = LOGSIZE + 1` is the size under which the reservation is right;
  `MCLogTooBig.cfg` has the code's `LOGDISK = LOGSIZE`.
* *bufcache*: four blocks for three buffers (recycling), one of them pinned.
* *pipe*: three processes, one of which is killed, a ring of two bytes, counters
  modulo 4, transfers of one byte and of three: less than the ring holds, and more,
  so that it fills up and wraps. A process may stop for
  good here (it exits, or waits for input that never comes), so deadlock is not
  checked; the sleeper invariants take its place.
* *fs*: two processes, four inodes, two names, four cache slots, two files and two
  descriptors each, at most four system calls, from an empty disk and from ones
  with `/a/b`. One process builds and the other removes, so every pair of
  conflicting calls meets; paths of two elements are enough for a walk to be
  overtaken between parent and child. Files and descriptors run out. A full
  inode table panics, which is the only panic allowed.
* *memory*: two slots, two CPUs, 26 pages of two bytes, tables of two entries: a
  process of three pages needs two tables, and fork and exec of the
  program run out of memory at every point. `UINT` is so small that sbrk and the
  segment of a program can wrap. No sum of the arguments of sbrk makes a size of 0
  (see section 5). Four system calls.
* *image*: eight blocks for files of up to seven units, two per block, with one direct
  block, so a file needs the indirect block at once and the disk fills up;
  three commands.
* *console*: two processes, a ring of three characters, indices modulo six, so they
  wrap after two rings; naps of 2 ticks and of -1, which is the longest one. All
  keys of the editor, and those that set and clear the shift state. Either both
  processes read or both sleep: the two do not share any state but `killed`.

In `fs`, `memory`, `image` and `console` processes may stop for good (calls are
used up, nothing is typed), so deadlock is not checked: `NoDeadlock` in `fs` and
the liveness properties in `console` take its place.

Symmetry is used for processes, CPUs, blocks and values only in runs without
liveness properties.

### Fairness

* *spinlock*: weak fairness of each CPU inside a call, of release and of the
  return from a handler: a CPU executes instructions, and callers do release.
  Nothing is assumed about who wins an `xchg`; therefore only the release of
  the innermost lock is claimed, not that every spinner gets it.
* *sleep*: strong fairness per thread inside the protocol: a lock that is free
  again and again is eventually taken and a runnable process is scheduled.
  xv6's locks do not guarantee this by themselves; it stands for the hardware.
* *proc_live*: weak fairness of the scheduler, of timer preemption and of the
  interrupt that ends `hlt` (the timer is periodic); strong fairness of the
  steps of a process that runs again and again, and of init's `wait()`
  (user/init.c loops on it).
* *console*: weak fairness of every process that can run and of the clock, which is
  periodic; strong fairness of taking `input.lock`, because keys come far more
  slowly than a CPU spins. Nothing is assumed about keys, kills and system calls.
* The other runs assume no fairness. That sleepers are not
  forgotten is stated as invariants: each sleeper has an agent that will wake it.

## 4. Proofs

All for any number of CPUs, locks, processes and blocks. A leaf of a proof that
names no prover is found by Zenon in the four longest modules (`USE Zenon`); the
leaves with arithmetic, and those that rewrite functions, name SMT.

**SpinlockProofs**: `TypeOK`, `MutualExclusion`, `NoPanic`,
`InterruptsOffInside`, `HandlersNotInterrupted`. Assumed: `Rank` maps locks to
numbers. None of these is inductive. The invariant `SpinlockInv` has a part per
CPU and a part per lock. Per CPU: suspended contexts are outside critical
sections, a handler runs masked and only one deep, `ncli` is the number
of locks owned plus the call in progress and is positive only with interrupts
off. Per lock: the word is set exactly while a CPU owns it, owners are unique,
and `lk->cpu` names the owner except in two windows (after the winning `xchg`
and before the clearing one). The counting of `ncli` is what makes mutual
exclusion between a handler and the code under it follow from masking.

**SleepProofs**: `TypeOK`, `NoLostWakeup` and the refinement `AtomicSleep`
(safety). `SleepInv` says where the holder of each lock is, that a waiter is
not RUNNING exactly between sched and its return, and that a condition seen
false stays false while `lk` is held in sleep.

**ProcProofs**: `RunsOnOneCpu`, `NoLostChild`, `LockHandedOver`, `ParentAlive`
and `EmbryoOwned`. Assumed: at least one slot and one pid, and channels other
than the slots. `RunsOnOneCpu` counts CPUs; the inductive form, `OnCpu`, says
that `cpu->proc` and `p->state` agree in both directions and that no two CPUs
have the same process. `NoLostChild` depends on nearly everything else: that
the sleeper is in wait, on its own slot, follows from `Places` (where the
thread of a slot is, by its state); that a child cannot become a zombie
unnoticed from `LockHandedOver`, since exit keeps `ptable.lock` until the
scheduler has it; and that exit finds its parent, or init after the
reparenting, from `ParentAlive`. `Forks` is needed because fork writes
`np->parent` without the lock: a slot that is EMBRYO belongs to one fork, and
only the last step of that fork finds a parent in it.

**PipeProofs**: `NoUseAfterFree`, `OpenWhileHeld`, `WriterSleepsOnFull`, the
action property `ReadersWokenUnlessKilled` and the refinement `InOrder`.
Assumed: `WRAP` is a multiple of `PIPESIZE` and greater, as 2^32 is of 512.
`NoUseAfterFree` follows from `Opened` (the open flags agree with the
descriptors) once `LastOne` says that whoever is on its way to pipeclose had
the last descriptor; without it two processes could close the same end.
`WriterSleepsOnFull` is not inductive: a reader in the middle of a copy makes
room before it wakes the writers, so `WritersSleep` claims a full ring only
while no reader copies. The refinement goes through facts about the counters
alone (`CountUp`, `CountDown`, `FullIs`, `EmptyIs`): `nwrite - nread` is the
number of bytes wherever the two have wrapped, and, because `PIPESIZE` divides
`WRAP`, the places of the bytes in the ring are different ones. `ReadersWoken`
shows that every way out of pipewrite, piperead and pipeclose but one leaves no
reader asleep in front of a byte or of a closed end.

**BufCacheProofs**: `OneOwnerOneBuffer`, `QueueIsServed`, `SleepersHaveAWaker`,
and on a disk without errors `CleanIsOnDisk` and the refinement `Coherent`.
Errors must be excluded there: the code takes a failed read for a valid buffer
(`MCBufCacheError.cfg`). `CacheInv` follows a buffer through its life. `Stages`
gives `B_VALID` and `B_DIRTY` at each place its owner can be, and whether it is
in the queue; `Resting` the flags of one without owner; `QueueOwned` says that
whoever put a buffer in the queue still sleeps for it, so that ideintr
completes a request somebody waits for; `Served` that the command in the
controller is the one for the head of the queue, with the data that are in the
buffer now. The last is what the refinement needs at the moment the write
reaches the disk. `OneBuffer` holds across bget's restarts because the search
and the recycling are done under one acquisition of `bcache.lock`; that the
recycled buffer is clean (`Victim`) keeps the value of its old block on the
disk.

**LogProofs**: the refinement `AtomicTransactions`, `DurableWhenQuiet`,
`TypeOK`, `HeaderInBounds`, `PinnedUntilInstalled`, `SleepersHaveAWaker`, and
`LogRegionInBounds` under the assumption `LOGDISK > LOGSIZE`. Assumed: finitely
many processes, `MAXOPBLOCKS <= LOGSIZE`, and operations that keep to
`MAXOPBLOCKS` distinct blocks (a guard of the model). The control is in
`LogInv`, the data in `DataInv`.

`LogInv` has four parts beyond the types and the sleepers. `Phases`:
`outstanding` is the number of operations in progress, `committing` says that
exactly one process commits and no operation is in progress, recovery runs
alone. `Loops`: the copying loops stay inside the header and the on-disk log.
`Space`: `Reserved` is the set of (operation, block number) pairs that
operations in progress may still log; header length plus its size is at most
`LOGSIZE`. begin_op adds at most `MAXOPBLOCKS` pairs, and every log_write that
appends takes one away. This is the strengthening `HeaderInBounds` needs; the
test in log_write is not used. `Pinned`: the header lists exactly the dirty
buffers until they are installed, and both are empty when nothing is going on,
which is also why begin_op cannot sleep on an idle log.

`DataInv` has three. `Headers`: no header lists a block twice (log_write
absorbs), and the one on the disk is empty except while a transaction is
installed, when it is the one in memory. `Buffers`: a buffer that is neither
pinned nor held by an operation has what the disk has, and no two operations
hold the same one; the second half is the strengthening that the first needs at
brelse. `Copies`: how much of the transaction is in the log and how much at
home, by the place of the loop. The abstract `stable` disk is `Recovered`, what
recovery would make of the disk. Every step but one leaves it alone: write_log
writes blocks no header on the disk lists, install_trans and recovery write at
home what `Recovered` has there anyway, so that doing it again after a crash
changes nothing, and clearing the header comes when all of it is at home. The
one is the write of the header, which replaces `Recovered` by what the buffers
hold, with no operation in progress: the commit of `AtomicDisk`.

**ConsoleProofs**: `RingOrdered`, `SleepersHaveReason`, `SleptEnough` and the
refinement `LinesInOrder`. Assumed: the ring has at least one character, its size
is less than `UINT` and divides it, reads ask for at least one character, and
sys_sleep's argument, negative ones included, is less than `UINT`.
All arithmetic goes through three facts (`UWord`, `UDiff`, `USum`): a
difference or a sum of two words wraps around at most once.
`SleptEnough` needs the invariant `Clock`, that `ticks - ticks0` is the number of
ticks since the call began as long as that is less than `UINT`; the step of a
sleeping process at a tick is where the wraparound matters.
The refinement needs `EditorInv`, which is the types, `RingOrdered`, and `LineOpen`:
the line being edited holds no newline and no ^D, so that C('U'), which the code
stops at a newline, always goes back to `w`. `Slots` is where the assumption that
the ring's size divides `UINT` is used: indices less than a ring apart have
different places in the ring, also when one of them has wrapped. With a size
that does not divide `UINT` the code would overwrite characters; the code has 128.
From these, a stored character changes no other one (`StoreEffect`), and each
of storing, erasing, killing and reading is a step of `CookedInput`.

Only model-checked: all liveness properties (the provers handle neither
fairness nor ENABLED), and the properties of `Inode`, `Vm` (its refinement
included) and `Opfs`. Those of `Vm` and `Opfs` rest on functions computed by recursion
over page tables, block lists and paths, about which these provers have no
induction.

## 5. Not modelled, and simplifications

* Memory is sequentially consistent. On x86 the reordering of stores to later
  loads is ruled out around `xchg`; the one unlocked read that matters,
  `holding`, is of a variable its own CPU wrote.
* `Proc` leaves out procdump and the contents of trap frames. `init`
  never exits (exit panics on it) and the runs never kill it.
* `BufCache` has users that hold one buffer at a time, and leaves out
  controller registers, timeouts and an interrupt that finds the queue empty.
* `Log` lets an operation write at most `MAXOPBLOCKS` distinct blocks, as
  param.h says operations do. filewrite's chunk size does not follow from that
  number.
* A killed process may still go to sleep when the kill falls between the test
  of `killed` and `sleep`. `Proc` contains the behaviour; no property forbids it
  there, and `Console` shows that it does not last.
* `Inode` has no file offsets and no bytes: a directory is a function from names to
  inodes. The search of a free entry and the blocks are in `DiskImage` and `Opfs`,
  which in turn have one actor at a time. begin_op never blocks in `Inode`; that it
  does not block for ever is `SleepersHaveAWaker` of `Log`.
* `Vm` frees several pages in one step, since each kfree is atomic and
  nothing else of the sequence is visible to others. When setupkvm's kalloc, whose
  result the code does not test, fails, the model stops with the machine. Left
  out is an sbrk to a size of exactly 0: growproc takes deallocuvm's result 0 for a
  failure and keeps the old size. ELF headers are a choice of segments.
  switchuvm, switchkvm, tvinit and segment descriptors are register contents.
  The 32-bit half of vm.c is not built for this port.
* `Opfs` leaves out mv and cp onto the same path or below it, which opfs does
  not refuse, and daddent's search for a duplicate behind a free entry. mkfs rounds the
  root's size up; where that leaves a tail without a block, the kernel does
  not take over the image in the model, because its readi would allocate outside of a
  transaction. Commands that only read are one action; byte order and the
  superblock checks are left out.
* In `Console` keys come only if some process ever reads, and ticks only if some
  process ever sleeps: neither changes what the others do. Left out are output,
  ^P (it prints the process table), ^Z (it reboots) and the lock of the console's
  inode, which consoleread gives back meanwhile.
* The user library is sequential code inside one process; the shell and the
  other programs are users of the system calls, which the modules let
  processes make in any order. Boot loaders, the firmware's tables,
  interrupt controllers, memdisk, string routines and assembly are I/O, data or
  sequential code with nothing to interleave; what the boot order means for the
  allocator is in `Vm`, and what swtch and the interrupt gate do is in `Proc` and
  `Spinlock`.
