--------------------------------- MODULE Vm ---------------------------------
(***************************************************************************)
(* Physical memory and address spaces: kalloc.c, vm.c and vm64.c with      *)
(* their users main (boot), userinit, fork, exec, sbrk, exit and wait.     *)
(*                                                                         *)
(* A page of memory is a number and holds junk, data, a page table or the  *)
(* kernel's own things; page tables are read and written in these pages.   *)
(* Every kalloc that can fail is a step of its own; a run of kfrees is one *)
(* step, and so is kalloc with what the kernel writes into the page.       *)
(* When the kernel panics, or writes through address 0 because it did not  *)
(* test kalloc's result, the machine stops.                                *)
(***************************************************************************)
EXTENDS Integers, Sequences, FiniteSets, SequencesExt

CONSTANTS NPROC,        \* process slots; slot 1 becomes init
          NCPU,         \* CPUs; CPU 1 boots the others
          LowPages,     \* pages that kinit1 frees: those below 4 Mbyte
          NPAGES,       \* all pages between end and PHYSTOP
          PGSIZE,       \* bytes of a page
          NPT, NPD,     \* entries of a page table, and of a page directory
                        \* without the two back pointers
          UINT,         \* 2^32: one more than the largest uint
          Deltas,       \* arguments of sbrk
          Sizes,        \* bytes that a system call reads or writes, not 0
          Values,       \* what user code stores
          Programs,     \* name -> file contents, for exec
          MaxCalls      \* bound: system calls made

ASSUME VmAssumption ==
  /\ NPROC \in Nat \ {0} /\ NCPU \in Nat \ {0} /\ PGSIZE \in Nat \ {0}
  /\ LowPages \in 1..NPAGES /\ NPT \in Nat \ {0} /\ NPD \in Nat \ {0}
  /\ NPAGES < (NPD - 1) * NPT               \* PHYSTOP < 0x3fa00000
  /\ (NPD + 2) * NPT * PGSIZE <= UINT
  /\ 5 + 2 * NCPU + (NCPU - 1) <= LowPages  \* enough to boot
  /\ LowPages + 5 <= NPAGES                 \* and to start the first process
  /\ Deltas \subseteq Int /\ Sizes \subseteq Nat \ {0}

Slots == 1..NPROC
CPUs == 1..NCPU
Pages == 1..NPAGES

VARIABLES ram,       \* [free |-> kmem.freelist, mem |-> page -> contents]
          use_lock,  \* kmem.use_lock
          boot,      \* CPU -> where it is in main or mpenter
          proc,      \* slot -> state, parent, pgdir, sz, kstack
          th,        \* slot -> kernel thread: pc and local variables
          starved,   \* kalloc has returned 0
          panicked, calls
vars == <<ram, use_lock, boot, proc, th, starved, panicked, calls>>

Junk == [k |-> "junk"]
Data(v) == [k |-> "data", v |-> v]
Kernel == [k |-> "kernel"]      \* kernel stacks, IDT, GDT, the kernel's tables
Upper == [k |-> "upper"]        \* a pml4 or pdpt page of a process
NoPte == [pa |-> 0, user |-> FALSE]
EmptyTab == [k |-> "tab", e |-> [i \in 0..NPT-1 |-> NoPte]]
EmptyDir == [k |-> "dir", e |-> [i \in 0..NPD-1 |-> 0]]

Unused == [state |-> "unused", parent |-> 0, pgdir |-> 0, sz |-> 0, kstack |-> 0]
Idle == [pc |-> "user", d |-> 0, a |-> 0, from |-> 0, to |-> 0, np |-> 0, prog |-> "", i |-> 0]

\* freerange(1, n): kinit1 has put the low pages on the list.
Init ==
  /\ ram = [free |-> Reverse([i \in 1..LowPages |-> i]), mem |-> [g \in Pages |-> Junk]]
  /\ use_lock = FALSE
  /\ boot = [c \in CPUs |-> IF c = 1 THEN "kvmalloc" ELSE "off"]
  /\ proc = [s \in Slots |-> Unused]
  /\ th = [s \in Slots |-> Idle]
  /\ starved = FALSE /\ panicked = "" /\ calls = 0

-----------------------------------------------------------------------------
(* kalloc.c; r is a state of ram *)

Full(r) == r.free = <<>>                   \* kalloc() returns 0
Kalloc(r, x) == [free |-> Tail(r.free), mem |-> [r.mem EXCEPT ![Head(r.free)] = x]]
Kfree(r, g) == [free |-> <<g>> \o r.free, mem |-> [r.mem EXCEPT ![g] = Junk]]
\* n pages for the kernel, none of which is ever freed.
KallocMany(r, n) == FoldLeft(LAMBDA q, i : Kalloc(q, Kernel), r, [i \in 1..n |-> i])

-----------------------------------------------------------------------------
(* vm.c; n is a page number va / PGSIZE *)

PGROUNDDOWN(a) == a \div PGSIZE                   \* mutant of PGROUNDUP
PGROUNDUP(a) == (a + PGSIZE - 1) \div PGSIZE      \* as a page number
PDX(n) == n \div NPT
Tab(r, d, n) == IF PDX(n) < NPD THEN r.mem[d].e[PDX(n)] ELSE 0
Pte(r, d, n) == IF Tab(r, d, n) = 0 THEN NoPte ELSE r.mem[Tab(r, d, n)].e[n % NPT]
Mapped(r, d, n) == Pte(r, d, n).pa # 0
SetPte(r, d, n, pte) == [r EXCEPT !.mem[Tab(r, d, n)].e[n % NPT] = pte]
\* walkpgdir with alloc: a page for the table if there is none.
CannotWalk(r, d, n) == Tab(r, d, n) = 0 /\ Full(r)
WalkPgdir(r, d, n) ==
  IF Tab(r, d, n) # 0 THEN r
  ELSE [Kalloc(r, EmptyTab) EXCEPT !.mem[d].e[PDX(n)] = Head(r.free)]
\* mappages for one page, r unchanged if walkpgdir fails.
MapPage(r, d, n, pte) == IF CannotWalk(r, d, n) THEN r ELSE SetPte(WalkPgdir(r, d, n), d, n, pte)

\* The page numbers deallocuvm looks at: where there is no table it goes on
\* NPT pages further, wherever in the table it was.
Visited(r, d, old, new) ==
  LET from[n \in Nat] == IF n * PGSIZE >= old THEN <<>>
                         ELSE IF PDX(n) < NPD /\ Tab(r, d, n) = 0 THEN from[n + NPT]
                         ELSE <<n>> \o from[n + 1]
  IN IF new >= old THEN <<>> ELSE from[PGROUNDUP(new)]
\* It meets a back pointer instead of a page table.
Strays(r, d, old, new) == \E n \in Range(Visited(r, d, old, new)) : PDX(n) >= NPD
FreePageStale(r, d, n) ==    \* mutant: the PTE is left
  IF ~Mapped(r, d, n) THEN r ELSE Kfree(r, Pte(r, d, n).pa)
FreePage(r, d, n) ==
  IF ~Mapped(r, d, n) THEN r ELSE SetPte(Kfree(r, Pte(r, d, n).pa), d, n, NoPte)
DeallocUvm(r, d, old, new) ==
  FoldLeft(LAMBDA q, n : FreePage(q, d, n), r, Visited(r, d, old, new))

FreevmTop == (NPD - 1) * NPT * PGSIZE             \* 0x3fa00000
Freevm(r, d) ==
  LET q == DeallocUvm(r, d, FreevmTop, 0)
      tabs == SelectSeq([i \in 1..NPD |-> q.mem[d].e[i - 1]], LAMBDA g : g # 0)
  IN Kfree(FoldLeft(Kfree, q, tabs), d)

\* vm64.c: a pml4, a pdpt and the directory that stands for them.
CanSetup(r) == Len(r.free) >= 3
SetupDir(r) == r.free[3]
Setupkvm(r) == Kalloc(Kalloc(Kalloc(r, Upper), Upper), EmptyDir)

Inituvm(r, d) == MapPage(Kalloc(r, Data("initcode")), d, 0, [pa |-> Head(r.free), user |-> TRUE])
Clearpteu(r, d, n) == SetPte(r, d, n, [Pte(r, d, n) EXCEPT !.user = FALSE])
Copyout(r, d, n, x) == [r EXCEPT !.mem[Pte(r, d, n).pa] = x]

-----------------------------------------------------------------------------
(* main.c *)

\* The machine stops.
Panic(msg) ==
  panicked' = msg /\ UNCHANGED <<ram, use_lock, boot, proc, th, starved, calls>>
Booting(c, stage, r, next) ==
  /\ boot[c] = stage /\ boot' = [boot EXCEPT ![c] = next]
  /\ ram' = r
  /\ UNCHANGED <<proc, th, starved, panicked, calls>>

Kvmalloc == Booting(1, "kvmalloc", KallocMany(ram, 5), "seginit") /\ UNCHANGED use_lock
Seginit(c) ==     \* an IDT and a page of CPU-local storage
  /\ \/ Booting(c, "seginit", KallocMany(ram, 2), "start")
     \/ Booting(c, "mpenter", KallocMany(ram, 2), "mpmain")
  /\ UNCHANGED use_lock
\* startothers: a stack, the start-up message, then wait for c->started.
StartApAtOnce(c) ==   \* mutant
  /\ boot[1] = "start" /\ boot[c] = "off" /\ \A b \in 1..c-1 : boot[b] # "off"
  /\ boot' = [boot EXCEPT ![c] = "mpenter"]
  /\ ram' = Kalloc(ram, Kernel)
  /\ UNCHANGED <<use_lock, proc, th, starved, panicked, calls>>
StartAp(c) ==
  /\ boot[1] = "start" /\ boot[c] = "off" /\ \A b \in 1..c-1 : boot[b] # "off"
  /\ boot' = [boot EXCEPT ![1] = "wait", ![c] = "mpenter"]
  /\ ram' = Kalloc(ram, Kernel)
  /\ UNCHANGED <<use_lock, proc, th, starved, panicked, calls>>
Mpmain(c) == Booting(c, "mpmain", ram, "up") /\ UNCHANGED use_lock
Started == /\ \A c \in CPUs \ {1} : boot[c] \in {"off", "up"}
           /\ Booting(1, "wait", ram, "start") /\ UNCHANGED use_lock
Kinit2 ==
  /\ \A c \in CPUs : boot[c] # "off"
  /\ Booting(1, "start", [ram EXCEPT !.free =
       Reverse([i \in 1..NPAGES - LowPages |-> LowPages + i]) \o @], "userinit")
  /\ use_lock' = TRUE
Userinit ==
  LET r == Kalloc(ram, Kernel)
      d == SetupDir(r) IN
  /\ boot[1] = "userinit" /\ boot' = [boot EXCEPT ![1] = "up"]
  /\ ram' = Inituvm(Setupkvm(r), d)
  /\ proc' = [proc EXCEPT ![1] = [state |-> "running", parent |-> 0, pgdir |-> d,
                                  sz |-> PGSIZE, kstack |-> Head(ram.free)]]
  /\ UNCHANGED <<use_lock, th, starved, panicked, calls>>

-----------------------------------------------------------------------------
(* System calls *)

InUser(p) == proc[p].state = "running" /\ th[p].pc = "user"
Called(p) == InUser(p) /\ calls < MaxCalls /\ calls' = calls + 1
Goto(p, u) == th' = [th EXCEPT ![p] = [f \in DOMAIN Idle |-> IF f \in DOMAIN u THEN u[f] ELSE @[f]]]
Return(p) == th' = [th EXCEPT ![p] = Idle]

\* A store by the program.
Store(p, n, v) ==
  /\ InUser(p)
  /\ Mapped(ram, proc[p].pgdir, n) /\ Pte(ram, proc[p].pgdir, n).user
  /\ ram' = [ram EXCEPT !.mem[Pte(ram, proc[p].pgdir, n).pa] = Data(v)]
  /\ UNCHANGED <<use_lock, boot, proc, th, starved, panicked, calls>>

\* What the kernel touches for a system call: the size bytes at a that argptr has
\* checked, or a string that fetchstr looks through up to its end or to p->sz
\* (not beyond).  A page that is not there is a trap in the kernel.
Argptr(p, a, size) == a < proc[p].sz /\ a + size <= proc[p].sz
Touched(a, size) == (a \div PGSIZE)..((a + size - 1) \div PGSIZE)
Fetchstr(p, a, size) ==
  /\ InUser(p) /\ Argptr(p, a, size)
  /\ \E n \in Touched(a, size) : ~Mapped(ram, proc[p].pgdir, n)
  /\ Panic("trap")
\* read(), fstat() and pipe() store what the system call returns.
SysRead(p, a, size, v) ==
  LET To == {Pte(ram, proc[p].pgdir, n).pa : n \in Touched(a, size)} IN
  /\ InUser(p) /\ Argptr(p, a, size) /\ 0 \notin To
  /\ ram' = [ram EXCEPT !.mem = [g \in Pages |-> IF g \in To THEN Data(v) ELSE @[g]]]
  /\ UNCHANGED <<use_lock, boot, proc, th, starved, panicked, calls>>

\* growproc(n); the sum is a uint.
Sbrk(p, n) ==
  LET sz == proc[p].sz
      new == (sz + n) % UINT IN
  /\ Called(p)
  /\ IF n > 0 /\ new >= sz
     THEN /\ Goto(p, [pc |-> "alloc", d |-> proc[p].pgdir, a |-> PGROUNDUP(sz),
                      from |-> sz, to |-> new])
          /\ UNCHANGED <<ram, proc>>
     ELSE /\ ram' = IF n < 0 THEN DeallocUvm(ram, proc[p].pgdir, sz, new) ELSE ram
          /\ proc' = [proc EXCEPT ![p].sz = IF n < 0 /\ new \in 1..sz THEN new ELSE sz]
          /\ UNCHANGED th
  /\ UNCHANGED <<use_lock, boot, starved, panicked>>

\* The loop of allocuvm(th.d, th.from, th.to), one page at a time.
AllocStale(p) ==   \* mutant: the page is not cleared
  LET t == th[p]
      r == ram IN
  /\ t.pc = "alloc" /\ t.a * PGSIZE < t.to /\ ~Full(r)
  /\ ram' = MapPage([r EXCEPT !.free = Tail(@)], t.d, t.a, [pa |-> Head(r.free), user |-> TRUE])
  /\ Goto(p, [a |-> t.a + 1])
  /\ UNCHANGED <<use_lock, boot, proc, starved, panicked, calls>>
AllocPage(p) ==
  LET t == th[p]
      r == Kalloc(ram, Data("zero")) IN
  /\ t.pc = "alloc" /\ t.a * PGSIZE < t.to /\ ~Full(ram)
  /\ IF Mapped(ram, t.d, t.a) THEN Panic("remap")
     ELSE /\ ram' = MapPage(r, t.d, t.a, [pa |-> Head(ram.free), user |-> TRUE])
          /\ starved' = (starved \/ CannotWalk(r, t.d, t.a))
          /\ Goto(p, [a |-> t.a + 1])
          /\ UNCHANGED <<use_lock, boot, proc, panicked, calls>>
\* kalloc returns 0: the new pages are freed, and exec drops its page table.
AllocFail(p) ==
  LET t == th[p]
      r == DeallocUvm(ram, t.d, t.to, t.from) IN
  /\ t.pc = "alloc" /\ t.a * PGSIZE < t.to /\ Full(ram)
  /\ starved' = TRUE
  /\ IF Strays(ram, t.d, t.to, t.from)
     THEN panicked' = "trap" /\ UNCHANGED <<ram, th>>
     ELSE /\ ram' = IF t.d = proc[p].pgdir THEN r ELSE Freevm(r, t.d)
          /\ Return(p) /\ UNCHANGED panicked
  /\ UNCHANGED <<use_lock, boot, proc, calls>>
SbrkEnd(p) ==
  LET t == th[p] IN
  /\ t.pc = "alloc" /\ t.a * PGSIZE >= t.to /\ t.d = proc[p].pgdir
  /\ proc' = [proc EXCEPT ![p].sz = t.to]
  /\ Return(p)
  /\ UNCHANGED <<ram, use_lock, boot, starved, panicked, calls>>

-----------------------------------------------------------------------------
(* fork, exit and wait *)

\* allocproc: a slot, then a page for the kernel stack.
Fork(p, q) ==
  /\ Called(p) /\ proc[q].state = "unused"
  /\ IF Full(ram) THEN starved' = TRUE /\ UNCHANGED <<ram, proc, th>>
     ELSE /\ ram' = Kalloc(ram, Kernel)
          /\ proc' = [proc EXCEPT ![q] = [Unused EXCEPT !.state = "embryo", !.kstack = Head(ram.free)]]
          /\ Goto(p, [pc |-> "fork", np |-> q])
          /\ UNCHANGED starved
  /\ UNCHANGED <<use_lock, boot, panicked>>
\* setupkvm for a child or a new program does not test what kalloc returns.
NewTable(p) ==
  LET t == th[p] IN
  /\ t.pc \in {"fork", "exec"}
  /\ IF CanSetup(ram)
     THEN /\ ram' = Setupkvm(ram)
          /\ Goto(p, [pc |-> IF t.pc = "fork" THEN "copy" ELSE "seg", d |-> SetupDir(ram)])
          /\ UNCHANGED <<starved, panicked>>
     ELSE panicked' = "null" /\ starved' = TRUE /\ UNCHANGED <<ram, th>>
  /\ UNCHANGED <<use_lock, boot, proc, calls>>
\* The loop of copyuvm.
CopyPage(p) ==
  LET t == th[p]
      pte == Pte(ram, proc[p].pgdir, t.a)
      r == Kalloc(ram, ram.mem[pte.pa]) IN
  /\ t.pc = "copy" /\ t.a * PGSIZE < proc[p].sz
  /\ IF pte.pa = 0 THEN Panic("copyuvm")
     ELSE /\ ~Full(ram) /\ ~CannotWalk(r, t.d, t.a)
          /\ ram' = MapPage(r, t.d, t.a, [pte EXCEPT !.pa = Head(ram.free)])
          /\ Goto(p, [a |-> t.a + 1])
          /\ UNCHANGED <<use_lock, boot, proc, starved, panicked, calls>>
\* Out of memory for the page, or for the table that maps it (then the page is
\* lost): the child is given up.
CopyFail(p) ==
  LET t == th[p]
      r == IF Full(ram) THEN ram ELSE Kalloc(ram, Junk) IN
  /\ t.pc = "copy" /\ t.a * PGSIZE < proc[p].sz /\ Mapped(ram, proc[p].pgdir, t.a)
  /\ Full(ram) \/ CannotWalk(r, t.d, t.a)
  /\ ram' = Kfree(Freevm(r, t.d), proc[t.np].kstack)
  /\ proc' = [proc EXCEPT ![t.np] = Unused]
  /\ starved' = TRUE
  /\ Return(p)
  /\ UNCHANGED <<use_lock, boot, panicked, calls>>
ForkEnd(p) ==
  LET t == th[p] IN
  /\ t.pc = "copy" /\ t.a * PGSIZE >= proc[p].sz
  /\ proc' = [proc EXCEPT ![t.np] = [@ EXCEPT !.state = "running", !.parent = p, !.pgdir = t.d,
                                              !.sz = proc[p].sz]]
  /\ Return(p)
  /\ UNCHANGED <<ram, use_lock, boot, starved, panicked, calls>>

\* The memory of a zombie stays, and init inherits its children.
Exit(p) ==
  /\ Called(p) /\ p # 1
  /\ proc' = [q \in Slots |-> IF q = p THEN [proc[p] EXCEPT !.state = "zombie"]
                              ELSE IF proc[q].parent = p THEN [proc[q] EXCEPT !.parent = 1]
                              ELSE proc[q]]
  /\ UNCHANGED <<ram, use_lock, boot, th, starved, panicked>>
Wait(p, q) ==
  /\ Called(p) /\ proc[q].state = "zombie" /\ proc[q].parent = p
  /\ ram' = Freevm(Kfree(ram, proc[q].kstack), proc[q].pgdir)
  /\ proc' = [proc EXCEPT ![q] = Unused]
  /\ UNCHANGED <<use_lock, boot, th, starved, panicked>>

-----------------------------------------------------------------------------
(* exec; th.to is sz *)

Segs(p) == Programs[th[p].prog].segs
\* goto bad after setupkvm.
BadLeaks(p) == Return(p) /\ UNCHANGED ram     \* mutant
Bad(p) == Return(p) /\ ram' = Freevm(ram, th[p].d)

\* namei and the ELF header.
Exec(p, g) ==
  /\ Called(p)
  /\ IF Programs[g].elf THEN Goto(p, [pc |-> "exec", prog |-> g, i |-> 1]) ELSE UNCHANGED th
  /\ UNCHANGED <<ram, use_lock, boot, proc, starved, panicked>>
\* A program header, or after the last one the guard page and the stack.
ExecSeg(p) ==
  LET t == th[p]
      seg == Segs(p)[t.i]
      new == (seg.vaddr + seg.memsz) % UINT
      sz == PGROUNDUP(t.to) * PGSIZE IN
  /\ t.pc = "seg"
  /\ IF t.i > Len(Segs(p))
     THEN /\ Goto(p, [pc |-> "alloc", a |-> PGROUNDUP(t.to), from |-> sz, to |-> sz + 2 * PGSIZE])
          /\ UNCHANGED ram
     ELSE IF ~seg.load THEN Goto(p, [i |-> t.i + 1]) /\ UNCHANGED ram
     ELSE IF seg.memsz < seg.filesz \/ (t.to = 0 /\ new = 0) THEN Bad(p)
     ELSE /\ Goto(p, [pc |-> "alloc", a |-> PGROUNDUP(t.to), from |-> t.to,
                      to |-> IF new < t.to THEN t.to ELSE new])
          /\ UNCHANGED ram
  /\ UNCHANGED <<use_lock, boot, proc, starved, panicked, calls>>
\* loaduvm; a page that is missing is read into physical page 0.
SegPages(seg) == {n \in 0..UINT : n * PGSIZE >= seg.vaddr /\ n * PGSIZE < seg.vaddr + seg.filesz}
ExecLoad(p) ==
  LET t == th[p]
      seg == Segs(p)[t.i]
      Text == {Pte(ram, t.d, n).pa : n \in SegPages(seg)} IN
  /\ t.pc = "alloc" /\ t.a * PGSIZE >= t.to /\ t.d # proc[p].pgdir /\ t.i <= Len(Segs(p))
  /\ IF \E n \in SegPages(seg) : Tab(ram, t.d, n) = 0 THEN Panic("loaduvm")
     ELSE /\ IF seg.read
             THEN /\ ram' = [ram EXCEPT !.mem = [g \in Pages |-> IF g \in Text THEN Data(t.prog) ELSE @[g]]]
                  /\ Goto(p, [pc |-> "seg", i |-> t.i + 1])
             ELSE Bad(p)
          /\ UNCHANGED <<use_lock, boot, proc, starved, panicked, calls>>
\* clearpteu, copyout of the arguments, and the new image replaces the old one.
ExecCommit(p) ==
  LET t == th[p]
      stack == t.to \div PGSIZE - 1
      r == Copyout(Clearpteu(ram, t.d, stack - 1), t.d, stack, Data("args")) IN
  /\ t.pc = "alloc" /\ t.a * PGSIZE >= t.to /\ t.d # proc[p].pgdir /\ t.i > Len(Segs(p))
  /\ IF Tab(ram, t.d, stack - 1) = 0 \/ Tab(ram, t.d, stack) = 0 THEN Panic("clearpteu")
     ELSE /\ IF Mapped(ram, t.d, stack) /\ Programs[t.prog].argsfit
             THEN /\ ram' = Freevm(r, proc[p].pgdir)
                  /\ proc' = [proc EXCEPT ![p].pgdir = t.d, ![p].sz = t.to]
                  /\ Return(p)
             ELSE Bad(p) /\ UNCHANGED proc
          /\ UNCHANGED <<use_lock, boot, starved, panicked, calls>>

Boot == \/ Kvmalloc \/ Started \/ Kinit2 \/ Userinit
        \/ \E c \in CPUs : Seginit(c) \/ StartAp(c) \/ Mpmain(c)
PageNos == 0..(UINT \div PGSIZE)
Process(p) ==
  \/ \E n \in PageNos, v \in Values : Store(p, n, v)
  \/ \E a \in 0..UINT-1, size \in Sizes : Fetchstr(p, a, size) \/ \E v \in Values : SysRead(p, a, size, v)
  \/ \E n \in Deltas : Sbrk(p, n)
  \/ AllocPage(p) \/ AllocFail(p) \/ SbrkEnd(p)
  \/ \E q \in Slots : Fork(p, q) \/ Wait(p, q)
  \/ NewTable(p) \/ CopyPage(p) \/ CopyFail(p) \/ ForkEnd(p) \/ Exit(p)
  \/ \E g \in DOMAIN Programs : Exec(p, g)
  \/ ExecSeg(p) \/ ExecLoad(p) \/ ExecCommit(p)
Next == panicked = "" /\ (Boot \/ \E p \in Slots : Process(p))
Spec == Init /\ [][Next]_vars

-----------------------------------------------------------------------------
(* Properties *)

Live == {p \in Slots : proc[p].state \in {"running", "zombie"}}
\* The page directories in use, also those that fork and exec are filling.
Dirs == {proc[p].pgdir : p \in Live} \cup ({th[p].d : p \in Slots} \ {0})
TabsOf(d) == {ram.mem[d].e[i] : i \in 0..NPD-1} \ {0}
Uses ==   \* every use of a page, with the place where it is used
  {<<"free", i, ram.free[i]>> : i \in DOMAIN ram.free}
    \cup {<<"kstack", p, proc[p].kstack>> : p \in {q \in Slots : proc[q].kstack # 0}}
    \cup {<<"dir", 0, d>> : d \in Dirs}
    \cup UNION {{<<"tab", <<d, i>>, ram.mem[d].e[i]>> : i \in {j \in 0..NPD-1 : ram.mem[d].e[j] # 0}} : d \in Dirs}
    \cup UNION {UNION {{<<"user", <<g, i>>, ram.mem[g].e[i].pa>>
           : i \in {j \in 0..NPT-1 : ram.mem[g].e[j].pa # 0}} : g \in TabsOf(d)} : d \in Dirs}
Used == {u[3] : u \in Uses}

\* kalloc.c and vm.c: a page has one use at a time.  It is free, and then only once
\* on the list, or a kernel stack, or in one place of one page table: not
\* shared by two processes, nor freed while it is still mapped.
PagesOwnedOnce == Cardinality(Used) = Cardinality(Uses)

\* vm.c:281-297: until kalloc fails, every page taken from the list comes
\* back to it when its use ends, except the two upper tables that setupkvm makes
\* and freevm does not free.
OnlyUpperTablesLost ==
  ~starved /\ use_lock => \A g \in Pages \ Used : ram.mem[g].k \in {"upper", "kernel"}

\* proc.c:109-125 and vm.c:222-249: until kalloc fails, a process has every page
\* below its size and none above, and the kernel does not panic.
CompleteUntilStarved ==
  ~starved =>
    /\ panicked = ""
    /\ \A p \in Live : th[p].pc = "user" => \A n \in PageNos :
         Mapped(ram, proc[p].pgdir, n) <=> n * PGSIZE < proc[p].sz

\* main.c:41, kalloc.c:32-43: while kmem.lock is not used, only one CPU is at a
\* place where it allocates, and there is no process.
UnlockedAlone ==
  ~use_lock =>
    /\ Cardinality({c \in CPUs : boot[c] \in {"kvmalloc", "seginit", "start", "mpenter"}}) <= 1
    /\ Live = {}

\* The memory that a process sees through its page table.
Image(p) ==
  IF p \notin Live THEN <<>>
  ELSE [n \in {m \in PageNos : Mapped(ram, proc[p].pgdir, m)} |-> ram.mem[Pte(ram, proc[p].pgdir, n).pa]]
ImageOf(g) ==
  LET segs == Programs[g].segs
      sz == FoldLeft(LAMBDA m, s : IF s.load /\ s.vaddr + s.memsz > m THEN s.vaddr + s.memsz ELSE m, 0, segs)
      n == PGROUNDUP(sz)
  IN [m \in 0..n+1 |-> IF m = n + 1 THEN Data("args")
        ELSE IF \E i \in DOMAIN segs : segs[i].load /\ m \in SegPages(segs[i]) THEN Data(g) ELSE Data("zero")]
Spaces == INSTANCE AddressSpaces WITH
  Procs <- Slots, None <- <<>>, Zero <- Data("zero"), Values <- {Data(v) : v \in Values},
  Images <- {ImageOf(g) : g \in DOMAIN Programs} \cup {[n \in {0} |-> Data("initcode")]},
  img <- [p \in Slots |-> Image(p)]
\* Every process has memory of its own: no step changes what another process
\* sees, new pages are zero, a child's copy is exact, and exec installs the
\* program or leaves the old image alone.
IsolatedImages == Spaces!Spec
=============================================================================
