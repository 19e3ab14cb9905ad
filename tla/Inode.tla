------------------------------- MODULE Inode --------------------------------
(***************************************************************************)
(* The inode cache, directories and path names of kernel/fs.c, the open    *)
(* file table of kernel/file.c and the system calls of kernel/sysfile.c    *)
(* that use them, with fork and exit of kernel/proc.c.                     *)
(*                                                                         *)
(* A section under icache.lock or ftable.lock is one action.  So is what a *)
(* thread does to an inode between ilock and iunlock, unless it waits for  *)
(* something else meanwhile: then the inode stays busy between the steps.  *)
(* A directory's contents are a function from names to inode numbers (the  *)
(* search for a free dirent is left out), file contents are in DiskImage   *)
(* and Opfs, and begin_op and end_op bracket the calls without blocking    *)
(* (see Log).                                                              *)
(***************************************************************************)
EXTENDS Integers, FiniteSets, Sequences, TLC

CONSTANTS Procs, Started,   \* processes, and those that run initially
          Inums, Root,      \* inode numbers of the disk, ROOTINO
          None,             \* inode number 0: a free dirent, no lock holder
          NINODE,           \* slots of icache.inode
          NFILE, NOFILE,    \* slots of ftable.file, descriptors per process
          Names,            \* names other than "." and ".."
          Trees,            \* directory trees that may be on the disk at boot
          Calls,            \* process -> its system calls, with arguments
          MaxCalls          \* bound: calls made in one behaviour

Slots == 1..NINODE
Files == 1..NFILE
Fds == 1..NOFILE
Elems == Names \cup {".", ".."}
NoEnts == [e \in Elems |-> None]
FreeInode == [type |-> "free", nlink |-> 0, ents |-> NoEnts]

Dir(nlink, self, parent, ents) ==
  [type |-> "dir", nlink |-> nlink,
   ents |-> [e \in Elems |-> IF e = "." THEN self ELSE IF e = ".." THEN parent
                             ELSE IF e \in DOMAIN ents THEN ents[e] ELSE None]]

ASSUME InodeAssumption ==
  /\ Started \subseteq Procs /\ Root \in Inums /\ None \notin Inums \cup Procs
  /\ NINODE \in Nat /\ NINODE >= Cardinality(Inums)   \* iget finds a slot
  /\ NFILE \in Nat /\ NOFILE \in Nat
  /\ MaxCalls \in Nat

VARIABLES
  disk,     \* inum -> type, nlink and directory contents on the disk
  icache,   \* slot -> inum, ref, holder of I_BUSY, I_VALID, cached type, nlink
  ftable,   \* file -> ref, type, slot of f->ip
  ofile,    \* process -> descriptor -> file, 0 for none
  cwd,      \* process -> slot of proc->cwd, 0 when it has exited
  th,       \* process -> kernel thread: pc and local variables
  panicked, \* the message of panic(), or ""
  calls     \* number of system calls made
vars == <<disk, icache, ftable, ofile, cwd, th, panicked, calls>>
FilesUnchanged == UNCHANGED <<ftable, ofile, cwd, panicked, calls>>

NoCall == [op |-> "none"]
Idle(l) == [pc |-> l, call |-> NoCall, path |-> <<>>, name |-> ".", parent |-> FALSE,
            ip |-> 0, dp |-> 0, old |-> 0, put |-> 0, ret |-> "user", rf |-> 0]

\* A disk with one of Trees; the processes have the root as current directory.
Init ==
  /\ disk \in Trees
  /\ icache = [s \in Slots |-> [inum |-> IF s = 1 THEN Root ELSE None,
                ref |-> IF s = 1 THEN Cardinality(Started) ELSE 0, busy |-> None, valid |-> FALSE,
                type |-> "free", nlink |-> 0]]
  /\ ftable = [f \in Files |-> [ref |-> 0, type |-> "none", ip |-> 0]]
  /\ ofile = [p \in Procs |-> [d \in Fds |-> 0]]
  /\ cwd = [p \in Procs |-> IF p \in Started THEN 1 ELSE 0]
  /\ th = [p \in Procs |-> Idle(IF p \in Started THEN "user" ELSE "none")]
  /\ panicked = ""
  /\ calls = 0

\* The thread of p continues with the locals in u changed.
Goto(p, u) == th' = [th EXCEPT ![p] = u @@ @]
\* ... or, at the end of a system call, without any.
Continue(p, l) == IF l \in {"user", "none"} THEN th' = [th EXCEPT ![p] = Idle(l)]
                  ELSE Goto(p, [pc |-> l, put |-> 0])
\* panic(): the machine stops.
Panic(msg) ==
  /\ panicked' = msg
  /\ UNCHANGED <<disk, icache, ftable, ofile, cwd, th, calls>>

-----------------------------------------------------------------------------
(* The inode cache. ic is a state of icache. *)

Cached(ic, i) == {s \in Slots : ic[s].ref > 0 /\ ic[s].inum = i}
Empty(ic) == {s \in Slots : ic[s].ref = 0}
\* The slot iget(i) returns.
IgetSlot(ic, i) ==
  IF Cached(ic, i) # {} THEN CHOOSE s \in Cached(ic, i) : TRUE
  ELSE CHOOSE s \in Empty(ic) : \A t \in Empty(ic) : s <= t
Idup(ic, s) == [ic EXCEPT ![s].ref = @ + 1]
\* Mutant: the flags survive the recycling of a slot.
IgetStale(ic, i) ==
  LET s == IgetSlot(ic, i) IN
    IF ic[s].ref > 0 THEN Idup(ic, s)
    ELSE [ic EXCEPT ![s] = [@ EXCEPT !.inum = i, !.ref = 1]]
Iget(ic, i) ==
  LET s == IgetSlot(ic, i) IN
    IF ic[s].ref > 0 THEN Idup(ic, s)
    ELSE [ic EXCEPT ![s] = [@ EXCEPT !.inum = i, !.ref = 1, !.valid = FALSE]]

\* ilock() returns: the slot was not busy, and is read from disk if not valid.
CanLock(s) == icache[s].busy = None
NoType(s) == ~icache[s].valid /\ disk[icache[s].inum].type = "free"
Ilock(s) ==
  LET d == disk[icache[s].inum] IN
    [icache EXCEPT ![s] = IF @.valid THEN @
       ELSE [@ EXCEPT !.valid = TRUE, !.type = d.type, !.nlink = d.nlink]]
Busy(ic, s, p) == [ic EXCEPT ![s].busy = p]
\* nlink of the inode in slot s changes by k, in the cache and by iupdate().
Relink(ic, s, k) == [ic EXCEPT ![s].nlink = @ + k]
IupdateLost(dk, s, k) == dk   \* mutant
Iupdate(dk, s, k) == [dk EXCEPT ![icache[s].inum].nlink = @ + k]

\* Mutants: an inode is never freed, or although others refer to it.
IputKeeps(p) ==
  LET s == th[p].put IN
  /\ th[p].pc = "iput"
  /\ icache' = [icache EXCEPT ![s].ref = @ - 1]
  /\ Continue(p, th[p].ret)
  /\ UNCHANGED disk /\ FilesUnchanged
IputEager(p) ==
  LET s == th[p].put
      last == icache[s].valid /\ icache[s].nlink = 0 IN
  /\ th[p].pc = "iput"
  /\ icache' = IF last THEN Busy(icache, s, p) ELSE [icache EXCEPT ![s].ref = @ - 1]
  /\ IF last THEN Goto(p, [pc |-> "itrunc"]) ELSE Continue(p, th[p].ret)
  /\ UNCHANGED disk /\ FilesUnchanged
\* iput(th[p].put): the last reference to an unlinked inode frees it.
Iput(p) ==
  LET s == th[p].put
      last == icache[s].ref = 1 /\ icache[s].valid /\ icache[s].nlink = 0 IN
  /\ th[p].pc = "iput"
  /\ IF last /\ icache[s].busy # None THEN Panic("iput busy")
     ELSE /\ icache' = IF last THEN Busy(icache, s, p)
                       ELSE [icache EXCEPT ![s].ref = @ - 1]
          /\ IF last THEN Goto(p, [pc |-> "itrunc"]) ELSE Continue(p, th[p].ret)
          /\ UNCHANGED disk /\ FilesUnchanged
\* itrunc(), type = 0, iupdate(): other threads may run before and after.
IputFree(p) ==
  LET i == icache[th[p].put].inum IN
  /\ th[p].pc = "itrunc"
  /\ disk' = [disk EXCEPT ![i] = FreeInode]
  /\ icache' = [icache EXCEPT ![th[p].put].type = "free"]
  /\ Goto(p, [pc |-> "iput_end"])
  /\ FilesUnchanged
IputEnd(p) ==
  LET s == th[p].put IN
  /\ th[p].pc = "iput_end"
  /\ icache' = [icache EXCEPT ![s].busy = None, ![s].valid = FALSE, ![s].ref = @ - 1]
  /\ Continue(p, th[p].ret)
  /\ UNCHANGED disk /\ FilesUnchanged

-----------------------------------------------------------------------------
(* Names. *)

\* skipelem(): the first element of a path, and the rest.
Skipelem(path) == <<Head(path), Tail(path)>>
Dirlookup(s, name) == disk[icache[s].inum].ents[name]

\* Where a system call continues when its path has been walked.
Creates(c) == c.op \in {"mkdir", "mknod"} \/ (c.op = "open" /\ c.create)
AfterWalk(t) == IF t.old # 0 THEN "link_dp"
                ELSE IF Creates(t.call) THEN "create_dp" ELSE t.call.op
\* Where it continues when the walk fails: sys_link must undo its nlink++.
Failed(t) == IF t.old # 0 THEN "link_bad" ELSE "user"
\* namex() starts at the root or at the current directory.
WalkSlot(p, abs) == IF abs THEN IgetSlot(icache, Root) ELSE cwd[p]
WalkRefBorrowed(p, abs, ic) == IF abs THEN Iget(ic, Root) ELSE ic   \* mutant
WalkRef(p, abs, ic) == IF abs THEN Iget(ic, Root) ELSE Idup(ic, cwd[p])

\* A system call that takes a path: begin_op and the start of namei or
\* nameiparent.
Call(p, c) ==
  /\ th[p].pc = "user" /\ calls < MaxCalls
  /\ c.op \in {"open", "mkdir", "mknod", "unlink", "link", "chdir", "chmod"}
  /\ calls' = calls + 1
  /\ icache' = WalkRef(p, c.abs, icache)
  /\ Goto(p, [pc |-> "namex", call |-> c, path |-> c.path, ip |-> WalkSlot(p, c.abs),
              parent |-> Creates(c) \/ c.op = "unlink"])
  /\ UNCHANGED <<disk, ftable, ofile, cwd, panicked>>

\* The slot that the thread of p locks next, 0 if none.
Want(p) ==
  LET t == th[p] IN
  CASE t.pc \in {"open", "chdir", "chmod", "link", "create_found", "create_ip", "unlink_ip"} -> t.ip
    [] t.pc = "namex" /\ t.path # <<>> -> t.ip
    [] t.pc \in {"create_dp", "unlink", "link_dp"} -> t.dp
    [] t.pc = "link_bad" -> t.old
    [] OTHER -> 0
\* ilock() returns when nobody holds the slot, and action A follows.
WithLock(p, A) ==
  /\ CanLock(Want(p))
  /\ IF NoType(Want(p)) THEN Panic("ilock: no type") ELSE A

\* The thread drops its reference to slot s, then continues at r.
Drop(p, s, r, u) == Goto(p, u @@ [pc |-> "iput", put |-> s, ret |-> r])

\* One turn of namex's loop, or its end.
Namex(p) ==
  LET t == th[p]
      s == t.ip
      elem == Skipelem(t.path)
      ic == Ilock(s)
      next == Dirlookup(s, elem[1])
      stop == t.parent /\ elem[2] = <<>>  IN
  /\ t.pc = "namex"
  /\ \/ /\ t.path = <<>>
        /\ IF t.parent THEN Drop(p, s, Failed(t), [ip |-> 0])
           ELSE Goto(p, [pc |-> AfterWalk(t)])
        /\ UNCHANGED icache
        /\ UNCHANGED disk /\ FilesUnchanged
     \/ /\ t.path # <<>>
        /\ WithLock(p,
             /\ \/ /\ ic[s].type # "dir" \/ (~stop /\ next = None)
                   /\ icache' = ic /\ Drop(p, s, Failed(t), [ip |-> 0, path |-> <<>>])
                \/ /\ ic[s].type = "dir" /\ stop
                   /\ icache' = ic
                   /\ Goto(p, [pc |-> AfterWalk(t), name |-> elem[1], path |-> <<>>,
                               ip |-> 0, dp |-> s])
                \/ /\ ic[s].type = "dir" /\ ~stop /\ next # None
                   /\ icache' = Iget(ic, next)
                   /\ Drop(p, s, "namex", [path |-> elem[2], ip |-> IgetSlot(ic, next)])
             /\ UNCHANGED disk /\ FilesUnchanged)

-----------------------------------------------------------------------------
(* create, and the calls built on it *)

\* create() finds the name, or allocates an inode; dp is kept locked meanwhile.
CreateDp(p) ==
  LET t == th[p]
      ic == Ilock(t.dp)
      found == Dirlookup(t.dp, t.name)
      New == {i \in Inums : disk[i].type = "free"}
      type == CASE t.call.op = "mkdir" -> "dir" [] t.call.op = "mknod" -> "dev" [] OTHER -> "file" IN
  /\ t.pc = "create_dp"
  /\ WithLock(p,
     /\ \/ /\ found # None
           /\ icache' = Iget(ic, found)
           /\ Drop(p, t.dp, "create_found", [ip |-> IgetSlot(ic, found), dp |-> 0])
           /\ UNCHANGED disk /\ FilesUnchanged
        \/ found = None /\ New = {} /\ Panic("ialloc: no inodes")
        \/ /\ found = None
           /\ \E i \in New :
                /\ disk' = [disk EXCEPT ![i].type = type]
                /\ icache' = Iget(Busy(ic, t.dp, p), i)
                /\ Goto(p, [pc |-> "create_ip", ip |-> IgetSlot(ic, i)])
           /\ FilesUnchanged)

CreateFound(p) ==
  LET t == th[p]
      ic == Ilock(t.ip) IN
  /\ t.pc = "create_found"
  /\ WithLock(p,
     /\ IF t.call.op = "open" /\ ic[t.ip].type = "file"
        THEN icache' = Busy(ic, t.ip, p) /\ Goto(p, [pc |-> "created"])
        ELSE icache' = ic /\ Drop(p, t.ip, "user", [ip |-> 0])
     /\ UNCHANGED disk /\ FilesUnchanged)

\* nlink = 1, "." and ".." in a directory, and the name in dp.
CreateIp(p) ==
  LET t == th[p]
      d == icache[t.dp].inum
      i == icache[t.ip].inum
      dir == t.call.op = "mkdir"
      k == IF dir THEN 1 ELSE 0 IN
  /\ t.pc = "create_ip"
  /\ WithLock(p,
     /\ disk' = [Iupdate(disk, t.dp, k) EXCEPT
                   ![i].nlink = 1,
                   ![i].ents = IF dir THEN [NoEnts EXCEPT !["."] = i, ![".."] = d] ELSE NoEnts,
                   ![d].ents[t.name] = i]
     /\ icache' = [Relink(Busy(Busy(Ilock(t.ip), t.ip, p), t.dp, None), t.dp, k)
                    EXCEPT ![t.ip].nlink = 1]
     /\ Drop(p, t.dp, "created", [dp |-> 0])
     /\ FilesUnchanged)

\* mkdir and mknod: iunlockput(ip).
Made(p) ==
  /\ th[p].pc = "created" /\ th[p].call.op # "open"
  /\ icache' = Busy(icache, th[p].ip, None)
  /\ Drop(p, th[p].ip, "user", [ip |-> 0])
  /\ UNCHANGED disk /\ FilesUnchanged

-----------------------------------------------------------------------------
(* Open files. *)

FreeFiles == {f \in Files : ftable[f].ref = 0}
FreeFds(p) == {d \in Fds : ofile[p][d] = 0}
Least(S) == CHOOSE x \in S : \A y \in S : x <= y
\* filealloc() and fdalloc(), then the file refers to ip.
FileFor(p, ic, s) ==
  IF FreeFiles = {} \/ FreeFds(p) = {}
  THEN /\ icache' = ic /\ Drop(p, s, "user", [ip |-> 0])
       /\ UNCHANGED <<ftable, ofile>>
  ELSE /\ icache' = ic
       /\ ftable' = [ftable EXCEPT ![Least(FreeFiles)] = [ref |-> 1, type |-> "inode", ip |-> s]]
       /\ ofile' = [ofile EXCEPT ![p][Least(FreeFds(p))] = Least(FreeFiles)]
       /\ Continue(p, "user")
\* sys_open without O_CREATE; only O_RDONLY opens a directory.
Open(p) ==
  LET s == th[p].ip
      ic == Ilock(s) IN
  /\ th[p].pc = "open"
  /\ WithLock(p,
     /\ IF ic[s].type = "dir" /\ th[p].call.mode # "r"
        THEN icache' = ic /\ Drop(p, s, "user", [ip |-> 0]) /\ UNCHANGED <<ftable, ofile>>
        ELSE FileFor(p, ic, s)
     /\ UNCHANGED <<disk, cwd, panicked, calls>>)
\* sys_open with O_CREATE: create() returned ip locked.
OpenCreated(p) ==
  /\ th[p].pc = "created" /\ th[p].call.op = "open"
  /\ FileFor(p, Busy(icache, th[p].ip, None), th[p].ip)
  /\ UNCHANGED <<disk, cwd, panicked, calls>>

\* argfd: the descriptors that are open.
Argfd(p) == Fds \ FreeFds(p)
\* fileclose(ofile[p][d]); the thread continues at r.
Fileclose(p, d, r) ==
  LET f == ofile[p][d]
      last == ftable[f].ref = 1 IN
  /\ ftable' = [ftable EXCEPT ![f].ref = @ - 1, ![f].type = IF last THEN "none" ELSE @]
  /\ ofile' = [ofile EXCEPT ![p][d] = 0]
  /\ IF last /\ ftable[f].type = "inode" THEN Drop(p, ftable[f].ip, r, [ip |-> 0])
     ELSE Continue(p, r)
Close(p) ==
  /\ th[p].pc = "user" /\ calls < MaxCalls /\ [op |-> "close"] \in Calls[p]
  /\ calls' = calls + 1
  /\ \E d \in Argfd(p) : Fileclose(p, d, "user")
  /\ UNCHANGED <<disk, icache, cwd, panicked>>
\* sys_dup: fdalloc, then filedup.
Dup(p) ==
  /\ th[p].pc = "user" /\ calls < MaxCalls /\ [op |-> "dup"] \in Calls[p]
  /\ FreeFds(p) # {}
  /\ calls' = calls + 1
  /\ \E d \in Argfd(p) :
       /\ ofile' = [ofile EXCEPT ![p][Least(FreeFds(p))] = ofile[p][d]]
       /\ ftable' = [ftable EXCEPT ![ofile[p][d]].ref = @ + 1]
  /\ UNCHANGED <<disk, icache, cwd, th, panicked>>
\* sys_pipe: pipealloc takes a file for each end, or none; kalloc may fail.
Pipe(p) ==
  /\ th[p].pc = "user" /\ calls < MaxCalls /\ [op |-> "pipe"] \in Calls[p]
  /\ FreeFiles # {}
  /\ calls' = calls + 1
  /\ ftable' = [ftable EXCEPT ![Least(FreeFiles)].ref = 1]
  /\ Goto(p, [pc |-> "pipe", rf |-> Least(FreeFiles)])
  /\ UNCHANGED <<disk, icache, ofile, cwd, panicked>>
\* The second file and the descriptors.
PipeFds(p) ==
  LET rf == th[p].rf
      wf == Least(FreeFiles)
      fd0 == Least(FreeFds(p)) IN
  /\ th[p].pc = "pipe"
  /\ \/ /\ ftable' = [ftable EXCEPT ![rf].ref = 0]
        /\ UNCHANGED ofile
     \/ /\ FreeFiles # {} /\ Cardinality(FreeFds(p)) >= 2
        /\ ftable' = [ftable EXCEPT ![rf].type = "pipe", ![wf] = [@ EXCEPT !.ref = 1, !.type = "pipe"]]
        /\ ofile' = [ofile EXCEPT ![p][fd0] = rf, ![p][Least(FreeFds(p) \ {fd0})] = wf]
  /\ Continue(p, "user")
  /\ UNCHANGED <<disk, icache, cwd, panicked, calls>>
\* fileread, filewrite and filestat lock the inode of an open file.
FileIO(p) ==
  /\ th[p].pc = "user" /\ [op |-> "io"] \in Calls[p]
  /\ \E d \in {e \in Argfd(p) : ftable[ofile[p][e]].type = "inode"} : LET s == ftable[ofile[p][d]].ip IN
       /\ CanLock(s)
       /\ IF NoType(s) THEN panicked' = "ilock: no type" /\ UNCHANGED icache
          ELSE icache' = Ilock(s) /\ UNCHANGED panicked
  /\ UNCHANGED <<disk, ftable, ofile, cwd, th, calls>>

-----------------------------------------------------------------------------
(* unlink, link, chdir, chmod *)

UnlinkDp(p) ==
  LET t == th[p]
      ic == Ilock(t.dp)
      found == Dirlookup(t.dp, t.name) IN
  /\ t.pc = "unlink"
  /\ WithLock(p,
     /\ IF t.name \in {".", ".."} \/ found = None
        THEN icache' = ic /\ Drop(p, t.dp, "user", [dp |-> 0])
        ELSE /\ icache' = Iget(Busy(ic, t.dp, p), found)
             /\ Goto(p, [pc |-> "unlink_ip", ip |-> IgetSlot(ic, found)])
     /\ UNCHANGED disk /\ FilesUnchanged)
IsDirEmpty(i) == \A n \in Names : disk[i].ents[n] = None
\* ip is locked under dp: it is removed from dp, or the call fails.
UnlinkIp(p) ==
  LET t == th[p]
      ic == Ilock(t.ip)
      i == icache[t.ip].inum
      k == IF ic[t.ip].type = "dir" THEN 1 ELSE 0 IN
  /\ t.pc = "unlink_ip"
  /\ WithLock(p,
     /\ IF ic[t.ip].nlink < 1 THEN Panic("unlink: nlink < 1")
        ELSE /\ IF k = 1 /\ ~IsDirEmpty(i)
                THEN /\ icache' = ic /\ UNCHANGED disk
                     /\ Drop(p, t.ip, "unlink_bad", [ip |-> 0])
                ELSE /\ disk' = [disk EXCEPT ![icache[t.dp].inum] =
                                  [@ EXCEPT !.ents[t.name] = None, !.nlink = @ - k]]
                     /\ icache' = Relink(Busy(Busy(ic, t.ip, p), t.dp, None), t.dp, -k)
                     /\ Drop(p, t.dp, "unlink_end", [dp |-> 0])
             /\ FilesUnchanged)
UnlinkBadBusy(p) ==   \* mutant: dp stays locked
  /\ th[p].pc = "unlink_bad"
  /\ Drop(p, th[p].dp, "user", [dp |-> 0])
  /\ UNCHANGED <<disk, icache>> /\ FilesUnchanged
UnlinkBad(p) ==
  /\ th[p].pc = "unlink_bad"
  /\ icache' = Busy(icache, th[p].dp, None)
  /\ Drop(p, th[p].dp, "user", [dp |-> 0])
  /\ UNCHANGED disk /\ FilesUnchanged
UnlinkEnd(p) ==
  LET s == th[p].ip IN
  /\ th[p].pc = "unlink_end"
  /\ disk' = Iupdate(disk, s, -1)
  /\ icache' = Relink(Busy(icache, s, None), s, -1)
  /\ Drop(p, s, "user", [ip |-> 0])
  /\ FilesUnchanged

LinkIpDirs(p) ==   \* mutant: a directory gets a second name
  LET t == th[p] IN
  /\ t.pc = "link"
  /\ WithLock(p,
     /\ disk' = Iupdate(disk, t.ip, 1)
     /\ icache' = WalkRef(p, t.call.newabs, Relink(Ilock(t.ip), t.ip, 1))
     /\ Goto(p, [pc |-> "namex", parent |-> TRUE, path |-> t.call.new, old |-> t.ip,
                 ip |-> WalkSlot(p, t.call.newabs)])
     /\ FilesUnchanged)
\* sys_link counts the new link before it looks for its place.
LinkIp(p) ==
  LET t == th[p]
      ic == Ilock(t.ip) IN
  /\ t.pc = "link"
  /\ WithLock(p,
     /\ IF ic[t.ip].type = "dir"
        THEN icache' = ic /\ Drop(p, t.ip, "user", [ip |-> 0]) /\ UNCHANGED disk
        ELSE /\ disk' = Iupdate(disk, t.ip, 1)
             /\ icache' = WalkRef(p, t.call.newabs, Relink(ic, t.ip, 1))
             /\ Goto(p, [pc |-> "namex", parent |-> TRUE, path |-> t.call.new, old |-> t.ip,
                         ip |-> WalkSlot(p, t.call.newabs)])
     /\ FilesUnchanged)
\* dirlink() fails if the name exists.
LinkDp(p) ==
  LET t == th[p]
      ic == Ilock(t.dp)
      found == Dirlookup(t.dp, t.name) IN
  /\ t.pc = "link_dp"
  /\ WithLock(p,
     /\ IF found # None
        THEN /\ icache' = Iget(Busy(ic, t.dp, p), found) /\ UNCHANGED disk
             /\ Drop(p, IgetSlot(ic, found), "link_exists", [ip |-> 0])
        ELSE /\ disk' = [disk EXCEPT ![icache[t.dp].inum].ents[t.name] = icache[t.old].inum]
             /\ icache' = ic
             /\ Drop(p, t.dp, "link_end", [dp |-> 0])
     /\ FilesUnchanged)
LinkExists(p) ==
  /\ th[p].pc = "link_exists"
  /\ icache' = Busy(icache, th[p].dp, None)
  /\ Drop(p, th[p].dp, "link_bad", [dp |-> 0])
  /\ UNCHANGED disk /\ FilesUnchanged
LinkBad(p) ==
  LET s == th[p].old IN
  /\ th[p].pc = "link_bad"
  /\ WithLock(p,
     /\ disk' = Iupdate(disk, s, -1)
     /\ icache' = Relink(Ilock(s), s, -1)
     /\ Drop(p, s, "user", [old |-> 0])
     /\ FilesUnchanged)
LinkEnd(p) ==
  /\ th[p].pc = "link_end"
  /\ Drop(p, th[p].old, "user", [old |-> 0])
  /\ UNCHANGED <<disk, icache>> /\ FilesUnchanged

Chdir(p) ==
  LET s == th[p].ip
      ic == Ilock(s) IN
  /\ th[p].pc = "chdir"
  /\ WithLock(p,
     /\ icache' = ic
     /\ IF ic[s].type # "dir" THEN Drop(p, s, "user", [ip |-> 0]) /\ UNCHANGED cwd
        ELSE Drop(p, cwd[p], "user", [ip |-> 0]) /\ cwd' = [cwd EXCEPT ![p] = s]
     /\ UNCHANGED <<disk, ftable, ofile, panicked, calls>>)
\* sys_chmod changes ip->mode, which nothing reads.
Chmod(p) ==
  /\ th[p].pc = "chmod"
  /\ WithLock(p,
     /\ icache' = Ilock(th[p].ip)
     /\ Drop(p, th[p].ip, "user", [ip |-> 0])
     /\ UNCHANGED disk /\ FilesUnchanged)

-----------------------------------------------------------------------------
(* fork and exit *)

\* filedup for every descriptor, and idup for the current directory.
Fork(p, q) ==
  /\ th[p].pc = "user" /\ th[q].pc = "none" /\ calls < MaxCalls /\ [op |-> "fork"] \in Calls[p]
  /\ calls' = calls + 1
  /\ ofile' = [ofile EXCEPT ![q] = ofile[p]]
  /\ ftable' = [f \in Files |-> [ftable[f] EXCEPT
                  !.ref = @ + Cardinality({d \in Fds : ofile[p][d] = f})]]
  /\ icache' = Idup(icache, cwd[p])
  /\ cwd' = [cwd EXCEPT ![q] = cwd[p]]
  /\ th' = [th EXCEPT ![q] = Idle("user")]
  /\ UNCHANGED <<disk, panicked>>
\* exit closes the descriptors one after the other, then drops cwd.
ExitCall(p) ==
  /\ th[p].pc = "user" /\ calls < MaxCalls /\ [op |-> "exit"] \in Calls[p]
  /\ calls' = calls + 1
  /\ Goto(p, [pc |-> "exit"])
  /\ UNCHANGED <<disk, icache, ftable, ofile, cwd, panicked>>
Exit(p) ==
  /\ th[p].pc = "exit"
  /\ IF FreeFds(p) # Fds
     THEN Fileclose(p, Least(Argfd(p)), "exit") /\ UNCHANGED cwd
     ELSE /\ Drop(p, cwd[p], "none", [ip |-> 0])
          /\ cwd' = [cwd EXCEPT ![p] = 0]
          /\ UNCHANGED <<ftable, ofile>>
  /\ UNCHANGED <<disk, icache, panicked, calls>>

Thread(p) ==
  \/ Namex(p) \/ Iput(p) \/ IputFree(p) \/ IputEnd(p)
  \/ CreateDp(p) \/ CreateFound(p) \/ CreateIp(p) \/ Made(p) \/ OpenCreated(p) \/ Open(p)
  \/ UnlinkDp(p) \/ UnlinkIp(p) \/ UnlinkBad(p) \/ UnlinkEnd(p)
  \/ LinkIp(p) \/ LinkDp(p) \/ LinkExists(p) \/ LinkBad(p) \/ LinkEnd(p)
  \/ Chdir(p) \/ Chmod(p) \/ PipeFds(p) \/ Exit(p)
User(p) ==
  \/ \E c \in Calls[p] : Call(p, c)
  \/ Close(p) \/ Dup(p) \/ Pipe(p) \/ FileIO(p) \/ ExitCall(p)
  \/ \E q \in Procs : Fork(p, q)
Next == panicked = "" /\ \E p \in Procs : Thread(p) \/ User(p)
Spec == Init /\ [][Next]_vars

-----------------------------------------------------------------------------
(* Properties *)

\* fs.c:122-127: ref counts exactly the pointers to the slot: those of system
\* calls in progress (namex's cursor, the other locals, the argument of iput), of
\* current directories and of open files; and a file's ref its descriptors.
RefsExact ==
  /\ \A s \in Slots :
       icache[s].ref = Cardinality({x \in Procs \X {"ip", "dp", "old", "put"} : th[x[1]][x[2]] = s})
         + Cardinality({p \in Procs : cwd[p] = s})
         + Cardinality({f \in Files : ftable[f].type = "inode" /\ ftable[f].ip = s})
  /\ \A f \in Files :
       ftable[f].ref = Cardinality({x \in Procs \X Fds : ofile[x[1]][x[2]] = f})
         + Cardinality({p \in Procs : th[p].rf = f})

\* The assertions of fs.c, file.c and sysfile.c hold: no ilock of a free inode,
\* no iput of a busy one, no unlink below zero links.  Only a full disk panics.
NoPanic == panicked \in {"", "ialloc: no inodes"}

\* fs.c:129-133: an inode has one slot, and what a valid slot that
\* nobody has locked says of it is what the disk says, also when the slot, or
\* the inode while its last iput frees it, is used again.
CacheCoherent ==
  \A s \in Slots : icache[s].ref > 0 =>
    /\ \A t \in Slots \ {s} : icache[t].ref > 0 => icache[t].inum # icache[s].inum
    /\ icache[s].valid /\ icache[s].busy = None =>
         /\ icache[s].type = disk[icache[s].inum].type
         /\ icache[s].nlink = disk[icache[s].inum].nlink

Dirs == {i \in Inums : disk[i].type = "dir"}
NamesOf(i) == {x \in Dirs \X Names : disk[x[1]].ents[x[2]] = i}
\* A name never leads to a free inode, and nlink is never less than the names
\* (and, for a directory, the directories in it) that unlink will count down.
LinksCounted ==
  /\ \A d \in Dirs, n \in Names :
       disk[d].ents[n] # None => disk[disk[d].ents[n]].type # "free"
  /\ \A i \in Inums : disk[i].type # "free" =>
       Cardinality(NamesOf(i)) + Cardinality({n \in Names : disk[i].ents[n] \in Dirs})
         <= disk[i].nlink

\* The directories form a tree: one that has a name has only one, and its ".."
\* is the directory with that name in it.
DirTree ==
  \A i \in Dirs : \A x, y \in NamesOf(i) : x = y /\ disk[i].ents[".."] = x[1]

\* fs.c:319-320: an inode without links stays allocated only while somebody has a
\* pointer to it, so the last iput frees it; and what an open file or a current
\* directory refers to is allocated.
UnlinkedAreHeld ==
  /\ \A i \in Inums : disk[i].type # "free" /\ disk[i].nlink = 0 => Cached(icache, i) # {}
  /\ \A s \in Slots :
       (s \in {cwd[p] : p \in Procs} \/ \E f \in Files : ftable[f].type = "inode" /\ ftable[f].ip = s)
         => disk[icache[s].inum].type # "free"

\* No circle of threads that each wait in ilock for an inode the next one holds
\* (unlink and create lock a parent and then its child).
NoDeadlock ==
  \A S \in SUBSET Procs \ {{}} :
    \E p \in S : Want(p) = 0 \/ icache[Want(p)].busy \notin S
=============================================================================
