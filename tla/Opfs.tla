-------------------------------- MODULE Opfs --------------------------------
(***************************************************************************)
(* A disk image made by mkfs (mkfs.c), then changed by commands of opfs    *)
(* (opfs.c, libfs.c) and by file system calls of the kernel that boots     *)
(* from it (fs.c, sysfile.c, file.c), in any order, one at a time.         *)
(*                                                                         *)
(* A command decides what to do from the image it finds (its tests and     *)
(* early returns are the guards of its action), and leaves a list of calls *)
(* of the routines below it in todo.  Each of these is an action.  fatal() *)
(* drops the list and leaves the image as it is at that moment (opfs maps  *)
(* the file); derror() is reported and the caller goes on.  A transaction  *)
(* of the kernel that ends in panic() or a crash leaves the image as it    *)
(* was at its start (Log shows that); interleavings of calls are in Inode. *)
(***************************************************************************)
EXTENDS DiskImage, SequencesExt

CONSTANTS Inputs,      \* what mkfs may be given: sequences of [name, data]
          Paths,       \* paths used in commands
          Texts,       \* contents used in commands
          BUFSIZE,     \* units that opfs copies at a time
          CHUNK,       \* units that one transaction of filewrite writes
          MaxCmds      \* bound: commands and calls in one behaviour

VARIABLES img,         \* the image
          who,         \* "mkfs", "opfs" or "kernel"
          todo,        \* calls of the current command that are still to be made
          base,        \* the image when the command or the transaction began
          wrote,       \* the file that the command fills: its inode, its data
          cut,         \* some command of opfs has not done all it had to do
          cmds
vars == <<img, who, todo, base, wrote, cut, cmds>>

Nothing == [ip |-> 0, data |-> <<>>, off |-> 0]
Doing(op) == todo # <<>> /\ todo[1].op = op
Call == todo[1]
Replace(calls) == todo' = calls \o Tail(todo)
Done == todo' = Tail(todo)

-----------------------------------------------------------------------------
(* Blocks: bmap and the loops of iread, iwrite, readi, writei and iappend *)

\* fatal() of opfs.  panic() of the kernel, or a crash.
Fatal ==
  /\ todo' = <<[op |-> "end"]>> /\ cut' = TRUE
  /\ wrote' = [wrote EXCEPT !.off = -1]
  /\ UNCHANGED <<who, base, cmds>>
Panic ==
  /\ img' = base /\ wrote' = Nothing
  /\ todo' = <<[op |-> "end"]>>
  /\ UNCHANGED <<who, base, cut, cmds>>

\* bmap takes one block: for the file itself or, before that, the indirect block.
WithBlock(s, i, n, b) ==
  LET t == [s EXCEPT !.used = @ \cup {b}, !.blk[b] = ZeroBlock] IN
  IF n < NDIRECT THEN [t EXCEPT !.ino[i].addrs[n] = b]
  ELSE IF s.ino[i].addrs[NDIRECT] = 0 THEN [t EXCEPT !.ino[i].addrs[NDIRECT] = b]
  ELSE [t EXCEPT !.blk[s.ino[i].addrs[NDIRECT]][n - NDIRECT].i = b]
Transfer == todo # <<>> /\ Call.op \in {"read", "write"} /\ Call.n > 0
Mapped == Addr(img, Call.i, Call.off \div BSIZE) # 0
Bmap == LET b == FreeBlock(img) IN
  /\ Transfer /\ ~Mapped
  /\ \/ /\ b # 0 /\ (who = "opfs" => ValidDataBlock(b))
        /\ img' = WithBlock(img, Call.i, Call.off \div BSIZE, b)
        /\ UNCHANGED <<who, todo, base, wrote, cut, cmds>>
     \/ /\ who = "opfs" /\ ~ValidDataBlock(b)              \* balloc has set the bit
        /\ img' = [img EXCEPT !.used = IF b = 0 THEN @ ELSE @ \cup {b}]
        /\ Fatal
     \/ who = "kernel" /\ b = 0 /\ Panic

\* One turn of a loop, up to the end of a block; writing sets the size at the end.
Turn == LET h == Call
            m == LeastOr0({h.n, BSIZE - (h.off % BSIZE)})
            b == Addr(img, h.i, h.off \div BSIZE)
            at == h.off % BSIZE
            put == [o \in 0..BSIZE-1 |->
                      IF o \in at..at+m-1 THEN h.d[o - at + 1] ELSE img.blk[b][o]] IN
  /\ Transfer /\ Mapped
  /\ IF h.op = "read" THEN img' = img
     ELSE img' = [img EXCEPT !.blk[b] = put,
                             !.ino[h.i].size = IF m = h.n /\ h.off + m > @ THEN h.off + m ELSE @]
  /\ IF m = h.n THEN Done
     ELSE Replace(<<[h EXCEPT !.off = @ + m, !.n = @ - m, !.d = SubSeq(@, m + 1, Len(@))]>>)
  /\ UNCHANGED <<who, base, wrote, cut, cmds>>
NoTurn == todo # <<>> /\ Call.op \in {"read", "write"} /\ Call.n = 0
          /\ Done /\ UNCHANGED <<img, who, base, wrote, cut, cmds>>

Read(i, n) == [op |-> "read", i |-> i, off |-> 0, n |-> n, d |-> <<>>]
Write(i, off, d) == [op |-> "write", i |-> i, off |-> off, n |-> Len(d), d |-> d]
Entry(name, i) == <<[n |-> name, i |-> i]>>
\* Looking for a name reads up to it: mkfs rounds the size of the root up, past
\* the last block it has allocated when that is full.
Scan(i, name) ==
  LET k == Where(img, i, name) IN Read(i, IF k = 0 THEN img.ino[i].size ELSE k)
Seen(path) == IF path = <<>> THEN <<>> ELSE <<Scan(Root, path[1])>>

-----------------------------------------------------------------------------
(* Inodes and directories *)

\* derror(): the routine returns -1, and its caller goes on.
Derror == img' = img /\ cut' = TRUE /\ Done /\ UNCHANGED <<who, base, wrote, cmds>>
Simply == UNCHANGED <<who, base, wrote, cut, cmds>>

Nlink ==
  /\ Doing("nlink")
  /\ img' = [img EXCEPT !.ino[Call.i].nlink = @ + Call.k] /\ Done /\ Simply
Link(i, k) == [op |-> "nlink", i |-> i, k |-> k]

\* itrunc (fs.c) and itruncate to 0 (libfs.c): the blocks ns of the inode go.
Bfree(s, B) == [s EXCEPT !.used = @ \ B]
WithoutReset(s, i, ns) ==                  \* mutant: addrs is left as it is
  [Bfree(s, {Addr(s, i, n) : n \in ns}) EXCEPT !.ino[i].size = 0]
WithoutSize(s, i, ns) ==                   \* mutant: size is left as it is
  [Bfree(s, {Addr(s, i, n) : n \in ns}) EXCEPT
            !.ino[i].addrs = [k \in 0..NDIRECT |->
               IF (IF k = NDIRECT THEN MAXFILE ELSE k) \in ns THEN 0 ELSE @[k]]]
Without(s, i, ns) ==
  [Bfree(s, {Addr(s, i, n) : n \in ns}) EXCEPT
            !.ino[i].size = 0,
            !.ino[i].addrs = [k \in 0..NDIRECT |->
               IF (IF k = NDIRECT THEN MAXFILE ELSE k) \in ns THEN 0 ELSE @[k]]]
Truncated(s, i) ==
  IF s.ino[i].type = "dev" THEN s
  ELSE Without(s, i, IF who = "kernel" THEN Listed(s, i) ELSE Needed(s, i))
Itruncate == Doing("trunc") /\ img' = Truncated(img, Call.i) /\ Done /\ Simply
Ifree(s, i) == [s EXCEPT !.ino[i].type = "free"]
\* bfree of the kernel panics if the bit is clear.
FreesFree(s, i) == ~(Owned(s, i) \subseteq s.used)
\* The end of iunlink, and iput: an inode without links is freed.
Iput ==
  /\ Doing("iput")
  /\ IF img.ino[Call.i].nlink # 0 THEN img' = img /\ Done /\ Simply
     ELSE IF who = "kernel" /\ FreesFree(img, Call.i) THEN Panic
     ELSE img' = Ifree(Truncated(img, Call.i), Call.i) /\ Done /\ Simply

\* daddent looks for the name only as far as the first empty entry.
Refused(dp, name) == LET off == FreeSlot(img, dp) IN
  (\E k \in 1..off : Unit(img, dp, k - 1).n = name) \/ ~CanWrite(img, dp, off, 1)
DaddentUncounted == LET off == FreeSlot(img, Call.dp) IN          \* mutant: nlink stays
  /\ Doing("daddent")
  /\ IF Refused(Call.dp, Call.name) THEN Derror
     ELSE /\ Replace(<<Write(Call.dp, off, Entry(Call.name, Call.i))>>)
          /\ img' = img /\ Simply
Daddent == LET off == FreeSlot(img, Call.dp) IN
  /\ Doing("daddent")
  /\ IF Refused(Call.dp, Call.name) THEN Derror
     ELSE /\ Replace(<<Write(Call.dp, off, Entry(Call.name, Call.i))>>
                       \o IF Call.name = "." THEN <<>> ELSE <<Link(Call.i, 1)>>)
          /\ img' = img /\ Simply
Add(dp, name, i) == [op |-> "daddent", dp |-> dp, name |-> name, i |-> i]
\* dirlink: create() has looked for the name before, and a full directory panics.
Dirlink == LET off == FreeSlot(img, Call.dp) IN
  /\ Doing("dirlink")
  /\ IF CanWrite(img, Call.dp, off, 1)
     THEN Replace(<<Write(Call.dp, off, Entry(Call.name, Call.i))>>) /\ img' = img /\ Simply
     ELSE Panic

\* iunlink(rp, path).
Iunlink == LET dp == Ilookup(img, Call.rp, Ddir(Call.path))
               name == Dname(Call.path)
               i == Dirlookup(img, dp, name) IN
  /\ Doing("iunlink")
  /\ IF ~IsDir(img, dp) \/ name \in {"", ".", ".."} \/ i = 0 THEN Derror
     ELSE /\ Replace(<<Write(dp, Where(img, dp, name) - 1, <<Zero>>)>>
                     \o (IF IsDir(img, i) /\ Dirlookup(img, i, "..") = dp
                         THEN <<Link(dp, -1)>> ELSE <<>>)
                     \o <<Link(i, -1), [op |-> "iput", i |-> i]>>)
          /\ img' = img /\ Simply
Drop(rp, path) == [op |-> "iunlink", rp |-> rp, path |-> path]

\* dmkparlink: ".." of the directory that was moved.
Dmkparlink ==
  /\ Doing("parlink")
  /\ IF ~IsDir(img, Call.i) THEN Derror
     ELSE /\ Replace(<<Write(Call.i, Where(img, Call.i, "..") - 1, Entry("..", Call.dp)),
                       Link(Call.dp, 1)>>)
          /\ img' = img /\ Simply

\* ialloc, then the names: daddent of libfs.c, dirlink and iupdate of create().
Made(i, type) == [NoInode EXCEPT !.type = type]
Icreat ==
  /\ Doing("icreat")
  /\ LET i == Call.i
         new == [img EXCEPT !.ino[i] = Made(i, Call.type)] IN
     IF i = 0 THEN img' = img /\ Fatal
     ELSE /\ img' = new /\ Simply
          /\ Replace(<<Add(Call.dp, Call.name, i)>>
                     \o IF Call.type = "dir" THEN <<Add(i, ".", i), Add(i, "..", Call.dp)>> ELSE <<>>)
New(dp, name, i, type) == [op |-> "icreat", dp |-> dp, name |-> name, i |-> i, type |-> type]

\* The command is over; a kernel transaction has been committed.
End ==
  /\ Doing("end")
  /\ todo' = <<>> /\ base' = Blank /\ wrote' = Nothing
  /\ UNCHANGED <<img, who, cut, cmds>>

-----------------------------------------------------------------------------
(* mkfs.  Until it writes the bitmap, used stands for the counter freeblock. *)

Mk(i, type) == [op |-> "ialloc", i |-> i, type |-> type]
MkFiles(files) ==                            \* inode k + 1 is freeinode
  FlattenSeq([k \in 1..Len(files) |->
    <<Mk(k + 1, "file"), Write(Root, k + 1, Entry(files[k].name, k + 1)),
      Write(k + 1, 0, files[k].data)>>])
Ialloc ==
  /\ Doing("ialloc")
  /\ img' = [img EXCEPT !.ino[Call.i] = [NoInode EXCEPT !.type = Call.type, !.nlink = 1]]
  /\ Done /\ Simply
\* The size of the root is rounded up, and the bitmap written.
MkfsEnd == LET freeblock == FreeBlock(img) IN
  /\ Doing("mkfs")
  /\ img' = [img EXCEPT !.ino[Root].size = (@ \div BSIZE + 1) * BSIZE, !.used = 0..freeblock-1]
  /\ Done /\ Simply

Init ==
  /\ img = [Blank EXCEPT !.used = 0..NMETA-1] /\ who = "mkfs"
  /\ \E files \in Inputs :
       todo = <<Mk(Root, "dir"), Write(Root, 0, Entry(".", Root)), Write(Root, 1, Entry("..", Root))>>
              \o MkFiles(files) \o <<[op |-> "mkfs"]>>
  /\ base = Blank /\ wrote = Nothing /\ cut = FALSE /\ cmds = 0

-----------------------------------------------------------------------------
(* The commands of opfs.  A command that is refused reads, as Look does. *)

\* The kernel has handed out a log block: what its log does to it is left out.
Spilled(s) == \E b \in InUse(s) : ~ValidDataBlock(b)
Ready == todo = <<>> /\ cmds < MaxCmds /\ ~Spilled(img)
Start(program, calls, ip, data) ==
  /\ who' = program /\ cmds' = cmds + 1
  /\ base' = img
  /\ todo' = calls \o <<[op |-> "end"]>>
  /\ wrote' = [ip |-> ip, data |-> data, off |-> 0]
  /\ UNCHANGED <<img, cut>>
Opfs(calls) == Start("opfs", calls, 0, <<>>)

\* The loops of do_put and do_cp.
Capped(data) == SubSeq(data, 1, LeastOr0({Len(data), MAXFILE * BSIZE}))
Fill(ip, data) ==
  [k \in 1..Divceil(Len(data), BUFSIZE) |->
     Write(ip, (k-1) * BUFSIZE, SubSeq(data, (k-1) * BUFSIZE + 1, LeastOr0({k * BUFSIZE, Len(data)})))]
Trunc(ip) == [op |-> "trunc", i |-> ip]

Put == Ready /\ \E path \in Paths, data \in Texts :
  \E ip \in {Ilookup(img, Root, path)}, dp \in {Parent(img, path)}, new \in {FreeInode(img)} :
    \/ /\ IsFile(img, ip)
       /\ Start("opfs", Seen(path) \o <<Trunc(ip)>> \o Fill(ip, Capped(data)), ip, Capped(data))
    \/ /\ ip = 0 /\ CanCreat(img, dp, Dname(path))
       /\ Start("opfs", Seen(path) \o <<New(dp, Dname(path), new, "file")>> \o Fill(new, Capped(data)),
                new, Capped(data))
\* info, ls and get: ls and get read all of the file.
Look == Ready /\ \E path \in Paths : \E ip \in {Ilookup(img, Root, path)} :
  \/ Opfs(Seen(path))
  \/ ip # 0 /\ Opfs(Seen(path) \o <<Read(ip, img.ino[ip].size)>>)
Rm == Ready /\ \E path \in Paths : \E ip \in {Ilookup(img, Root, path)} :
  /\ ip # 0 /\ ~IsDir(img, ip)
  /\ Opfs(Seen(path) \o <<Drop(Root, path)>>)
Mkdir == Ready /\ \E path \in Paths : \E dp \in {Parent(img, path)} :
  /\ Ilookup(img, Root, path) = 0 /\ CanCreat(img, dp, Dname(path))
  /\ Opfs(Seen(path) \o <<New(dp, Dname(path), FreeInode(img), "dir")>>)
Rmdir == Ready /\ \E path \in Paths : \E ip \in {Ilookup(img, Root, path)} :
  /\ IsDir(img, ip) /\ Emptydir(img, ip) /\ Dname(path) # ""
  /\ Opfs(Seen(path) \o <<Read(ip, img.ino[ip].size), Drop(Root, path)>>)

\* cp, mv and ln into a directory keep the name.
Target(dip, spath, dpath) ==
  IF IsDir(img, dip) THEN <<dip, Dname(spath)>> ELSE <<Parent(img, dpath), Dname(dpath)>>
Both(spath, dpath, dip) ==
  Seen(spath) \o Seen(dpath) \o IF IsDir(img, dip) THEN <<Scan(dip, Dname(spath))>> ELSE <<>>
Cp == Ready /\ \E spath \in Paths, dpath \in Paths :
  \E sip \in {Ilookup(img, Root, spath)}, dip \in {Ilookup(img, Root, dpath)} :
  \E to \in {Target(dip, spath, dpath)}, new \in {FreeInode(img)} :
    /\ IsFile(img, sip)
    /\ \/ /\ IsFile(img, dip)
          /\ LET data == IF sip = dip THEN <<>> ELSE Contents(img, sip) IN
             Start("opfs", Both(spath, dpath, dip) \o <<Trunc(dip)>> \o Fill(dip, data), dip, data)
       \/ /\ dip = 0 \/ IsDir(img, dip)
          /\ CanCreat(img, to[1], to[2])
          /\ Start("opfs", Both(spath, dpath, dip) \o <<New(to[1], to[2], new, "file")>>
                           \o Fill(new, Contents(img, sip)), new, Contents(img, sip))
Ln == Ready /\ \E spath \in Paths, dpath \in Paths :
  \E sip \in {Ilookup(img, Root, spath)}, dip \in {Parent(img, dpath)} :
  \E ip \in {IF ~IsDir(img, dip) \/ Dname(dpath) = "" THEN 0 ELSE Dirlookup(img, dip, Dname(dpath))} :
  LET in == IF ip = 0 THEN dip ELSE ip
      name == IF ip # 0 \/ Dname(dpath) = "" THEN Dname(spath) ELSE Dname(dpath) IN
    /\ IsFile(img, sip) /\ IsDir(img, dip) /\ (ip # 0 => IsDir(img, ip))
    /\ (Dname(dpath) = "" => Dirlookup(img, dip, name) = 0)
    /\ ~Refused(in, name)
    /\ Opfs(Both(spath, dpath, dip) \o <<Add(in, name, sip)>>)
\* mv: drop what has the new name, link, unlink, and mend "..".  It writes ".."
\* at an uninitialized offset if there is none: that is left out.
Mv == Ready /\ \E spath \in Paths, dpath \in Paths :
  \E sip \in {Ilookup(img, Root, spath)}, dip \in {Ilookup(img, Root, dpath)} :
  \E to \in {Target(dip, spath, dpath)} :
  \E ip \in {IF IsDir(img, dip) THEN Dirlookup(img, dip, to[2]) ELSE dip} :
    /\ sip \notin {0, Root} /\ IsDir(img, to[1])
    /\ IsDir(img, sip) => Where(img, sip, "..") # 0
    /\ dip = 0 => to[2] # ""
    /\ ip # 0 => img.ino[ip].type # "dev" /\ img.ino[ip].type = img.ino[sip].type
    /\ IsDir(img, ip) => Emptydir(img, ip)
    /\ Opfs(Both(spath, dpath, dip)
            \o (IF ip = 0 THEN <<>> ELSE <<Drop(to[1], <<to[2]>>)>>)
            \o <<Add(to[1], to[2], sip), Drop(Root, spath)>>
            \o (IF IsDir(img, sip) THEN <<[op |-> "parlink", dp |-> to[1], i |-> sip]>> ELSE <<>>))

-----------------------------------------------------------------------------
(* System calls.  bmap of the kernel keeps a block that a lookup maps at the *)
(* end of the root in memory only: images with such a hole are left out.     *)

Whole(s) == \A k \in 1..s.ino[Root].size : Addr(s, Root, (k - 1) \div BSIZE) # 0
Kernel(calls) == Start("kernel", calls, 0, <<>>)
\* create(), after it has looked for the name: ialloc and iupdate, then the names.
Created ==
  /\ Doing("create")
  /\ LET i == Call.i
         in(dp, name, j) == [op |-> "dirlink", dp |-> dp, name |-> name, i |-> j] IN
     IF i = 0 THEN Panic
     ELSE /\ img' = [img EXCEPT !.ino[i] = [Made(i, Call.type) EXCEPT !.nlink = 1]] /\ Simply
          /\ Replace((IF Call.type = "dir"
                      THEN <<Link(Call.dp, 1), in(i, ".", i), in(i, "..", Call.dp)>> ELSE <<>>)
                     \o <<in(Call.dp, Call.name, i)>>)
Create == Ready /\ Whole(img) /\ \E path \in Paths, type \in {"file", "dir", "dev"} : \E dp \in {Parent(img, path)} :
  /\ CanCreat(img, dp, Dname(path))
  /\ Kernel(<<[New(dp, Dname(path), FreeInode(img), type) EXCEPT !.op = "create"]>>)
\* filewrite: a transaction for each chunk, until one is past the largest file.
FileWrite == Ready /\ Whole(img) /\ \E path \in Paths, data \in Texts : \E ip \in {Ilookup(img, Root, path)} :
  /\ IsFile(img, ip)
  /\ Kernel([k \in 1..Divceil(Len(data), CHUNK) |->
       [op |-> "chunk", i |-> ip, off |-> (k-1) * CHUNK,
        d |-> SubSeq(data, (k-1) * CHUNK + 1, LeastOr0({k * CHUNK, Len(data)}))]])
Chunk ==
  /\ Doing("chunk")
  /\ IF CanWrite(img, Call.i, Call.off, Len(Call.d))
     THEN /\ Replace(<<Write(Call.i, Call.off, Call.d)>>)
          /\ wrote' = [ip |-> Call.i, data |-> Call.d, off |-> Call.off] /\ base' = img
     ELSE todo' = <<[op |-> "end"]>> /\ UNCHANGED <<wrote, base>>
  /\ UNCHANGED <<img, who, cut, cmds>>
\* sys_unlink, and the iput of what the name stood for.
Unlink == Ready /\ Whole(img) /\ \E path \in Paths : \E dp \in {Parent(img, path)} :
  \E i \in {IF IsDir(img, dp) THEN Dirlookup(img, dp, Dname(path)) ELSE 0} :
  /\ i # 0 /\ Dname(path) \notin {"", ".", ".."}
  /\ IsDir(img, i) => Emptydir(img, i)
  /\ Kernel(<<Write(dp, Where(img, dp, Dname(path)) - 1, <<Zero>>)>>
            \o (IF IsDir(img, i) THEN <<Link(dp, -1)>> ELSE <<>>)
            \o <<Link(i, -1), [op |-> "iput", i |-> i]>>)
\* The machine may stop before the transaction has been committed.
Crash == who = "kernel" /\ todo # <<>> /\ ~Doing("end") /\ Panic

Next ==
  \/ Bmap \/ Turn \/ NoTurn \/ Nlink \/ Itruncate \/ Iput \/ Daddent \/ Dirlink \/ Iunlink
  \/ Dmkparlink \/ Icreat \/ End \/ Ialloc \/ MkfsEnd
  \/ Put \/ Look \/ Rm \/ Mkdir \/ Rmdir \/ Cp \/ Ln \/ Mv
  \/ Create \/ Created \/ FileWrite \/ Chunk \/ Unlink \/ Crash
Spec == Init /\ [][Next]_vars

-----------------------------------------------------------------------------
(* Properties *)

\* No block belongs to two files, or twice to one, and none of the boot, super,
\* inode or bitmap blocks belongs to any: balloc, bmap, iappend and the two
\* routines that truncate agree on what is free, at every step of a command and
\* even after fatal().
BlocksOwnedOnce ==
  LET slots == {<<i, n>> \in Inums \X (0..MAXFILE) : img.ino[i].type # "free" /\ Addr(img, i, n) # 0}
      owned == {Addr(img, x[1], x[2]) : x \in slots} IN
  Cardinality(owned) = Cardinality(slots) /\ owned \subseteq img.used \ (0..NMETA-1)

\* Between commands the bitmap that mkfs wrote and that balloc and bfree have kept
\* marks exactly the metadata and the blocks in use, unless a command was cut
\* short: no block is lost when the kernel removes what opfs wrote or conversely.
Idle == todo = <<>>
BitmapExact == Idle /\ ~cut => img.used = (0..NMETA-1) \cup InUse(img)

\* Between commands nlink counts the names of an inode other than ".", whichever
\* of mkfs, opfs (daddent, iunlink, dmkparlink) and the kernel made them, and an
\* inode without a name is free: each may trust the counts that the others left.
LinksExact ==
  Idle /\ ~cut => \A i \in Inums :
    Cardinality(Names(img, i)) = IF img.ino[i].type = "free" THEN 0 ELSE img.ino[i].nlink

\* A command changes the contents of no file but the one it writes.  That one holds
\* what put or cp was given; after a transaction of filewrite, its chunk over what
\* was there; and after a crash of the kernel, what was there.
ContentsKept ==
  Doing("end") => \A i \in Inums :
    LET old == Contents(base, i)
        new == Contents(img, i)
        end == wrote.off + Len(wrote.data) IN
    IF i # wrote.ip THEN IsFile(base, i) /\ IsFile(img, i) => new = old
    ELSE IF who = "kernel"
    THEN new = SubSeq(old, 1, wrote.off) \o wrote.data \o SubSeq(old, end + 1, Len(old))
    ELSE wrote.off # 0 \/ new = wrote.data

\* A block of a file lies in the data area, which mkfs lays out before the log.
DataInDataArea == \A b \in InUse(img) : ValidDataBlock(b)
=============================================================================
