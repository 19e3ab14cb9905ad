----------------------------- MODULE DiskImage ------------------------------
(***************************************************************************)
(* A disk image as its three writers read it: the kernel (fs.c), the host  *)
(* library of opfs (libfs.c) and mkfs (mkfs.c).  An image s has            *)
(*   s.ino   inum -> type, nlink, size, addrs                              *)
(*   s.used  the blocks whose bitmap bit is set                            *)
(*   s.blk   block -> offset -> unit                                       *)
(* A unit is a byte of a file, a directory entry or a block number, all of *)
(* one size: [n |-> name or byte, i |-> inode or block number].            *)
(* A path is a sequence of names; a trailing slash is a last name "".      *)
(***************************************************************************)
EXTENDS Integers, Sequences, FiniteSets

CONSTANTS NINODES,              \* sb.ninodes
          NMETA, NBLOCKS, NLOG, \* boot, super, inode and bitmap blocks; data blocks; log
          BSIZE,                \* units in a block
          NDIRECT               \* direct blocks of an inode

ASSUME DiskImageAssumption ==
  /\ NINODES \in Nat /\ NINODES > 1 /\ NMETA \in Nat \ {0} /\ NBLOCKS \in Nat /\ NLOG \in Nat
  /\ BSIZE \in Nat \ {0} /\ NDIRECT \in Nat \ {0}

MAXFILE == NDIRECT + BSIZE           \* NINDIRECT is BSIZE units
SIZE == NMETA + NBLOCKS + NLOG       \* sb.size
Inums == 1..NINODES-1
Root == 1                            \* ROOTINO
Blocks == 0..SIZE-1
Least(S) == CHOOSE x \in S : \A y \in S : x <= y
LeastOr0(S) == IF S = {} THEN 0 ELSE Least(S)

Zero == [n |-> "", i |-> 0]
ZeroBlock == [o \in 0..BSIZE-1 |-> Zero]
NoInode == [type |-> "free", nlink |-> 0, size |-> 0, addrs |-> [k \in 0..NDIRECT |-> 0]]
Blank == [ino |-> [i \in Inums |-> NoInode], used |-> {}, blk |-> [b \in Blocks |-> ZeroBlock]]

-----------------------------------------------------------------------------
(* Blocks and inodes *)

ValidDataBlock(b) == b \in NMETA..NMETA+NBLOCKS-1
\* The block that balloc finds and the inode that ialloc finds, 0 if none.
FreeBlock(s) == LeastOr0(Blocks \ s.used)
FreeInode(s) == LeastOr0({i \in Inums : s.ino[i].type = "free"})

\* The n-th block of inode i, 0 if it has none; n = MAXFILE for the indirect block.
Addr(s, i, n) ==
  LET a == s.ino[i].addrs IN
  IF n < NDIRECT THEN a[n]
  ELSE IF n = MAXFILE \/ a[NDIRECT] = 0 THEN a[NDIRECT] ELSE s.blk[a[NDIRECT]][n - NDIRECT].i
CanWrite(s, i, off, n) ==
  s.ino[i].type # "dev" /\ off <= s.ino[i].size /\ off + n <= MAXFILE * BSIZE
Unit(s, i, off) ==
  IF Addr(s, i, off \div BSIZE) = 0 THEN Zero ELSE s.blk[Addr(s, i, off \div BSIZE)][off % BSIZE]
Contents(s, i) == [k \in 1..s.ino[i].size |-> Unit(s, i, k - 1)]

Divfloor(x, y) == x \div y                         \* mutant of Divceil
Divceil(x, y) == IF x = 0 THEN 0 ELSE (x - 1) \div y + 1
\* What is listed by the inode: fs.c frees that, whatever the size.
Listed(s, i) == {n \in 0..MAXFILE : Addr(s, i, n) # 0}
\* libfs.c frees the blocks that the size needs.
Needed(s, i) ==
  LET n == Divceil(s.ino[i].size, BSIZE) IN (0..n-1) \cup (IF n > NDIRECT THEN {MAXFILE} ELSE {})

-----------------------------------------------------------------------------
(* Directories and paths *)

IsDir(s, i) == i # 0 /\ s.ino[i].type = "dir"
IsFile(s, i) == i # 0 /\ s.ino[i].type = "file"
\* The first entry with the name, counted from 1, and its inode; 0 if none.
Where(s, i, name) == LeastOr0({k \in 1..s.ino[i].size : Unit(s, i, k - 1).n = name})
Dirlookup(s, i, name) == LET k == Where(s, i, name) IN IF k = 0 THEN 0 ELSE Unit(s, i, k - 1).i
\* The offset where dirlink and daddent put a new entry.
FreeSlot(s, i) ==
  LET k == LeastOr0({k \in 1..s.ino[i].size : Unit(s, i, k - 1).i = 0}) IN
  IF k = 0 THEN s.ino[i].size ELSE k - 1
Emptydir(s, i) == Cardinality({k \in 1..s.ino[i].size : Unit(s, i, k - 1).i # 0}) = 2

\* ilookup(rp, path): 0 for NULL.
Ilookup(s, rp, path) ==
  LET walk[k \in 0..Len(path)] ==
        IF k = 0 THEN rp
        ELSE IF ~IsDir(s, walk[k-1]) THEN 0
        ELSE IF path[k] = "" THEN walk[k-1] ELSE Dirlookup(s, walk[k-1], path[k])
  IN walk[Len(path)]
\* splitpath: the directory and the base name.
Dname(path) == IF path = <<>> THEN "" ELSE path[Len(path)]
Ddir(path) == IF path = <<>> THEN <<>> ELSE SubSeq(path, 1, Len(path) - 1)
Parent(s, path) == Ilookup(s, Root, Ddir(path))
CanCreat(s, dp, name) == IsDir(s, dp) /\ name # "" /\ Dirlookup(s, dp, name) = 0

-----------------------------------------------------------------------------
(* Who owns what *)

Owned(s, i) == IF s.ino[i].type = "free" THEN {} ELSE {Addr(s, i, n) : n \in Listed(s, i)}
InUse(s) == UNION {Owned(s, i) : i \in Inums}
\* The names of inode i, as directory and place in it.
Names(s, i) ==
  {<<d, k>> \in Inums \X (1..MAXFILE*BSIZE) :
     /\ IsDir(s, d) /\ k <= s.ino[d].size
     /\ Unit(s, d, k - 1).i = i /\ Unit(s, d, k - 1).n # "."}
=============================================================================
