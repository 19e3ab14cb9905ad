--------------------------- MODULE BufCacheProofs ---------------------------
(***************************************************************************)
(* Proofs about the buffer cache and the disk driver: for any number of    *)
(* processes, buffers, blocks and values of a block.                       *)
(***************************************************************************)
EXTENDS BufCache, TLAPS, SequenceTheorems, NaturalsInduction, WellFoundedInduction

\* Zenon is the prover of a leaf that names none; the leaves that need arithmetic or
\* rewriting of functions name SMT.
USE Zenon

-----------------------------------------------------------------------------
(* The inductive invariant *)

\* Between bget and brelse.
Working == {"bread", "bwrite", "iosleep", "iocheck", "hold"}

Queued(b) == b \in Range(idequeue)

\* A process between bget and brelse has a busy buffer with its block.  One that
\* sleeps in bget sleeps on a busy buffer.
Holding ==
  \A p \in Proc :
    /\ pc[p] \in Working =>
         held[p] \in Bufs /\ "BUSY" \in flags[held[p]] /\ blockno[held[p]] = want[p]
    /\ pc[p] = "bsleep" => held[p] \in Bufs /\ "BUSY" \in flags[held[p]]
    /\ pc[p] \notin {"user", "panic"} => want[p] \in Blocks

\* No two processes have the same buffer.
OneOwner ==
  \A p, q \in Proc : pc[p] \in Working /\ pc[q] \in Working /\ held[p] = held[q] => p = q

\* A busy buffer has an owner.
BusyOwned == \A b \in Bufs : "BUSY" \in flags[b] => \E p \in Proc : pc[p] \in Working /\ held[p] = b

\* No two buffers have the same block.
OneBuffer == \A a, b \in Bufs : blockno[a] = blockno[b] /\ blockno[a] # NoBlock => a = b

\* B_VALID and B_DIRTY at each stage of an owner's way, and whether its buffer is
\* in the disk's queue.
Stages ==
  \A p \in Proc :
    /\ pc[p] = "bread" =>
         "VALID" \notin flags[held[p]] /\ "DIRTY" \notin flags[held[p]] /\ ~Queued(held[p])
    /\ pc[p] = "bwrite" =>
         "VALID" \in flags[held[p]] /\ "DIRTY" \in flags[held[p]] /\ ~Queued(held[p])
    /\ pc[p] = "iosleep" =>
         ("VALID" \in flags[held[p]] <=> "DIRTY" \in flags[held[p]]) /\ Queued(held[p])
    /\ pc[p] = "iocheck" =>
         "VALID" \in flags[held[p]] /\ "DIRTY" \notin flags[held[p]] /\ ~Queued(held[p])
    /\ pc[p] = "hold" => "VALID" \in flags[held[p]] /\ ~Queued(held[p])

\* A buffer nobody has is valid if it has a block, and empty if not.
Resting ==
  \A b \in Bufs : "BUSY" \notin flags[b] =>
    IF blockno[b] = NoBlock THEN flags[b] = {} ELSE "VALID" \in flags[b]

\* Who put a buffer in the queue sleeps until it is done.
QueueOwned == \A b \in Bufs : Queued(b) => \E p \in Proc : pc[p] = "iosleep" /\ held[p] = b

\* The controller works for the head of the queue with the data of that buffer;
\* once it has raised its interrupt, what it was to write is on the disk.
Served ==
  /\ idequeue = <<>> => request = NoRequest /\ ~irq
  /\ idequeue # <<>> => request = Idestart(Head(idequeue))
  /\ irq /\ request.write => disk[request.block] = request.val

CacheInv ==
  /\ TypeOK
  /\ Holding
  /\ OneOwner
  /\ BusyOwned
  /\ OneBuffer
  /\ Stages
  /\ Resting
  /\ QueueOwned
  /\ Served
  /\ ~Errors => CleanIsOnDisk

-----------------------------------------------------------------------------
(* The list and the queue *)

\* A set of indices has a largest one.
LEMMA MaxIn ==
  ASSUME NEW n \in Nat, NEW S \in SUBSET (1..n), S # {}
  PROVE  Max(S) \in S
<1> DEFINE T == {n - k : k \in S}
<1>1. T \in SUBSET Nat /\ T # {}
  <2>1. \A k \in S : n - k \in Nat
    BY SMTT(20)
  <2>2. PICK k \in S : TRUE
    OBVIOUS
  <2>3. n - k \in T
    OBVIOUS
  <2>4. QED
    BY <2>1, <2>3
<1>2. \E k \in T : \A j \in T : ~(<<j, k>> \in OpToRel(<, Nat))
  BY <1>1, NatLessThanWellFounded, WFMin
<1>3. ASSUME NEW j \in Nat, NEW k \in Nat, j < k
      PROVE  <<j, k>> \in OpToRel(<, Nat)
  BY <1>3, Zenon DEF OpToRel
<1>4. PICK k \in T : \A j \in T : ~(<<j, k>> \in OpToRel(<, Nat))
  BY <1>2
<1>5. \A j \in T : ~(j < k)
  BY <1>1, <1>3, <1>4, Zenon
<1>6. PICK x \in S : k = n - x
  BY <1>4
<1>7. \A y \in S : x >= y
  <2> TAKE y \in S
  <2>1. n - y \in T
    OBVIOUS
  <2>2. ~(n - y < n - x)
    BY <1>5, <1>6, <2>1
  <2>3. QED
    BY <2>2, SMTT(20)
<1>8. QED
  BY <1>7 DEF Max

\* The elements of a sequence.
LEMMA ElementsOf ==
  ASSUME NEW S, NEW s \in Seq(S)
  PROVE  Range(s) = {s[k] : k \in 1..Len(s)}
BY LenProperties DEF Range

\* bget's search from the end of the list finds a buffer that may be recycled.
LEMMA VictimIn ==
  ASSUME TypeOK, Recyclable # {}
  PROVE  Victim \in Recyclable
<1> DEFINE S == {k \in 1..Len(lru) : lru[k] \in Recyclable}
<1>1. PICK b \in Bufs : b \in Recyclable
  BY DEF Recyclable
<1>2. Len(lru) \in Nat /\ Range(lru) = {lru[k] : k \in 1..Len(lru)} /\ Range(lru) = Bufs
  BY ElementsOf, LenProperties DEF TypeOK
<1>3. S # {}
  BY <1>1, <1>2
<1>4. Max(S) \in S
  BY <1>2, <1>3, MaxIn
<1>5. QED
  BY <1>4 DEF Victim

\* brelse's surgery keeps every buffer in the list, once.
LEMMA MoveKeepsList ==
  ASSUME TypeOK, NEW b \in Bufs
  PROVE  /\ MoveToHead(b) \in Seq(Bufs) /\ Len(MoveToHead(b)) = NBUF
         /\ Range(MoveToHead(b)) = Bufs
<1> DEFINE at == CHOOSE k \in 1..Len(lru) : lru[k] = b
           u == SubSeq(lru, 1, at - 1)
           v == SubSeq(lru, at + 1, Len(lru))
           t == <<b>> \o (u \o v)
<1>1. /\ lru \in Seq(Bufs) /\ Len(lru) = NBUF /\ NBUF \in Nat
      /\ \A k \in 1..NBUF : lru[k] \in Bufs
      /\ \A x \in Bufs : \E k \in 1..NBUF : lru[k] = x
  BY BufCacheAssumption, ElementsOf, ElementOfSeq, SMTT(20) DEF TypeOK
<1>2. at \in 1..NBUF /\ lru[at] = b
  BY <1>1
<1>3. MoveToHead(b) = t
  BY DEF MoveToHead
<1> HIDE DEF at
<1>4. /\ u \in Seq(Bufs) /\ Len(u) = at - 1
      /\ \A k \in 1..(at - 1) : u[k] = lru[k]
  <2>1. \A k \in 1..(at - 1) : lru[k] \in Bufs
    BY <1>1, <1>2, SMTT(20)
  <2>2. /\ u \in Seq(Bufs) /\ Len(u) = IF 1 <= at - 1 THEN at - 1 - 1 + 1 ELSE 0
        /\ \A k \in 1..(at - 1 - 1 + 1) : u[k] = lru[1 + k - 1]
    BY <1>2, <2>1, SubSeqProperties, SMTT(20)
  <2>3. QED
    BY <1>2, <2>2, SMTT(20)
<1>5. /\ v \in Seq(Bufs) /\ Len(v) = NBUF - at
      /\ \A k \in 1..(NBUF - at) : v[k] = lru[at + k]
  <2>1. \A k \in (at + 1)..NBUF : lru[k] \in Bufs
    BY <1>1, <1>2, SMTT(20)
  <2>2. /\ v \in Seq(Bufs) /\ Len(v) = IF at + 1 <= NBUF THEN NBUF - (at + 1) + 1 ELSE 0
        /\ \A k \in 1..(NBUF - (at + 1) + 1) : v[k] = lru[at + 1 + k - 1]
    BY <1>1, <1>2, <2>1, SubSeqProperties, SMTT(20)
  <2>3. QED
    BY <1>1, <1>2, <2>2, SMTT(20)
<1> HIDE DEF u, v
<1>6. /\ u \o v \in Seq(Bufs) /\ Len(u \o v) = NBUF - 1
      /\ \A k \in 1..(NBUF - 1) : (u \o v)[k] = IF k <= at - 1 THEN lru[k] ELSE lru[k + 1]
  <2>1. /\ u \o v \in Seq(Bufs) /\ Len(u \o v) = Len(u) + Len(v)
        /\ \A k \in 1..(Len(u) + Len(v)) :
             (u \o v)[k] = IF k <= Len(u) THEN u[k] ELSE v[k - Len(u)]
    BY <1>4, <1>5, ConcatProperties
  <2>2. Len(u) + Len(v) = NBUF - 1
    BY <1>1, <1>2, <1>4, <1>5, SMTT(20)
  <2>3. ASSUME NEW k \in 1..(NBUF - 1)
        PROVE  (u \o v)[k] = IF k <= at - 1 THEN lru[k] ELSE lru[k + 1]
    <3>1. CASE k <= at - 1
      BY <1>4, <2>1, <2>2, <3>1, SMTT(20)
    <3>2. CASE ~(k <= at - 1)
      <4>1. k - (at - 1) \in 1..(NBUF - at) /\ at + (k - (at - 1)) = k + 1
        BY <1>1, <1>2, <3>2, SMTT(20)
      <4>2. (u \o v)[k] = v[k - (at - 1)]
        BY <1>4, <2>1, <2>2, <3>2
      <4>3. QED
        BY <1>5, <3>2, <4>1, <4>2
    <3>3. QED
      BY <3>1, <3>2
  <2>4. QED
    BY <2>1, <2>2, <2>3
<1>7. <<b>> \in Seq(Bufs) /\ Len(<<b>>) = 1 /\ <<b>>[1] = b
  BY SMTT(20)
<1> DEFINE uv == u \o v
<1>8. uv \in Seq(Bufs) /\ Len(uv) = NBUF - 1
  BY <1>6
<1>9. /\ t \in Seq(Bufs) /\ Len(t) = NBUF /\ t[1] = b
      /\ \A k \in 2..NBUF : t[k] = uv[k - 1]
  <2> HIDE DEF uv
  <2>1. /\ <<b>> \o uv \in Seq(Bufs) /\ Len(<<b>> \o uv) = Len(<<b>>) + Len(uv)
        /\ \A k \in 1..(Len(<<b>>) + Len(uv)) :
              (<<b>> \o uv)[k] = IF k <= Len(<<b>>) THEN <<b>>[k] ELSE uv[k - Len(<<b>>)]
    BY <1>7, <1>8, ConcatProperties
  <2>2. Len(<<b>>) + Len(uv) = NBUF /\ 1 \in 1..NBUF
    BY <1>1, <1>2, <1>7, <1>8, SMTT(20)
  <2>3. t = <<b>> \o uv
    BY DEF uv
  <2> HIDE DEF t
  <2>4. QED
    BY <1>7, <2>1, <2>2, <2>3, SMTT(20)
<1> HIDE DEF t, uv
<1>10. ASSUME NEW x \in Bufs PROVE \E k \in 1..NBUF : t[k] = x
  <2>1. PICK j \in 1..NBUF : lru[j] = x
    BY <1>1
  <2>2. CASE j = at
    BY <1>1, <1>2, <1>9, <2>1, <2>2, SMTT(20)
  <2>3. CASE j < at
    <3>1. j + 1 \in 2..NBUF /\ j \in 1..(NBUF - 1) /\ j <= at - 1 /\ j + 1 - 1 = j
      BY <1>1, <1>2, <2>3, SMTT(20)
    <3>2. t[j + 1] = uv[j] /\ uv[j] = lru[j]
      BY <1>6, <1>9, <3>1, SMTT(20) DEF uv
    <3>3. QED
      BY <1>1, <2>1, <3>1, <3>2, SMTT(20)
  <2>4. CASE j > at
    <3>1. j \in 2..NBUF /\ j - 1 \in 1..(NBUF - 1) /\ ~(j - 1 <= at - 1) /\ j - 1 + 1 = j
      BY <1>1, <1>2, <2>4, SMTT(20)
    <3>2. t[j] = lru[j]
      BY <1>6, <1>9, <3>1 DEF uv
    <3>3. QED
      BY <2>1, <3>2
  <2>5. QED
    BY <1>1, <1>2, <2>2, <2>3, <2>4, SMTT(20)
<1>11. Range(t) = Bufs
  <2>1. Range(t) = {t[k] : k \in 1..NBUF}
    BY <1>9, ElementsOf
  <2>2. \A k \in 1..NBUF : t[k] \in Bufs
    BY <1>9, ElementOfSeq
  <2>3. QED
    BY <1>10, <2>1, <2>2
<1>12. QED
  BY <1>3, <1>9, <1>11

\* iderw puts a buffer at the end of the queue.
LEMMA Enqueue ==
  ASSUME NEW s \in Seq(Bufs), IsInjective(s), NEW b \in Bufs, b \notin Range(s)
  PROVE  /\ Append(s, b) \in Seq(Bufs) /\ IsInjective(Append(s, b)) /\ Append(s, b) # <<>>
         /\ Range(Append(s, b)) = Range(s) \cup {b}
         /\ Head(Append(s, b)) = IF s = <<>> THEN b ELSE Head(s)
<1> DEFINE t == Append(s, b)
           n == Len(s)
<1>1. /\ t \in Seq(Bufs) /\ t # <<>> /\ Len(t) = n + 1 /\ t[n + 1] = b
      /\ \A k \in 1..n : t[k] = s[k]
  BY AppendProperties, SMTT(20)
<1>2. n \in Nat /\ DOMAIN s = 1..n /\ DOMAIN t = 1..(n + 1)
  BY <1>1, LenProperties
<1>3. Range(s) = {s[k] : k \in 1..n} /\ Range(t) = {t[k] : k \in 1..(n + 1)}
  BY <1>2 DEF Range
<1>4. Head(t) = IF s = <<>> THEN b ELSE Head(s)
  BY HeadTailAppend
<1> HIDE DEF t, n
<1>5. 1..(n + 1) = 1..n \cup {n + 1}
  BY <1>2, SMTT(20)
<1>6. Range(t) = Range(s) \cup {b}
  BY <1>1, <1>3, <1>5, SMTT(20)
<1>7. IsInjective(t)
  BY <1>1, <1>2, <1>3, <1>5, SMTT(20) DEF IsInjective
<1>8. QED
  BY <1>1, <1>4, <1>6, <1>7 DEF t

\* ideintr takes the first one off.
LEMMA Dequeue ==
  ASSUME NEW s \in Seq(Bufs), IsInjective(s), s # <<>>
  PROVE  /\ Head(s) \in Bufs /\ Head(s) \in Range(s)
         /\ Tail(s) \in Seq(Bufs) /\ IsInjective(Tail(s))
         /\ Range(Tail(s)) = Range(s) \ {Head(s)}
         /\ Tail(s) # <<>> => Head(Tail(s)) \in Range(s) \ {Head(s)}
<1> DEFINE t == Tail(s)
           n == Len(s)
<1>1. /\ Head(s) \in Bufs /\ t \in Seq(Bufs) /\ Len(t) = n - 1
      /\ \A k \in 1..(n - 1) : t[k] = s[k + 1]
  BY HeadTailProperties
<1>2. n \in Nat \ {0} /\ DOMAIN s = 1..n
  BY LenProperties, EmptySeq
<1>3. DOMAIN t = 1..(n - 1)
  BY <1>1, LenProperties
<1>4. Head(s) = s[1]
  BY <1>2, SMTT(20)
<1>5. Range(s) = {s[k] : k \in 1..n} /\ Range(t) = {t[k] : k \in 1..(n - 1)}
  BY <1>2, <1>3 DEF Range
<1>6. t # <<>> => 1 \in 1..(n - 1) /\ Head(t) = t[1]
  BY <1>1, <1>2, EmptySeq, SMTT(20)
<1> HIDE DEF t, n
<1>7. ASSUME NEW x PROVE x \in Range(t) <=> x \in Range(s) /\ x # s[1]
  <2>1. ASSUME NEW k \in 1..(n - 1), x = t[k] PROVE x \in Range(s) /\ x # s[1]
    <3>1. k + 1 \in 1..n /\ k + 1 # 1 /\ 1 \in 1..n
      BY <1>2, SMTT(20)
    <3>2. x = s[k + 1]
      BY <1>1, <2>1
    <3>3. s[k + 1] # s[1]
      BY <1>2, <3>1 DEF IsInjective
    <3>4. QED
      BY <1>5, <3>1, <3>2, <3>3
  <2>2. ASSUME NEW k \in 1..n, x = s[k], x # s[1] PROVE x \in Range(t)
    <3>1. k - 1 \in 1..(n - 1) /\ k - 1 + 1 = k
      BY <1>2, <2>2, SMTT(20)
    <3>2. QED
      BY <1>1, <1>5, <2>2, <3>1
  <2>3. QED
    BY <1>5, <2>1, <2>2
<1>8. Range(t) = Range(s) \ {Head(s)}
  BY <1>4, <1>7
<1>9. IsInjective(t)
  <2> SUFFICES ASSUME NEW a \in 1..(n - 1), NEW c \in 1..(n - 1), t[a] = t[c] PROVE a = c
    BY <1>3 DEF IsInjective
  <2>1. a + 1 \in 1..n /\ c + 1 \in 1..n /\ s[a + 1] = s[c + 1]
    BY <1>1, <1>2, SMTT(20)
  <2>2. a + 1 = c + 1
    BY <1>2, <2>1 DEF IsInjective
  <2>3. QED
    BY <1>2, <2>2, SMTT(20)
<1>10. Head(s) \in Range(s)
  BY <1>2, <1>4, <1>5, SMTT(20)
<1>11. t # <<>> => Head(t) \in Range(t)
  BY <1>5, <1>6
<1>12. QED
  BY <1>1, <1>8, <1>9, <1>10, <1>11 DEF t

-----------------------------------------------------------------------------
(* Steps *)

\* The flags of one buffer change.
LEMMA FlagsAt ==
  ASSUME TypeOK, NEW b \in Bufs, NEW F \in SUBSET Flags, flags' = [flags EXCEPT ![b] = F]
  PROVE  /\ flags' \in [Bufs -> SUBSET Flags] /\ flags'[b] = F
         /\ \A c \in Bufs \ {b} : flags'[c] = flags[c]
BY DEF TypeOK

\* The pc of one process changes.
LEMMA PcAt ==
  ASSUME TypeOK, NEW p \in Proc, NEW to \in PCs, pc' = [pc EXCEPT ![p] = to]
  PROVE  pc' \in [Proc -> PCs] /\ pc'[p] = to /\ \A q \in Proc \ {p} : pc'[q] = pc[q]
BY DEF TypeOK

\* A valid buffer with nothing to write.
LEMMA CleanIs ==
  ASSUME NEW F
  PROVE  F \cap {"VALID", "DIRTY"} = {"VALID"} <=> "VALID" \in F /\ "DIRTY" \notin F
<1>1. ASSUME F \cap {"VALID", "DIRTY"} = {"VALID"} PROVE "VALID" \in F /\ "DIRTY" \notin F
  <2>1. \A x : x \in F /\ x \in {"VALID", "DIRTY"} <=> x = "VALID"
    BY <1>1
  <2>2. QED
    BY <2>1, SMTT(20)
<1>2. ASSUME "VALID" \in F, "DIRTY" \notin F PROVE F \cap {"VALID", "DIRTY"} = {"VALID"}
  BY <1>2
<1>3. QED
  BY <1>1, <1>2

\* What the invariant says of a buffer in the queue and of an owner.
LEMMA QueueFacts ==
  ASSUME CacheInv
  PROVE  /\ \A b \in Bufs : Queued(b) => "BUSY" \in flags[b] /\ blockno[b] \in Blocks
         /\ \A p \in Proc : pc[p] \in Working \ {"iosleep"} => ~Queued(held[p])
         /\ \A b : Queued(b) => b \in Bufs
         /\ idequeue # <<>> => Head(idequeue) \in Bufs /\ Queued(Head(idequeue))
         /\ idequeue = <<>> => \A b : ~Queued(b)
<1>1. idequeue \in Seq(Bufs) /\ IsInjective(idequeue)
  BY DEF CacheInv, TypeOK
<1>2. \A b \in Bufs : Queued(b) => "BUSY" \in flags[b] /\ blockno[b] \in Blocks
  BY ZenonT(30) DEF CacheInv, QueueOwned, Holding, Working
<1>3. \A p \in Proc : pc[p] \in Working \ {"iosleep"} => ~Queued(held[p])
  BY DEF CacheInv, Stages, Working
<1>4. \A b : Queued(b) => b \in Bufs
  <2>1. \A k \in 1..Len(idequeue) : idequeue[k] \in Bufs
    BY <1>1, ElementOfSeq
  <2>2. QED
    BY <1>1, <2>1, ElementsOf, SMTT(20) DEF Queued
<1>5. idequeue # <<>> => Head(idequeue) \in Bufs /\ Queued(Head(idequeue))
  BY <1>1, Dequeue DEF Queued
<1>6. ASSUME idequeue = <<>> PROVE \A b : ~Queued(b)
  <2>1. Len(idequeue) = 0
    BY <1>6
  <2>2. Range(idequeue) = {idequeue[k] : k \in 1..Len(idequeue)}
    BY <1>1, ElementsOf
  <2>3. QED
    BY <2>1, <2>2, SMTT(20) DEF Queued
<1>7. QED
  BY <1>2, <1>3, <1>4, <1>5, <1>6

Same(b) == flags'[b] = flags[b] /\ blockno'[b] = blockno[b] /\ data'[b] = data[b]

\* A step that leaves the driver, the disk and what is in the queue alone.
LEMMA ServedStays ==
  ASSUME CacheInv, UNCHANGED <<idequeue, request, irq, disk>>,
         \A b \in Bufs : Queued(b) => Same(b)
  PROVE  Served' /\ \A b : Queued(b)' <=> Queued(b)
<1>1. \A b : Queued(b)' <=> Queued(b)
  BY DEF Queued, Range
<1>2. CASE idequeue = <<>>
  BY <1>1, <1>2 DEF CacheInv, Served
<1>3. CASE idequeue # <<>>
  <2>1. Same(Head(idequeue))
    BY <1>3, QueueFacts
  <2>2. Idestart(Head(idequeue))' = Idestart(Head(idequeue))
    BY <2>1 DEF Idestart, Same
  <2>3. QED
    BY <1>1, <1>3, <2>2 DEF CacheInv, Served
<1>4. QED
  BY <1>1, <1>2, <1>3

\* A step of p that touches no buffer and leaves its own.
LEMMA ProcStep ==
  ASSUME CacheInv, NEW p \in Proc, TypeOK',
         UNCHANGED <<flags, blockno, data, idequeue, request, irq, disk>>,
         \A q \in Proc \ {p} : pc'[q] = pc[q] /\ held'[q] = held[q] /\ want'[q] = want[q],
         pc[p] # "iosleep", pc'[p] # "iosleep",
         pc'[p] \in Working <=> pc[p] \in Working,
         pc[p] \in Working => held'[p] = held[p] /\ want'[p] = want[p] /\ pc'[p] \in {pc[p], "hold"},
         pc'[p] = "hold" => pc[p] \in {"hold", "iocheck"},
         pc'[p] = "bsleep" => held'[p] \in Bufs /\ "BUSY" \in flags[held'[p]],
         pc'[p] \notin {"user", "panic"} => want'[p] \in Blocks
  PROVE  CacheInv'
<1>1. Served' /\ \A b : Queued(b)' <=> Queued(b)
  BY ServedStays DEF Same
<1>2. Holding'
  BY ZenonT(30) DEF CacheInv, Holding
<1>3. OneOwner'
  BY ZenonT(30) DEF CacheInv, OneOwner
<1>4. BusyOwned'
  BY DEF CacheInv, BusyOwned
<1>5. OneBuffer' /\ Resting'
  BY DEF CacheInv, OneBuffer, Resting
<1>6. Stages'
  BY <1>1, SMTT(20) DEF CacheInv, Stages, Working
<1>7. QueueOwned'
  BY <1>1, ZenonT(30) DEF CacheInv, QueueOwned
<1>8. ~Errors => CleanIsOnDisk'
  BY DEF CacheInv, CleanIsOnDisk
<1>9. QED
  BY <1>1, <1>2, <1>3, <1>4, <1>5, <1>6, <1>7, <1>8 DEF CacheInv

\* A step of p that takes, changes or gives up one buffer, which is not in the
\* queue and nobody else's.
LEMMA BufStep ==
  ASSUME CacheInv, NEW p \in Proc, NEW b \in Bufs, TypeOK',
         UNCHANGED <<idequeue, request, irq, disk>>,
         \A c \in Bufs \ {b} : Same(c),
         ~Queued(b),
         \A q \in Proc \ {p} :
           /\ held'[q] = held[q] /\ want'[q] = want[q]
           /\ \/ pc'[q] = pc[q] /\ (pc[q] = "bsleep" /\ held[q] = b => "BUSY" \in flags'[b])
              \/ pc[q] = "bsleep" /\ pc'[q] = "bget"
           /\ pc[q] \in Working => held[q] # b,
         pc[p] # "iosleep", pc'[p] \notin {"iosleep", "bsleep", "bget"},
         pc[p] \in Working => held[p] = b,
         pc'[p] \in Working <=> "BUSY" \in flags'[b],
         pc'[p] \in Working => held'[p] = b /\ blockno'[b] = want'[p] /\ want'[p] \in Blocks,
         pc'[p] = "bread" => "VALID" \notin flags'[b] /\ "DIRTY" \notin flags'[b],
         pc'[p] = "bwrite" => "VALID" \in flags'[b] /\ "DIRTY" \in flags'[b],
         pc'[p] = "iocheck" => "VALID" \in flags'[b] /\ "DIRTY" \notin flags'[b],
         pc'[p] = "hold" => "VALID" \in flags'[b],
         "BUSY" \notin flags'[b] => blockno'[b] # NoBlock /\ "VALID" \in flags'[b],
         OneBuffer',
         ~Errors /\ "VALID" \in flags'[b] /\ "DIRTY" \notin flags'[b] => data'[b] = disk[blockno'[b]]
  PROVE  CacheInv'
<1>1. Served' /\ \A c : Queued(c)' <=> Queued(c)
  BY ServedStays
<1>2. \A q \in Proc \ {p} :
        /\ pc'[q] \in Working <=> pc[q] \in Working
        /\ pc'[q] \in Working => pc'[q] = pc[q] /\ held[q] \in Bufs \ {b}
  BY DEF Working, CacheInv, Holding
<1>3. Holding'
  <2>1. ASSUME NEW q \in Proc \ {p}
        PROVE  /\ pc'[q] \in Working =>
                    held'[q] \in Bufs /\ "BUSY" \in flags'[held'[q]] /\ blockno'[held'[q]] = want'[q]
               /\ pc'[q] = "bsleep" => held'[q] \in Bufs /\ "BUSY" \in flags'[held'[q]]
               /\ pc'[q] \notin {"user", "panic"} => want'[q] \in Blocks
    <3>1. CASE pc'[q] \in Working
      BY <1>2, <2>1, <3>1, SMTT(20) DEF CacheInv, Holding, Same, Working
    <3>2. CASE pc'[q] = "bsleep"
      BY <2>1, <3>2, SMTT(20) DEF CacheInv, Holding, Same, Working
    <3>3. pc'[q] \notin {"user", "panic"} => want'[q] \in Blocks
      BY <2>1 DEF CacheInv, Holding
    <3>4. QED
      BY <3>1, <3>2, <3>3
  <2>2. pc'[p] \in PCs
    BY DEF TypeOK
  <2>3. pc'[p] \in Working \/ pc'[p] \in {"user", "panic"}
    BY <2>2 DEF PCs, Working
  <2>4. QED
    BY <2>1, <2>3 DEF Holding, Working
<1>4. OneOwner'
  BY <1>2, SMTT(20) DEF CacheInv, OneOwner
<1>5. BusyOwned'
  <2> SUFFICES ASSUME NEW c \in Bufs, "BUSY" \in flags'[c]
               PROVE  \E q \in Proc : pc'[q] \in Working /\ held'[q] = c
    BY DEF BusyOwned
  <2>1. CASE c = b
    BY <2>1
  <2>2. CASE c # b
    <3>1. PICK q \in Proc : pc[q] \in Working /\ held[q] = c
      BY <2>2 DEF CacheInv, BusyOwned, Same
    <3>2. q # p
      BY <2>2, <3>1
    <3>3. QED
      BY <1>2, <3>1, <3>2
  <2>3. QED
    BY <2>1, <2>2
<1>6. Stages'
  <2>1. ASSUME NEW q \in Proc \ {p}, pc'[q] \in Working
        PROVE  /\ pc'[q] = pc[q] /\ held'[q] = held[q] /\ flags'[held[q]] = flags[held[q]]
               /\ Queued(held[q])' <=> Queued(held[q])
    BY <1>1, <1>2, <2>1 DEF Same
  <2>2. QED
    BY <1>1, <2>1, SMTT(20) DEF CacheInv, Stages, Working
<1>7. Resting'
  BY DEF CacheInv, Resting, Same
<1>8. QueueOwned'
  <2> SUFFICES ASSUME NEW c \in Bufs, Queued(c)
               PROVE  \E q \in Proc : pc'[q] = "iosleep" /\ held'[q] = c
    BY <1>1 DEF QueueOwned
  <2>1. PICK q \in Proc : pc[q] = "iosleep" /\ held[q] = c
    BY DEF CacheInv, QueueOwned
  <2>2. QED
    BY <2>1
<1>9. ~Errors => CleanIsOnDisk'
  <2> SUFFICES ASSUME ~Errors, NEW c \in Bufs, flags'[c] \cap {"VALID", "DIRTY"} = {"VALID"}
               PROVE  data'[c] = disk[blockno'[c]]
    BY DEF CleanIsOnDisk
  <2>1. CASE c = b
    BY <2>1, CleanIs
  <2>2. CASE c # b
    BY <2>2 DEF CacheInv, CleanIsOnDisk, Same
  <2>3. QED
    BY <2>1, <2>2
<1>10. QED
  BY <1>1, <1>3, <1>4, <1>5, <1>6, <1>7, <1>8, <1>9 DEF CacheInv

\* The initial state: nothing cached, nothing queued.
LEMMA InitInv == Init => CacheInv
<1> SUFFICES ASSUME Init PROVE CacheInv
  OBVIOUS
<1>1. lru \in Seq(Bufs) /\ Len(lru) = NBUF /\ Range(lru) = Bufs
  <2>1. NBUF \in Nat
    BY BufCacheAssumption
  <2>2. \A k \in 1..NBUF : NBUF + 1 - k \in 1..NBUF
    BY <2>1, SMTT(20)
  <2>3. lru \in [1..NBUF -> Bufs]
    BY <2>2 DEF Init, Bufs
  <2>4. lru \in Seq(Bufs) /\ Len(lru) = NBUF
    BY <2>1, <2>3, SeqDef, SMTT(20)
  <2>5. Range(lru) = {lru[k] : k \in 1..NBUF}
    BY <2>4, ElementsOf
  <2>6. ASSUME NEW x \in Bufs PROVE \E k \in 1..NBUF : lru[k] = x
    <3>1. NBUF + 1 - x \in 1..NBUF /\ NBUF + 1 - (NBUF + 1 - x) = x
      BY <2>1, SMTT(20) DEF Bufs
    <3>2. lru[NBUF + 1 - x] = x
      BY <3>1 DEF Init
    <3>3. QED
      BY <3>1, <3>2
  <2>7. \A k \in 1..NBUF : lru[k] \in Bufs
    BY <2>3
  <2>8. QED
    BY <2>4, <2>5, <2>6, <2>7, SMTT(20)
<1>2. idequeue \in Seq(Bufs) /\ IsInjective(idequeue) /\ \A b : ~Queued(b)
  BY EmptySeq, SMTT(20) DEF Init, IsInjective, Queued, Range
<1>3. TypeOK
  BY <1>1, <1>2 DEF Init, TypeOK, PCs
<1>4. Holding /\ OneOwner /\ BusyOwned /\ OneBuffer
  BY DEF Init, Holding, OneOwner, BusyOwned, OneBuffer, Working
<1>5. Stages /\ Resting /\ QueueOwned
  BY <1>2 DEF Init, Stages, Resting, QueueOwned
<1>6. Served
  BY DEF Init, Served
<1>7. CleanIsOnDisk
  BY DEF Init, CleanIsOnDisk
<1>8. QED
  BY <1>3, <1>4, <1>5, <1>6, <1>7 DEF CacheInv

\* bread() begins.
LEMMA BreadKeeps ==
  ASSUME CacheInv, NEW p \in Proc, Bread(p)
  PROVE  CacheInv'
<1>1. PICK k \in Blocks : want' = [want EXCEPT ![p] = k]
  BY DEF Bread
<1>2. /\ pc[p] = "user" /\ pc' = [pc EXCEPT ![p] = "bget"] /\ "bget" \in PCs
      /\ UNCHANGED <<flags, blockno, data, lru, idequeue, request, irq, disk, held>>
  BY DEF Bread, bcache, driver, PCs
<1>3. TypeOK
  BY DEF CacheInv
<1>4. pc' \in [Proc -> PCs] /\ pc'[p] = "bget" /\ \A q \in Proc \ {p} : pc'[q] = pc[q]
  BY <1>2, <1>3, PcAt
<1>5. /\ want' \in [Proc -> Blocks \cup {NoBlock}] /\ want'[p] = k
      /\ \A q \in Proc \ {p} : want'[q] = want[q]
  BY <1>1, <1>3 DEF TypeOK
<1>6. TypeOK'
  BY <1>2, <1>3, <1>4, <1>5, SMTT(20) DEF TypeOK, Range, IsInjective
<1>7. QED
  BY <1>2, <1>4, <1>5, <1>6, ProcStep DEF Working

\* bget finds the buffer busy and sleeps on it.
LEMMA SleepKeeps ==
  ASSUME CacheInv, NEW p \in Proc, BgetSleep(p)
  PROVE  CacheInv'
<1>1. PICK b \in Bufs : "BUSY" \in flags[b] /\ held' = [held EXCEPT ![p] = b]
  BY DEF BgetSleep, Cached
<1>2. /\ pc[p] = "bget" /\ pc' = [pc EXCEPT ![p] = "bsleep"] /\ "bsleep" \in PCs
      /\ UNCHANGED <<flags, blockno, data, lru, idequeue, request, irq, disk, want>>
  BY DEF BgetSleep, bcache, driver, PCs
<1>3. TypeOK
  BY DEF CacheInv
<1>4. pc' \in [Proc -> PCs] /\ pc'[p] = "bsleep" /\ \A q \in Proc \ {p} : pc'[q] = pc[q]
  BY <1>2, <1>3, PcAt
<1>5. /\ held' \in [Proc -> Bufs \cup {0}] /\ held'[p] = b
      /\ \A q \in Proc \ {p} : held'[q] = held[q]
  BY <1>1, <1>3 DEF TypeOK
<1>6. TypeOK'
  BY <1>2, <1>3, <1>4, <1>5, SMTT(20) DEF TypeOK, Range, IsInjective
<1>7. want[p] \in Blocks
  BY <1>2 DEF CacheInv, Holding
<1>8. QED
  BY <1>1, <1>2, <1>4, <1>5, <1>6, <1>7, ProcStep DEF Working

\* iderw finds its request done.
LEMMA CheckKeeps ==
  ASSUME CacheInv, NEW p \in Proc, IderwCheck(p)
  PROVE  CacheInv' /\ pc' = [pc EXCEPT ![p] = "hold"]
<1>1. /\ pc[p] = "iocheck"
      /\ UNCHANGED <<flags, blockno, data, lru, idequeue, request, irq, disk, want, held>>
  BY DEF IderwCheck, bcache, driver
<1>2. "VALID" \in flags[held[p]] /\ "DIRTY" \notin flags[held[p]]
  BY <1>1 DEF CacheInv, Stages
<1>3. pc' = [pc EXCEPT ![p] = "hold"] /\ "hold" \in PCs
  BY <1>2, CleanIs DEF IderwCheck, PCs
<1>4. TypeOK
  BY DEF CacheInv
<1>5. pc' \in [Proc -> PCs] /\ pc'[p] = "hold" /\ \A q \in Proc \ {p} : pc'[q] = pc[q]
  BY <1>3, <1>4, PcAt
<1>6. TypeOK'
  BY <1>1, <1>4, <1>5, SMTT(20) DEF TypeOK, Range, IsInjective
<1>7. want[p] \in Blocks
  BY <1>1 DEF CacheInv, Holding
<1>8. QED
  BY <1>1, <1>3, <1>5, <1>6, <1>7, ProcStep DEF Working

\* A buffer that is not busy has no owner, no sleeper and is not in the queue.
LEMMA IdleFacts ==
  ASSUME CacheInv, NEW b \in Bufs, "BUSY" \notin flags[b]
  PROVE  /\ ~Queued(b)
         /\ \A q \in Proc : pc[q] \in Working \cup {"bsleep"} => held[q] # b
BY QueueFacts DEF CacheInv, Holding

\* What bget does when the block has a buffer nobody uses.
LEMMA HitEffect ==
  ASSUME CacheInv, NEW p \in Proc, BgetHit(p)
  PROVE  \E b \in Bufs :
           /\ blockno[b] = want[p] /\ want[p] \in Blocks
           /\ "BUSY" \notin flags[b] /\ "VALID" \in flags[b]
           /\ flags' \in [Bufs -> SUBSET Flags] /\ flags'[b] = flags[b] \cup {"BUSY"}
           /\ \A c \in Bufs \ {b} : flags'[c] = flags[c]
           /\ pc[p] = "bget"
           /\ pc' \in [Proc -> PCs] /\ pc'[p] = "hold" /\ \A q \in Proc \ {p} : pc'[q] = pc[q]
           /\ held' \in [Proc -> Bufs \cup {0}] /\ held'[p] = b
           /\ \A q \in Proc \ {p} : held'[q] = held[q]
           /\ UNCHANGED <<blockno, data, lru, idequeue, request, irq, disk, want>>
<1>1. PICK b \in Cached(want[p]) :
        /\ "BUSY" \notin flags[b]
        /\ flags' = [flags EXCEPT ![b] = flags[b] \cup {"BUSY"}]
        /\ held' = [held EXCEPT ![p] = b]
        /\ pc' = [pc EXCEPT ![p] = IF "VALID" \in flags[b] THEN "hold" ELSE "bread"]
  BY DEF BgetHit, CacheInv, TypeOK, Cached
<1>2. /\ pc[p] = "bget"
      /\ UNCHANGED <<blockno, data, lru, idequeue, request, irq, disk, want>>
  BY DEF BgetHit, bcache, driver
<1>3. b \in Bufs /\ blockno[b] = want[p] /\ TypeOK
  BY DEF Cached, CacheInv
<1>4. want[p] \in Blocks /\ blockno[b] # NoBlock
  BY <1>2, <1>3, BufCacheAssumption DEF CacheInv, Holding
<1>5. "VALID" \in flags[b]
  BY <1>1, <1>3, <1>4 DEF CacheInv, Resting
<1>6. pc' = [pc EXCEPT ![p] = "hold"] /\ "hold" \in PCs
  BY <1>1, <1>5 DEF PCs
<1>7. pc' \in [Proc -> PCs] /\ pc'[p] = "hold" /\ \A q \in Proc \ {p} : pc'[q] = pc[q]
  BY <1>3, <1>6, PcAt
<1>8. flags[b] \cup {"BUSY"} \in SUBSET Flags
  BY <1>3 DEF TypeOK, Flags
<1>9. /\ flags' \in [Bufs -> SUBSET Flags] /\ flags'[b] = flags[b] \cup {"BUSY"}
      /\ \A c \in Bufs \ {b} : flags'[c] = flags[c]
  BY <1>1, <1>3, <1>8, FlagsAt
<1>10. /\ held' \in [Proc -> Bufs \cup {0}] /\ held'[p] = b
       /\ \A q \in Proc \ {p} : held'[q] = held[q]
  BY <1>1, <1>3 DEF TypeOK
<1>11. QED
  BY <1>1, <1>2, <1>3, <1>4, <1>5, <1>7, <1>9, <1>10

\* It takes the buffer.
LEMMA HitKeeps ==
  ASSUME CacheInv, NEW p \in Proc, BgetHit(p)
  PROVE  CacheInv'
<1>1. PICK b \in Bufs :
        /\ blockno[b] = want[p] /\ want[p] \in Blocks
        /\ "BUSY" \notin flags[b] /\ "VALID" \in flags[b]
        /\ flags' \in [Bufs -> SUBSET Flags] /\ flags'[b] = flags[b] \cup {"BUSY"}
        /\ \A c \in Bufs \ {b} : flags'[c] = flags[c]
        /\ pc[p] = "bget"
        /\ pc' \in [Proc -> PCs] /\ pc'[p] = "hold" /\ \A q \in Proc \ {p} : pc'[q] = pc[q]
        /\ held' \in [Proc -> Bufs \cup {0}] /\ held'[p] = b
        /\ \A q \in Proc \ {p} : held'[q] = held[q]
        /\ UNCHANGED <<blockno, data, lru, idequeue, request, irq, disk, want>>
  BY HitEffect
<1>2. TypeOK'
  BY <1>1, SMTT(20) DEF CacheInv, TypeOK, Range, IsInjective
<1>3. \A c \in Bufs \ {b} : Same(c)
  BY <1>1 DEF Same
<1>4. ~Queued(b) /\ \A q \in Proc : pc[q] \in Working \cup {"bsleep"} => held[q] # b
  BY <1>1, IdleFacts
<1>5. OneBuffer'
  BY <1>1 DEF CacheInv, OneBuffer
<1>6. "DIRTY" \notin flags'[b] /\ ~Errors => data[b] = disk[blockno[b]]
  BY <1>1, CleanIs DEF CacheInv, CleanIsOnDisk
<1>7. QED
  BY <1>1, <1>2, <1>3, <1>4, <1>5, <1>6, BufStep, SMTT(20) DEF Working

\* What bget does when it recycles a buffer.
LEMMA MissEffect ==
  ASSUME CacheInv, NEW p \in Proc, BgetMiss(p), Recyclable # {}
  PROVE  \E b \in Bufs :
           /\ "BUSY" \notin flags[b] /\ "DIRTY" \notin flags[b]
           /\ want[p] \in Blocks /\ \A c \in Bufs : blockno[c] # want[p]
           /\ flags' \in [Bufs -> SUBSET Flags] /\ flags'[b] = {"BUSY"}
           /\ \A c \in Bufs \ {b} : flags'[c] = flags[c]
           /\ blockno' \in [Bufs -> Blocks \cup {NoBlock}] /\ blockno'[b] = want[p]
           /\ \A c \in Bufs \ {b} : blockno'[c] = blockno[c]
           /\ pc[p] = "bget"
           /\ pc' \in [Proc -> PCs] /\ pc'[p] = "bread" /\ \A q \in Proc \ {p} : pc'[q] = pc[q]
           /\ held' \in [Proc -> Bufs \cup {0}] /\ held'[p] = b
           /\ \A q \in Proc \ {p} : held'[q] = held[q]
           /\ UNCHANGED <<data, lru, idequeue, request, irq, disk, want>>
<1> DEFINE b == Victim
<1>1. TypeOK
  BY DEF CacheInv
<1>2. b \in Recyclable
  BY <1>1, VictimIn
<1>3. /\ pc[p] = "bget" /\ Cached(want[p]) = {}
      /\ blockno' = [blockno EXCEPT ![b] = want[p]]
      /\ flags' = [flags EXCEPT ![b] = {"BUSY"}]
      /\ held' = [held EXCEPT ![p] = b]
      /\ pc' = [pc EXCEPT ![p] = "bread"]
      /\ UNCHANGED <<data, lru, idequeue, request, irq, disk, want>>
  BY DEF BgetMiss, driver, RecycledFlags
<1> HIDE DEF b
<1>4. b \in Bufs /\ "BUSY" \notin flags[b] /\ "DIRTY" \notin flags[b]
  BY <1>2 DEF Recyclable
<1>5. want[p] \in Blocks /\ \A c \in Bufs : blockno[c] # want[p]
  BY <1>3 DEF CacheInv, Holding, Cached
<1>6. /\ flags' \in [Bufs -> SUBSET Flags] /\ flags'[b] = {"BUSY"}
      /\ \A c \in Bufs \ {b} : flags'[c] = flags[c]
  BY <1>1, <1>3, <1>4, FlagsAt DEF Flags
<1>7. /\ blockno' \in [Bufs -> Blocks \cup {NoBlock}] /\ blockno'[b] = want[p]
      /\ \A c \in Bufs \ {b} : blockno'[c] = blockno[c]
  BY <1>1, <1>3, <1>4, <1>5 DEF TypeOK
<1>8. pc' \in [Proc -> PCs] /\ pc'[p] = "bread" /\ \A q \in Proc \ {p} : pc'[q] = pc[q]
  BY <1>1, <1>3, PcAt DEF PCs
<1>9. /\ held' \in [Proc -> Bufs \cup {0}] /\ held'[p] = b
      /\ \A q \in Proc \ {p} : held'[q] = held[q]
  BY <1>1, <1>3, <1>4 DEF TypeOK
<1>10. QED
  BY <1>3, <1>4, <1>5, <1>6, <1>7, <1>8, <1>9

\* It recycles a buffer, or panics.
LEMMA MissKeeps ==
  ASSUME CacheInv, NEW p \in Proc, BgetMiss(p)
  PROVE  CacheInv'
<1>1. CASE Recyclable = {}
  <2>1. /\ pc[p] = "bget" /\ pc' = [pc EXCEPT ![p] = "panic"] /\ "panic" \in PCs
        /\ UNCHANGED <<flags, blockno, data, lru, idequeue, request, irq, disk, held, want>>
    BY <1>1 DEF BgetMiss, driver, PCs
  <2>2. TypeOK
    BY DEF CacheInv
  <2>3. pc' \in [Proc -> PCs] /\ pc'[p] = "panic" /\ \A q \in Proc \ {p} : pc'[q] = pc[q]
    BY <2>1, <2>2, PcAt
  <2>4. TypeOK'
    BY <2>1, <2>2, <2>3, SMTT(20) DEF TypeOK, Range, IsInjective
  <2>5. QED
    BY <2>1, <2>3, <2>4, ProcStep DEF Working
<1>2. CASE Recyclable # {}
  <2>1. PICK b \in Bufs :
          /\ "BUSY" \notin flags[b] /\ "DIRTY" \notin flags[b]
          /\ want[p] \in Blocks /\ \A c \in Bufs : blockno[c] # want[p]
          /\ flags' \in [Bufs -> SUBSET Flags] /\ flags'[b] = {"BUSY"}
          /\ \A c \in Bufs \ {b} : flags'[c] = flags[c]
          /\ blockno' \in [Bufs -> Blocks \cup {NoBlock}] /\ blockno'[b] = want[p]
          /\ \A c \in Bufs \ {b} : blockno'[c] = blockno[c]
          /\ pc[p] = "bget"
          /\ pc' \in [Proc -> PCs] /\ pc'[p] = "bread" /\ \A q \in Proc \ {p} : pc'[q] = pc[q]
          /\ held' \in [Proc -> Bufs \cup {0}] /\ held'[p] = b
          /\ \A q \in Proc \ {p} : held'[q] = held[q]
          /\ UNCHANGED <<data, lru, idequeue, request, irq, disk, want>>
    BY <1>2, MissEffect
  <2>2. TypeOK'
    BY <2>1, SMTT(20) DEF CacheInv, TypeOK, Range, IsInjective
  <2>3. \A c \in Bufs \ {b} : Same(c)
    BY <2>1 DEF Same
  <2>4. ~Queued(b) /\ \A q \in Proc : pc[q] \in Working \cup {"bsleep"} => held[q] # b
    BY <2>1, IdleFacts
  <2>5. OneBuffer'
    BY <2>1, SMTT(20) DEF CacheInv, OneBuffer
  <2>6. "VALID" \notin flags'[b] /\ "DIRTY" \notin flags'[b] /\ "BUSY" \in flags'[b]
    BY <2>1
  <2>7. QED
    BY <2>1, <2>2, <2>3, <2>4, <2>5, <2>6, BufStep, SMTT(20) DEF Working
<1>3. QED
  BY <1>1, <1>2

\* What the invariant says of a process that may use its buffer.
LEMMA HoldFacts ==
  ASSUME CacheInv, NEW p \in Proc, pc[p] \in Working
  PROVE  /\ held[p] \in Bufs /\ "BUSY" \in flags[held[p]]
         /\ blockno[held[p]] = want[p] /\ want[p] \in Blocks /\ want[p] # NoBlock
         /\ \A q \in Proc \ {p} : pc[q] \in Working => held[q] # held[p]
         /\ pc[p] = "hold" => "VALID" \in flags[held[p]] /\ ~Queued(held[p])
<1>1. /\ held[p] \in Bufs /\ "BUSY" \in flags[held[p]]
      /\ blockno[held[p]] = want[p] /\ want[p] \in Blocks
  BY DEF CacheInv, Holding, Working
<1>2. want[p] # NoBlock
  BY <1>1, BufCacheAssumption
<1>3. \A q \in Proc \ {p} : pc[q] \in Working => held[q] # held[p]
  BY DEF CacheInv, OneOwner
<1>4. pc[p] = "hold" => "VALID" \in flags[held[p]] /\ ~Queued(held[p])
  BY DEF CacheInv, Stages
<1>5. QED
  BY <1>1, <1>2, <1>3, <1>4

\* What bwrite and log_write do: the owner changes its buffer and marks it dirty.
LEMMA ChangeEffect ==
  ASSUME CacheInv, NEW p \in Proc, Bwrite(p) \/ LogWrite(p)
  PROVE  \E v \in Vals : \E to \in {"hold", "bwrite"} :
           /\ pc[p] = "hold"
           /\ data' \in [Bufs -> Vals] /\ data'[held[p]] = v
           /\ \A c \in Bufs \ {held[p]} : data'[c] = data[c]
           /\ flags' \in [Bufs -> SUBSET Flags] /\ flags'[held[p]] = flags[held[p]] \cup {"DIRTY"}
           /\ \A c \in Bufs \ {held[p]} : flags'[c] = flags[c]
           /\ pc' \in [Proc -> PCs] /\ pc'[p] = to /\ \A q \in Proc \ {p} : pc'[q] = pc[q]
           /\ UNCHANGED <<blockno, lru, idequeue, request, irq, disk, want, held>>
<1> DEFINE b == held[p]
<1>1. pc[p] = "hold" /\ TypeOK
  BY DEF Bwrite, LogWrite, CacheInv
<1>2. b \in Bufs
  BY <1>1, HoldFacts DEF Working
<1>3. PICK v \in Vals : data' = [data EXCEPT ![b] = v]
  BY DEF Bwrite, LogWrite
<1>4. /\ flags' = [flags EXCEPT ![b] = flags[b] \cup {"DIRTY"}]
      /\ UNCHANGED <<blockno, lru, idequeue, request, irq, disk, want, held>>
  BY <1>1, <1>2 DEF Bwrite, LogWrite, bcache, driver, TypeOK
<1>5. PICK to \in {"hold", "bwrite"} : to \in PCs /\ pc' = [pc EXCEPT ![p] = to]
  <2>1. CASE Bwrite(p)
    BY <2>1 DEF Bwrite, PCs
  <2>2. CASE LogWrite(p)
    <3>1. pc' = pc
      BY <2>2 DEF LogWrite
    <3>2. pc' = [pc EXCEPT ![p] = "hold"]
      BY <1>1, <3>1 DEF TypeOK
    <3>3. QED
      BY <3>2 DEF PCs
  <2>3. QED
    BY <2>1, <2>2
<1>6. pc' \in [Proc -> PCs] /\ pc'[p] = to /\ \A q \in Proc \ {p} : pc'[q] = pc[q]
  BY <1>1, <1>5, PcAt
<1>7. flags[b] \cup {"DIRTY"} \in SUBSET Flags
  BY <1>1, <1>2 DEF TypeOK, Flags
<1>8. /\ flags' \in [Bufs -> SUBSET Flags] /\ flags'[b] = flags[b] \cup {"DIRTY"}
      /\ \A c \in Bufs \ {b} : flags'[c] = flags[c]
  BY <1>1, <1>2, <1>4, <1>7, FlagsAt
<1>9. /\ data' \in [Bufs -> Vals] /\ data'[b] = v
      /\ \A c \in Bufs \ {b} : data'[c] = data[c]
  BY <1>1, <1>2, <1>3 DEF TypeOK
<1>10. QED
  BY <1>1, <1>4, <1>6, <1>8, <1>9

\* bwrite() begins, and log_write().
LEMMA ChangeKeeps ==
  ASSUME CacheInv, NEW p \in Proc, Bwrite(p) \/ LogWrite(p)
  PROVE  CacheInv'
<1> DEFINE b == held[p]
<1>1. PICK v \in Vals : \E to \in {"hold", "bwrite"} :
        /\ pc[p] = "hold"
        /\ data' \in [Bufs -> Vals] /\ data'[b] = v
        /\ \A c \in Bufs \ {b} : data'[c] = data[c]
        /\ flags' \in [Bufs -> SUBSET Flags] /\ flags'[b] = flags[b] \cup {"DIRTY"}
        /\ \A c \in Bufs \ {b} : flags'[c] = flags[c]
        /\ pc' \in [Proc -> PCs] /\ pc'[p] = to /\ \A q \in Proc \ {p} : pc'[q] = pc[q]
        /\ UNCHANGED <<blockno, lru, idequeue, request, irq, disk, want, held>>
  BY ChangeEffect
<1>2. /\ b \in Bufs /\ "BUSY" \in flags[b] /\ "VALID" \in flags[b] /\ ~Queued(b)
      /\ blockno[b] = want[p] /\ want[p] \in Blocks
      /\ \A q \in Proc \ {p} : pc[q] \in Working => held[q] # b
  BY <1>1, HoldFacts DEF Working
<1> HIDE DEF b
<1>3. "BUSY" \in flags'[b] /\ "VALID" \in flags'[b] /\ "DIRTY" \in flags'[b]
  BY <1>1, <1>2
<1>4. TypeOK'
  BY <1>1, SMTT(20) DEF CacheInv, TypeOK, Range, IsInjective
<1>5. \A c \in Bufs \ {b} : Same(c)
  BY <1>1 DEF Same
<1>6. OneBuffer'
  BY <1>1, SMTT(20) DEF CacheInv, OneBuffer
<1>7. pc'[p] \in {"hold", "bwrite"} /\ held'[p] = b /\ held[p] = b
  BY <1>1 DEF b
<1>8. QED
  BY <1>1, <1>2, <1>3, <1>4, <1>5, <1>6, <1>7, BufStep DEF Working

\* What a wakeup on b does.
LEMMA WakeFacts ==
  ASSUME TypeOK, NEW b
  PROVE  /\ Wakeup(b) \in [Proc -> PCs]
         /\ \A q \in Proc :
              /\ pc[q] = "bsleep" /\ held[q] = b => Wakeup(b)[q] = "bget"
              /\ pc[q] = "iosleep" /\ held[q] = b => Wakeup(b)[q] = "iocheck"
              /\ pc[q] \notin {"bsleep", "iosleep"} \/ held[q] # b => Wakeup(b)[q] = pc[q]
<1>1. ASSUME NEW q \in Proc
      PROVE  /\ Wakeup(b)[q] \in PCs
             /\ pc[q] = "bsleep" /\ held[q] = b => Wakeup(b)[q] = "bget"
             /\ pc[q] = "iosleep" /\ held[q] = b => Wakeup(b)[q] = "iocheck"
             /\ pc[q] \notin {"bsleep", "iosleep"} \/ held[q] # b => Wakeup(b)[q] = pc[q]
  BY DEF Wakeup, TypeOK, PCs
<1>2. Wakeup(b) = [q \in Proc |-> Wakeup(b)[q]]
  BY DEF Wakeup
<1>3. QED
  BY <1>1, <1>2

\* What brelse does.
LEMMA BrelseEffect ==
  ASSUME CacheInv, NEW p \in Proc, Brelse(p)
  PROVE  /\ pc[p] = "hold"
         /\ lru' \in Seq(Bufs) /\ Len(lru') = NBUF /\ Range(lru') = Bufs
         /\ flags' \in [Bufs -> SUBSET Flags] /\ flags'[held[p]] = flags[held[p]] \ {"BUSY"}
         /\ \A c \in Bufs \ {held[p]} : flags'[c] = flags[c]
         /\ pc' \in [Proc -> PCs] /\ pc'[p] = "user"
         /\ \A q \in Proc \ {p} :
              \/ pc'[q] = pc[q] /\ (pc[q] = "bsleep" => held[q] # held[p])
              \/ pc[q] = "bsleep" /\ pc'[q] = "bget"
         /\ held' \in [Proc -> Bufs \cup {0}] /\ held'[p] = 0
         /\ \A q \in Proc \ {p} : held'[q] = held[q]
         /\ want' \in [Proc -> Blocks \cup {NoBlock}] /\ want'[p] = NoBlock
         /\ \A q \in Proc \ {p} : want'[q] = want[q]
         /\ UNCHANGED <<blockno, data, idequeue, request, irq, disk>>
<1> DEFINE b == held[p]
<1>1. pc[p] = "hold" /\ TypeOK
  BY DEF Brelse, CacheInv
<1>2. b \in Bufs /\ \A q \in Proc \ {p} : pc[q] \in Working => held[q] # b
  BY <1>1, HoldFacts DEF Working
<1>3. lru' \in Seq(Bufs) /\ Len(lru') = NBUF /\ Range(lru') = Bufs
  BY <1>1, <1>2, MoveKeepsList DEF Brelse
<1>4. /\ flags' = [flags EXCEPT ![b] = flags[b] \ {"BUSY"}]
      /\ pc' = [Wakeup(b) EXCEPT ![p] = "user"]
      /\ held' = [held EXCEPT ![p] = 0]
      /\ want' = [want EXCEPT ![p] = NoBlock]
      /\ UNCHANGED <<blockno, data, idequeue, request, irq, disk>>
  BY <1>1, <1>2 DEF Brelse, driver, TypeOK
<1>5. flags[b] \ {"BUSY"} \in SUBSET Flags
  BY <1>1, <1>2 DEF TypeOK
<1>6. /\ flags' \in [Bufs -> SUBSET Flags] /\ flags'[b] = flags[b] \ {"BUSY"}
      /\ \A c \in Bufs \ {b} : flags'[c] = flags[c]
  BY <1>1, <1>2, <1>4, <1>5, FlagsAt
<1>7. /\ held' \in [Proc -> Bufs \cup {0}] /\ held'[p] = 0
      /\ \A q \in Proc \ {p} : held'[q] = held[q]
  BY <1>1, <1>4 DEF TypeOK
<1>8. /\ want' \in [Proc -> Blocks \cup {NoBlock}] /\ want'[p] = NoBlock
      /\ \A q \in Proc \ {p} : want'[q] = want[q]
  BY <1>1, <1>4 DEF TypeOK
<1> HIDE DEF b
<1>9. Wakeup(b) \in [Proc -> PCs] /\ "user" \in PCs
  BY <1>1, WakeFacts DEF PCs
<1>10. /\ pc' \in [Proc -> PCs] /\ pc'[p] = "user"
       /\ \A q \in Proc \ {p} : pc'[q] = Wakeup(b)[q]
  BY <1>4, <1>9
<1>11. ASSUME NEW q \in Proc \ {p}
       PROVE  \/ pc'[q] = pc[q] /\ (pc[q] = "bsleep" => held[q] # b)
              \/ pc[q] = "bsleep" /\ pc'[q] = "bget"
  BY <1>1, <1>2, <1>10, WakeFacts DEF Working
<1>12. QED
  BY <1>1, <1>3, <1>4, <1>6, <1>7, <1>8, <1>10, <1>11 DEF b

\* brelse()
LEMMA BrelseKeeps ==
  ASSUME CacheInv, NEW p \in Proc, Brelse(p)
  PROVE  CacheInv'
<1> DEFINE b == held[p]
<1>1. /\ pc[p] = "hold"
      /\ flags'[b] = flags[b] \ {"BUSY"}
      /\ \A c \in Bufs \ {b} : flags'[c] = flags[c]
      /\ pc'[p] = "user"
      /\ \A q \in Proc \ {p} :
           \/ pc'[q] = pc[q] /\ (pc[q] = "bsleep" => held[q] # b)
           \/ pc[q] = "bsleep" /\ pc'[q] = "bget"
      /\ \A q \in Proc \ {p} : held'[q] = held[q] /\ want'[q] = want[q]
      /\ UNCHANGED <<blockno, data, idequeue, request, irq, disk>>
  BY BrelseEffect
<1>2. TypeOK'
  BY BrelseEffect, ZenonT(30) DEF CacheInv, TypeOK, Range, IsInjective
<1>3. /\ b \in Bufs /\ "VALID" \in flags[b] /\ ~Queued(b)
      /\ blockno[b] \in Blocks /\ blockno[b] # NoBlock
      /\ \A q \in Proc \ {p} : pc[q] \in Working => held[q] # b
  BY <1>1, HoldFacts DEF Working
<1>4. held[p] = b
  OBVIOUS
<1> HIDE DEF b
<1>5. \A c \in Bufs \ {b} : Same(c)
  BY <1>1 DEF Same
<1>6. OneBuffer'
  BY <1>1 DEF CacheInv, OneBuffer
<1>7. /\ "BUSY" \notin flags'[b] /\ "VALID" \in flags'[b]
      /\ "DIRTY" \in flags'[b] <=> "DIRTY" \in flags[b]
  BY <1>1, <1>3
<1>8. ~Errors /\ "DIRTY" \notin flags'[b] => data'[b] = disk[blockno'[b]]
  BY <1>1, <1>3, <1>7, CleanIs DEF CacheInv, CleanIsOnDisk
<1>9. QED
  BY <1>1, <1>2, <1>3, <1>4, <1>5, <1>6, <1>7, <1>8, BufStep, ZenonT(30) DEF Working

\* A request for a buffer of the queue.
LEMMA RequestIs ==
  ASSUME TypeOK, NEW b \in Bufs, blockno[b] \in Blocks
  PROVE  /\ Idestart(b) \in [write : BOOLEAN, block : Blocks, val : Vals]
         /\ Idestart(b) # NoRequest
         /\ Idestart(b).write <=> "DIRTY" \in flags[b]
         /\ Idestart(b).block = blockno[b] /\ Idestart(b).val = data[b]
<1> DEFINE w == "DIRTY" \in flags[b]
<1>1. w \in BOOLEAN /\ data[b] \in Vals
  BY SMTT(20) DEF TypeOK
<1>2. Idestart(b) = [write |-> w, block |-> blockno[b], val |-> data[b]]
  BY DEF Idestart
<1>3. w <=> "DIRTY" \in flags[b]
  OBVIOUS
<1> HIDE DEF w
<1>4. Idestart(b).write = w
  BY <1>2, SMTT(20)
<1>5. Idestart(b) \in [write : BOOLEAN, block : Blocks, val : Vals]
  BY <1>1, <1>2, SMTT(20)
<1>6. Idestart(b).block = blockno[b] /\ Idestart(b).val = data[b]
  BY <1>2, SMTT(20)
<1>7. QED
  BY <1>3, <1>4, <1>5, <1>6, BufCacheAssumption

\* iderw() queues the buffer and sleeps.
LEMMA IderwKeeps ==
  ASSUME CacheInv, NEW p \in Proc, Iderw(p)
  PROVE  CacheInv'
<1> DEFINE b == held[p]
<1>1. /\ pc[p] \in {"bread", "bwrite"} /\ idequeue' = Append(idequeue, b)
      /\ request' = IF idequeue = <<>> THEN Idestart(b) ELSE request
      /\ pc' = [pc EXCEPT ![p] = "iosleep"] /\ "iosleep" \in PCs
      /\ UNCHANGED <<flags, blockno, data, lru, irq, disk, want, held>>
  BY DEF Iderw, bcache, PCs
<1>2. /\ b \in Bufs /\ blockno[b] \in Blocks /\ TypeOK
      /\ \A q \in Proc \ {p} : pc[q] \in Working => held[q] # b
  BY <1>1, HoldFacts DEF Working, CacheInv
<1>3. ~Queued(b) /\ ("VALID" \in flags[b] <=> "DIRTY" \in flags[b])
  BY <1>1 DEF CacheInv, Stages
<1>4. held[p] = b
  OBVIOUS
<1> HIDE DEF b
<1>5. /\ idequeue' \in Seq(Bufs) /\ IsInjective(idequeue') /\ idequeue' # <<>>
      /\ Range(idequeue') = Range(idequeue) \cup {b}
      /\ Head(idequeue') = IF idequeue = <<>> THEN b ELSE Head(idequeue)
  BY <1>1, <1>2, <1>3, Enqueue DEF TypeOK, Queued
<1>6. \A c : Queued(c)' <=> Queued(c) \/ c = b
  BY <1>5 DEF Queued
<1>7. pc' \in [Proc -> PCs] /\ pc'[p] = "iosleep" /\ \A q \in Proc \ {p} : pc'[q] = pc[q]
  BY <1>1, <1>2, PcAt
<1>8. \A c : Idestart(c)' = Idestart(c)
  BY <1>1 DEF Idestart
<1>9. request' = Idestart(Head(idequeue')) /\ Head(idequeue') \in Bufs
      /\ blockno[Head(idequeue')] \in Blocks
  BY <1>1, <1>2, <1>5, QueueFacts DEF CacheInv, Served
<1>10. TypeOK'
  <2>1. request' \in [write : BOOLEAN, block : Blocks, val : Vals]
    BY <1>2, <1>9, RequestIs
  <2>2. lru' \in Seq(Bufs) /\ Len(lru') = NBUF /\ Range(lru') = Bufs
    BY <1>1, <1>2 DEF TypeOK
  <2>3. QED
    BY <1>1, <1>2, <1>5, <1>7, <2>1, <2>2 DEF TypeOK
<1>11. Served'
  <2>1. idequeue' # <<>> => request' = Idestart(Head(idequeue))'
    BY <1>8, <1>9
  <2>2. irq' /\ request'.write => disk'[request'.block] = request'.val
    BY <1>1 DEF CacheInv, Served
  <2>3. QED
    BY <1>5, <2>1, <2>2 DEF Served
<1>12. Holding' /\ OneOwner' /\ BusyOwned'
  <2>1. \A q \in Proc : pc'[q] \in Working <=> pc[q] \in Working
    BY <1>1, <1>7 DEF Working
  <2>2. Holding'
    BY <1>1, <1>7, <2>1 DEF CacheInv, Holding
  <2>3. OneOwner' /\ BusyOwned'
    BY <1>1, <2>1 DEF CacheInv, OneOwner, BusyOwned
  <2>4. QED
    BY <2>2, <2>3
<1>13. OneBuffer' /\ Resting' /\ (~Errors => CleanIsOnDisk')
  BY <1>1 DEF CacheInv, OneBuffer, Resting, CleanIsOnDisk
<1>14. Stages'
  <2>1. ASSUME NEW q \in Proc \ {p}, pc[q] \in Working PROVE Queued(held[q])' <=> Queued(held[q])
    BY <1>1, <1>2, <1>6, <2>1
  <2>2. ASSUME NEW q \in Proc \ {p}
        PROVE  pc'[q] = pc[q] /\ held'[q] = held[q] /\ flags' = flags
    BY <1>1, <1>7
  <2>3. held'[p] = b /\ Queued(held[p])' /\ ("VALID" \in flags'[b] <=> "DIRTY" \in flags'[b])
    BY <1>1, <1>3, <1>4, <1>6
  <2>4. QED
    BY <1>7, <2>1, <2>2, <2>3 DEF CacheInv, Stages, Working
<1>15. QueueOwned'
  BY <1>1, <1>4, <1>6, <1>7 DEF CacheInv, QueueOwned
<1>16. QED
  BY <1>10, <1>11, <1>12, <1>13, <1>14, <1>15 DEF CacheInv

\* A valid buffer has a block.
LEMMA ValidFacts ==
  ASSUME CacheInv, NEW b \in Bufs, "VALID" \in flags[b] \/ "DIRTY" \in flags[b]
  PROVE  blockno[b] \in Blocks
<1>1. CASE "BUSY" \in flags[b]
  <2>1. PICK p \in Proc : pc[p] \in Working /\ held[p] = b
    BY <1>1 DEF CacheInv, BusyOwned
  <2>2. QED
    BY <2>1, HoldFacts
<1>2. CASE "BUSY" \notin flags[b]
  <2>1. blockno[b] # NoBlock
    BY <1>2 DEF CacheInv, Resting
  <2>2. QED
    BY <2>1 DEF CacheInv, TypeOK
<1>3. QED
  BY <1>1, <1>2

\* The disk carries out the request of the buffer at the head of the queue.
LEMMA DiskEffect ==
  ASSUME CacheInv, DiskDone
  PROVE  /\ UNCHANGED <<flags, blockno, data, lru, idequeue, request, pc, want, held>>
         /\ idequeue # <<>> /\ request = Idestart(Head(idequeue))
         /\ Head(idequeue) \in Bufs /\ blockno[Head(idequeue)] \in Blocks
         /\ disk' \in [Blocks -> Vals] /\ irq' = TRUE
         /\ \A k \in Blocks :
              disk'[k] = IF "DIRTY" \in flags[Head(idequeue)] /\ k = blockno[Head(idequeue)]
                           THEN data[Head(idequeue)] ELSE disk[k]
<1> DEFINE h == Head(idequeue)
<1>1. /\ UNCHANGED <<flags, blockno, data, lru, idequeue, request, pc, want, held>>
      /\ request # NoRequest /\ irq' = TRUE /\ TypeOK
      /\ disk' = IF request.write THEN [disk EXCEPT ![request.block] = request.val] ELSE disk
  BY DEF DiskDone, bcache, CacheInv
<1>2. idequeue # <<>> /\ request = Idestart(h)
  BY <1>1 DEF CacheInv, Served
<1>3. h \in Bufs /\ blockno[h] \in Blocks
  BY <1>2, QueueFacts
<1> HIDE DEF h
<1>4. /\ request.write <=> "DIRTY" \in flags[h]
      /\ request.block = blockno[h] /\ request.val = data[h] /\ data[h] \in Vals
  BY <1>1, <1>2, <1>3, RequestIs DEF TypeOK
<1>5. disk' \in [Blocks -> Vals]
  BY <1>1, <1>3, <1>4 DEF TypeOK
<1>6. \A k \in Blocks : disk'[k] = IF "DIRTY" \in flags[h] /\ k = blockno[h] THEN data[h] ELSE disk[k]
  BY <1>1, <1>3, <1>4 DEF TypeOK
<1>7. QED
  BY <1>1, <1>2, <1>3, <1>5, <1>6 DEF h

\* The disk finishes a command.
LEMMA DiskKeeps ==
  ASSUME CacheInv, DiskDone
  PROVE  CacheInv'
<1> DEFINE h == Head(idequeue)
<1>1. /\ UNCHANGED <<flags, blockno, data, lru, idequeue, request, pc, want, held>>
      /\ idequeue # <<>> /\ request = Idestart(h) /\ h \in Bufs /\ blockno[h] \in Blocks
      /\ disk' \in [Blocks -> Vals] /\ irq' = TRUE
      /\ \A k \in Blocks :
           disk'[k] = IF "DIRTY" \in flags[h] /\ k = blockno[h] THEN data[h] ELSE disk[k]
  BY DiskEffect
<1>2. TypeOK /\ TypeOK'
  BY <1>1, SMTT(20) DEF CacheInv, TypeOK, Range, IsInjective
<1>3. \A c : (Idestart(c)' = Idestart(c)) /\ (Queued(c)' <=> Queued(c))
  BY <1>1 DEF Idestart, Queued, Range
<1>4. Holding' /\ OneOwner' /\ BusyOwned' /\ OneBuffer' /\ Resting'
  BY <1>1 DEF CacheInv, Holding, OneOwner, BusyOwned, OneBuffer, Resting
<1>5. Stages' /\ QueueOwned'
  BY <1>1, <1>3 DEF CacheInv, Stages, QueueOwned
<1>6. Served'
  <2>1. request' = Idestart(Head(idequeue))'
    BY <1>1 DEF Idestart
  <2>2. request'.write => disk'[request'.block] = request'.val
    BY <1>1, <1>2, RequestIs
  <2>3. QED
    BY <1>1, <2>1, <2>2 DEF Served
<1>7. ~Errors => CleanIsOnDisk'
  <2> SUFFICES ASSUME ~Errors, NEW c \in Bufs, flags[c] \cap {"VALID", "DIRTY"} = {"VALID"}
               PROVE  data[c] = disk'[blockno[c]]
    BY <1>1 DEF CleanIsOnDisk
  <2>1. "VALID" \in flags[c] /\ "DIRTY" \notin flags[c] /\ data[c] = disk[blockno[c]]
    BY CleanIs DEF CacheInv, CleanIsOnDisk
  <2>2. blockno[c] \in Blocks /\ blockno[c] # NoBlock
    BY <2>1, ValidFacts, BufCacheAssumption
  <2>3. "DIRTY" \in flags[h] => blockno[c] # blockno[h]
    BY <1>1, <2>1, <2>2 DEF CacheInv, OneBuffer
  <2>4. QED
    BY <1>1, <2>1, <2>2, <2>3
<1>8. QED
  BY <1>2, <1>4, <1>5, <1>6, <1>7 DEF CacheInv

\* What the interrupt handler does: the buffer at the head of the queue becomes
\* valid and clean, whoever sleeps on it wakes, and the next one is started.
LEMMA IntrEffect ==
  ASSUME CacheInv, Ideintr
  PROVE  \E b \in Bufs :
           /\ idequeue # <<>> /\ b = Head(idequeue) /\ irq /\ irq' = FALSE /\ Queued(b)
           /\ idequeue' \in Seq(Bufs) /\ IsInjective(idequeue')
           /\ \A c : Queued(c)' <=> Queued(c) /\ c # b
           /\ idequeue' # <<>> => /\ Head(idequeue') \in Bufs \ {b} /\ Queued(Head(idequeue'))
                                 /\ request' = Idestart(Head(idequeue'))
           /\ idequeue' = <<>> => request' = NoRequest
           /\ data' \in [Bufs -> Vals]
           /\ \A c \in Bufs \ {b} : data'[c] = data[c]
           /\ "DIRTY" \in flags[b] => data'[b] = data[b] /\ disk[blockno[b]] = data[b]
           /\ "DIRTY" \notin flags[b] /\ ~Errors => data'[b] = disk[blockno[b]]
           /\ flags' \in [Bufs -> SUBSET Flags] /\ flags'[b] = (flags[b] \cup {"VALID"}) \ {"DIRTY"}
           /\ \A c \in Bufs \ {b} : flags'[c] = flags[c]
           /\ pc' = Wakeup(b)
           /\ UNCHANGED <<blockno, lru, disk, want, held>>
<1> DEFINE b == Head(idequeue)
<1>1. TypeOK /\ irq /\ irq' = FALSE /\ idequeue # <<>> /\ idequeue' = Tail(idequeue)
      /\ pc' = Wakeup(b) /\ UNCHANGED <<blockno, lru, disk, want, held>>
      /\ flags' = [flags EXCEPT ![b] = (flags[b] \cup {"VALID"}) \ {"DIRTY"}]
      /\ request' = IF Tail(idequeue) = <<>> THEN NoRequest ELSE Idestart(Head(Tail(idequeue)))
  <2>1. TypeOK /\ b \in Bufs
    BY QueueFacts DEF CacheInv, Ideintr
  <2>2. QED
    BY <2>1 DEF Ideintr, bcache, TypeOK
<1>2. \/ "DIRTY" \notin flags[b] /\ data' = [data EXCEPT ![b] = disk[request.block]]
      \/ ("DIRTY" \in flags[b] \/ Errors) /\ data' = data
  BY DEF Ideintr
<1>3. idequeue \in Seq(Bufs) /\ IsInjective(idequeue)
  BY <1>1 DEF TypeOK
<1>4. /\ b \in Bufs /\ b \in Range(idequeue)
      /\ idequeue' \in Seq(Bufs) /\ IsInjective(idequeue')
      /\ Range(idequeue') = Range(idequeue) \ {b}
      /\ idequeue' # <<>> => Head(idequeue') \in Range(idequeue) \ {b}
  BY <1>1, <1>3, Dequeue
<1>5. blockno[b] \in Blocks /\ Queued(b)
  BY <1>4, QueueFacts DEF Queued
<1>6. /\ request = Idestart(b) /\ request.block = blockno[b] /\ request.val = data[b]
      /\ request.write <=> "DIRTY" \in flags[b]
  BY <1>1, <1>4, <1>5, RequestIs DEF CacheInv, Served
<1>7. "DIRTY" \in flags[b] => disk[blockno[b]] = data[b]
  BY <1>1, <1>6 DEF CacheInv, Served
<1> HIDE DEF b
<1>8. disk[blockno[b]] \in Vals
  BY <1>1, <1>5 DEF TypeOK
<1>9. /\ data' \in [Bufs -> Vals]
      /\ \A c \in Bufs \ {b} : data'[c] = data[c]
      /\ "DIRTY" \in flags[b] => data'[b] = data[b]
      /\ "DIRTY" \notin flags[b] /\ ~Errors => data'[b] = disk[blockno[b]]
  <2>1. CASE "DIRTY" \notin flags[b] /\ data' = [data EXCEPT ![b] = disk[blockno[b]]]
    BY <1>1, <1>4, <1>8, <2>1 DEF TypeOK
  <2>2. CASE ("DIRTY" \in flags[b] \/ Errors) /\ data' = data
    BY <1>1, <2>2 DEF TypeOK
  <2>3. QED
    BY <1>2, <1>6, <2>1, <2>2
<1>10. (flags[b] \cup {"VALID"}) \ {"DIRTY"} \in SUBSET Flags
  BY <1>1, <1>4 DEF TypeOK, Flags
<1>11. /\ flags' \in [Bufs -> SUBSET Flags] /\ flags'[b] = (flags[b] \cup {"VALID"}) \ {"DIRTY"}
       /\ \A c \in Bufs \ {b} : flags'[c] = flags[c]
  BY <1>1, <1>4, <1>10, FlagsAt
<1>12. \A c : Queued(c)' <=> Queued(c) /\ c # b
  BY <1>4 DEF Queued
<1>13. idequeue' # <<>> => /\ Head(idequeue') \in Bufs \ {b} /\ Queued(Head(idequeue'))
                           /\ request' = Idestart(Head(idequeue'))
  BY <1>1, <1>4, QueueFacts DEF Queued
<1>14. b = Head(idequeue) /\ (idequeue' = <<>> => request' = NoRequest)
  BY <1>1 DEF b
<1>15. QED
  BY <1>1, <1>4, <1>5, <1>7, <1>9, <1>11, <1>12, <1>13, <1>14

\* The interrupt handler.
LEMMA IntrKeeps ==
  ASSUME CacheInv, Ideintr
  PROVE  CacheInv'
<1>1. PICK b \in Bufs :
        /\ idequeue # <<>> /\ b = Head(idequeue) /\ irq /\ irq' = FALSE /\ Queued(b)
        /\ idequeue' \in Seq(Bufs) /\ IsInjective(idequeue')
        /\ \A c : Queued(c)' <=> Queued(c) /\ c # b
        /\ idequeue' # <<>> => /\ Head(idequeue') \in Bufs \ {b} /\ Queued(Head(idequeue'))
                              /\ request' = Idestart(Head(idequeue'))
        /\ idequeue' = <<>> => request' = NoRequest
        /\ data' \in [Bufs -> Vals]
        /\ \A c \in Bufs \ {b} : data'[c] = data[c]
        /\ "DIRTY" \in flags[b] => data'[b] = data[b] /\ disk[blockno[b]] = data[b]
        /\ "DIRTY" \notin flags[b] /\ ~Errors => data'[b] = disk[blockno[b]]
        /\ flags' \in [Bufs -> SUBSET Flags] /\ flags'[b] = (flags[b] \cup {"VALID"}) \ {"DIRTY"}
        /\ \A c \in Bufs \ {b} : flags'[c] = flags[c]
        /\ pc' = Wakeup(b)
        /\ UNCHANGED <<blockno, lru, disk, want, held>>
  BY IntrEffect
<1>2. TypeOK
  BY DEF CacheInv
<1>3. /\ pc' \in [Proc -> PCs]
      /\ \A q \in Proc :
           /\ pc[q] = "bsleep" /\ held[q] = b => pc'[q] = "bget"
           /\ pc[q] = "iosleep" /\ held[q] = b => pc'[q] = "iocheck"
           /\ pc[q] \notin {"bsleep", "iosleep"} \/ held[q] # b => pc'[q] = pc[q]
  BY <1>1, <1>2, WakeFacts, SMTT(20)
<1>4. \A q \in Proc : pc'[q] \in Working <=> pc[q] \in Working
  BY <1>3 DEF Working
<1>5. /\ "VALID" \in flags'[b] /\ "DIRTY" \notin flags'[b]
      /\ "BUSY" \in flags'[b] <=> "BUSY" \in flags[b]
  BY <1>1
<1>6. TypeOK'
  <2>1. request' \in [write : BOOLEAN, block : Blocks, val : Vals] \cup {NoRequest}
    BY <1>1, <1>2, RequestIs, QueueFacts, SMTT(20)
  <2>2. lru' \in Seq(Bufs) /\ Len(lru') = NBUF /\ Range(lru') = Bufs
    BY <1>1, <1>2 DEF TypeOK
  <2>3. QED
    BY <1>1, <1>2, <1>3, <2>1, <2>2, ZenonT(30) DEF TypeOK
<1>7. Holding'
  <2>1. \A c \in Bufs : "BUSY" \in flags'[c] <=> "BUSY" \in flags[c]
    BY <1>1, <1>5
  <2>2. \A q \in Proc : /\ pc'[q] = "bsleep" => pc[q] = "bsleep"
                        /\ pc'[q] \notin {"user", "panic"} => pc[q] \notin {"user", "panic"}
    BY <1>3
  <2>3. QED
    BY <1>1, <1>4, <2>1, <2>2 DEF CacheInv, Holding
<1>8. OneOwner' /\ OneBuffer'
  BY <1>1, <1>4, ZenonT(30) DEF CacheInv, OneOwner, OneBuffer
<1>9. BusyOwned'
  BY <1>1, <1>4, <1>5 DEF CacheInv, BusyOwned
<1>10. PICK o \in Proc : pc[o] = "iosleep" /\ held[o] = b
  BY <1>1 DEF CacheInv, QueueOwned
<1>11. ASSUME NEW q \in Proc \ {o}, pc[q] \in Working
       PROVE  /\ held[q] \in Bufs \ {b} /\ pc'[q] = pc[q] /\ held'[q] = held[q]
              /\ flags'[held[q]] = flags[held[q]]
              /\ Queued(held[q])' <=> Queued(held[q])
  <2>1. held[q] \in Bufs \ {b}
    BY <1>10, <1>11 DEF CacheInv, OneOwner, Holding, Working
  <2>2. QED
    BY <1>1, <1>3, <2>1
<1>12. pc'[o] = "iocheck" /\ held'[o] = b /\ ~Queued(held[o])'
  BY <1>1, <1>3, <1>10
<1>13. Stages'
  <2> SUFFICES ASSUME NEW q \in Proc, pc'[q] \in Working
               PROVE  /\ pc'[q] = "bread" =>
                           /\ "VALID" \notin flags'[held'[q]] /\ "DIRTY" \notin flags'[held'[q]]
                           /\ ~Queued(held[q])'
                      /\ pc'[q] = "bwrite" =>
                           /\ "VALID" \in flags'[held'[q]] /\ "DIRTY" \in flags'[held'[q]]
                           /\ ~Queued(held[q])'
                      /\ pc'[q] = "iosleep" =>
                           /\ "VALID" \in flags'[held'[q]] <=> "DIRTY" \in flags'[held'[q]]
                           /\ Queued(held[q])'
                      /\ pc'[q] = "iocheck" =>
                           /\ "VALID" \in flags'[held'[q]] /\ "DIRTY" \notin flags'[held'[q]]
                           /\ ~Queued(held[q])'
                      /\ pc'[q] = "hold" => "VALID" \in flags'[held'[q]] /\ ~Queued(held[q])'
    BY DEF Stages, Working
  <2>1. CASE q = o
    BY <1>5, <1>12, <2>1
  <2>2. CASE q # o
    BY <1>4, <1>11, <2>2, ZenonT(30) DEF CacheInv, Stages
  <2>3. QED
    BY <2>1, <2>2
<1>14. Resting'
  <2>1. "BUSY" \in flags[b]
    BY <1>1, QueueFacts
  <2>2. QED
    BY <1>1, <1>5, <2>1 DEF CacheInv, Resting
<1>15. QueueOwned'
  <2> SUFFICES ASSUME NEW c \in Bufs, Queued(c), c # b
               PROVE  \E q \in Proc : pc'[q] = "iosleep" /\ held'[q] = c
    BY <1>1 DEF QueueOwned
  <2>1. PICK q \in Proc : pc[q] = "iosleep" /\ held[q] = c
    BY DEF CacheInv, QueueOwned
  <2>2. QED
    BY <1>1, <1>3, <2>1
<1>16. Served'
  <2>1. ASSUME NEW c \in Bufs \ {b} PROVE Idestart(c)' = Idestart(c)
    BY <1>1 DEF Idestart
  <2>2. ASSUME idequeue' # <<>> PROVE request' = Idestart(Head(idequeue))'
    <3>1. PICK c \in Bufs \ {b} : c = Head(idequeue')
      BY <1>1, <2>2
    <3>2. request' = Idestart(c)
      BY <1>1, <2>2, <3>1
    <3>3. Idestart(Head(idequeue))' = Idestart(c)'
      BY <3>1 DEF Idestart
    <3>4. QED
      BY <2>1, <3>2, <3>3
  <2>3. QED
    BY <1>1, <2>2 DEF Served
<1>17. ~Errors => CleanIsOnDisk'
  <2> SUFFICES ASSUME ~Errors, NEW c \in Bufs, flags'[c] \cap {"VALID", "DIRTY"} = {"VALID"}
               PROVE  data'[c] = disk[blockno[c]]
    BY <1>1 DEF CleanIsOnDisk
  <2>1. CASE c = b
    BY <1>1, <2>1
  <2>2. CASE c # b
    BY <1>1, <2>2 DEF CacheInv, CleanIsOnDisk
  <2>3. QED
    BY <2>1, <2>2
<1>18. QED
  BY <1>6, <1>7, <1>8, <1>9, <1>13, <1>14, <1>15, <1>16, <1>17 DEF CacheInv

-----------------------------------------------------------------------------
(* The theorems *)

\* Every step keeps the invariant.
LEMMA NextInv == CacheInv /\ [Next]_vars => CacheInv'
<1> SUFFICES ASSUME CacheInv, [Next]_vars PROVE CacheInv'
  OBVIOUS
<1>1. CASE UNCHANGED vars
  <2>1. TypeOK' /\ \A c : (Queued(c)' <=> Queued(c)) /\ (Idestart(c)' = Idestart(c))
    BY <1>1 DEF vars, CacheInv, TypeOK, Range, IsInjective, Queued, Idestart
  <2>2. Served'
    BY <1>1 DEF vars, CacheInv, Served, Idestart
  <2>3. QED
    BY <1>1, <2>1, <2>2, ZenonT(30) DEF vars, CacheInv, Holding, OneOwner, BusyOwned, OneBuffer, Stages,
                            Resting, QueueOwned, CleanIsOnDisk
<1>2. ASSUME NEW p \in Proc, Bget(p) PROVE CacheInv'
  BY <1>2, HitKeeps, SleepKeeps, MissKeeps DEF Bget
<1>3. ASSUME NEW p \in Proc, Bread(p) \/ Iderw(p) \/ IderwCheck(p) PROVE CacheInv'
  BY <1>3, BreadKeeps, IderwKeeps, CheckKeeps
<1>4. ASSUME NEW p \in Proc, LogWrite(p) \/ Bwrite(p) \/ Brelse(p) PROVE CacheInv'
  BY <1>4, ChangeKeeps, BrelseKeeps
<1>5. CASE Ideintr \/ DiskDone
  BY <1>5, IntrKeeps, DiskKeeps
<1>6. QED
  BY <1>1, <1>2, <1>3, <1>4, <1>5, Zenon DEF Next

\* The invariant holds in every reachable state.
THEOREM CacheInvariant == Spec => []CacheInv
  BY InitInv, NextInv, PTL DEF Spec

\* bget gives a block one buffer and a buffer one owner.
THEOREM OwnersExclusive == Spec => []OneOwnerOneBuffer
<1>1. CacheInv => OneOwnerOneBuffer
  <2> SUFFICES ASSUME CacheInv, NEW b \in Bufs
               PROVE  IF "BUSY" \in flags[b] THEN \E p \in Proc : Owners(b) = {p}
                                              ELSE Owners(b) = {}
    BY DEF CacheInv, OneBuffer, OneOwnerOneBuffer
  <2>1. Owners(b) = {p \in Proc : held[p] = b /\ pc[p] \in Working}
    BY DEF Owners, Working
  <2>2. CASE "BUSY" \in flags[b]
    <3>1. PICK p \in Proc : pc[p] \in Working /\ held[p] = b
      BY <2>2 DEF CacheInv, BusyOwned
    <3>2. Owners(b) = {p}
      BY <2>1, <3>1 DEF CacheInv, OneOwner
    <3>3. QED
      BY <2>2, <3>2
  <2>3. CASE "BUSY" \notin flags[b]
    <3>1. Owners(b) = {}
      BY <2>1, <2>3 DEF CacheInv, Holding
    <3>2. QED
      BY <2>3, <3>1
  <2>4. QED
    BY <2>2, <2>3
<1>2. QED
  BY <1>1, CacheInvariant, PTL

\* The controller works for the head of the queue, and is idle only when the
\* queue is empty (iderw, ideintr, idestart).
THEOREM HeadIsServed == Spec => []QueueIsServed
<1>1. CacheInv => QueueIsServed
  <2> SUFFICES ASSUME CacheInv PROVE QueueIsServed
    OBVIOUS
  <2>1. CASE idequeue = <<>>
    BY <2>1 DEF CacheInv, Served, QueueIsServed
  <2>2. CASE idequeue # <<>>
    <3>1. /\ request = Idestart(Head(idequeue)) /\ Head(idequeue) \in Bufs
          /\ blockno[Head(idequeue)] \in Blocks /\ TypeOK
      BY <2>2, QueueFacts DEF CacheInv, Served
    <3>2. QED
      BY <2>2, <3>1, RequestIs DEF QueueIsServed
  <2>3. QED
    BY <2>1, <2>2
<1>2. QED
  BY <1>1, CacheInvariant, PTL

\* Who sleeps in iderw has its buffer in the queue, who sleeps in bget waits for
\* a busy buffer: the wakeup of ideintr or brelse is still to come.
THEOREM SleepersWaitForSomeone == Spec => []SleepersHaveAWaker
<1>1. CacheInv => SleepersHaveAWaker
  BY DEF CacheInv, Stages, Holding, Queued, SleepersHaveAWaker
<1>2. QED
  BY <1>1, CacheInvariant, PTL

\* On a disk without errors a valid buffer with nothing to write is what the
\* disk holds.
THEOREM CleanBuffersOnDisk ==
  ASSUME Errors = FALSE
  PROVE  Spec => []CleanIsOnDisk
<1>1. CacheInv => CleanIsOnDisk
  BY DEF CacheInv
<1>2. QED
  BY <1>1, CacheInvariant, PTL

-----------------------------------------------------------------------------
(* One value and one holder per block *)

Loaded(b) == "VALID" \in flags[b] \/ "DIRTY" \in flags[b]

\* The value of a block is its buffer's if that is loaded, and the disk's if not.
ValueIs ==
  \A k \in Blocks :
    /\ \A b \in Bufs : blockno[b] = k /\ Loaded(b) => Contents(k) = data[b]
    /\ (\A b \in Bufs : blockno[b] = k => ~Loaded(b)) => Contents(k) = disk[k]

\* Its holder is the process between bget and brelse of it.
HolderIs ==
  \A k \in Blocks :
    /\ \A p \in Proc : pc[p] \in Working /\ want[p] = k => Holder(k) = p
    /\ (\A p \in Proc : pc[p] \in Working => want[p] # k) => Holder(k) = NoProc

\* The invariant makes both well defined.
LEMMA ValueRule == CacheInv => ValueIs
<1> SUFFICES ASSUME CacheInv, NEW k \in Blocks
             PROVE  /\ \A b \in Bufs : blockno[b] = k /\ Loaded(b) => Contents(k) = data[b]
                    /\ (\A b \in Bufs : blockno[b] = k => ~Loaded(b)) => Contents(k) = disk[k]
  BY DEF ValueIs
<1> DEFINE loaded == {b \in Cached(k) : flags[b] \cap {"VALID", "DIRTY"} # {}}
<1>1. loaded = {b \in Bufs : blockno[b] = k /\ Loaded(b)}
  BY DEF Cached, Loaded
<1>2. Contents(k) = IF loaded = {} THEN disk[k] ELSE data[CHOOSE b \in loaded : TRUE]
  BY DEF Contents
<1>3. \A a, b \in loaded : a = b
  BY <1>1, BufCacheAssumption DEF CacheInv, OneBuffer
<1> HIDE DEF loaded
<1>4. \A b \in loaded : (CHOOSE a \in loaded : TRUE) = b
  BY <1>3
<1>5. QED
  BY <1>1, <1>2, <1>4

\* Likewise for the holder.
LEMMA HolderRule == CacheInv => HolderIs
<1> SUFFICES ASSUME CacheInv, NEW k \in Blocks
             PROVE  /\ \A p \in Proc : pc[p] \in Working /\ want[p] = k => Holder(k) = p
                    /\ (\A p \in Proc : pc[p] \in Working => want[p] # k) => Holder(k) = NoProc
  BY DEF HolderIs
<1> DEFINE inside == UNION {Owners(b) : b \in Cached(k)}
<1>1. inside = {p \in Proc : pc[p] \in Working /\ want[p] = k}
  <2>1. \A p \in Proc : pc[p] \in Working => held[p] \in Bufs /\ blockno[held[p]] = want[p]
    BY HoldFacts
  <2>2. ASSUME NEW p \in inside PROVE p \in Proc /\ pc[p] \in Working /\ want[p] = k
    BY <2>1 DEF Owners, Cached, Working
  <2>3. ASSUME NEW p \in Proc, pc[p] \in Working, want[p] = k PROVE p \in inside
    <3>1. held[p] \in Cached(k) /\ p \in Owners(held[p])
      BY <2>1, <2>3 DEF Owners, Cached, Working
    <3>2. QED
      BY <3>1
  <2> HIDE DEF inside
  <2>4. QED
    BY <2>2, <2>3
<1>2. Holder(k) = IF inside = {} THEN NoProc ELSE CHOOSE p \in inside : TRUE
  BY DEF Holder
<1> HIDE DEF inside
<1>3. ASSUME NEW p \in inside, NEW q \in inside PROVE p = q
  <2>1. /\ held[p] \in Bufs /\ held[q] \in Bufs /\ blockno[held[p]] = k /\ blockno[held[q]] = k
        /\ k # NoBlock
    BY <1>1, <1>3, HoldFacts
  <2>2. held[p] = held[q]
    BY <2>1 DEF CacheInv, OneBuffer
  <2>3. QED
    BY <1>1, <2>2 DEF CacheInv, OneOwner
<1>4. \A p \in inside : (CHOOSE q \in inside : TRUE) = p
  BY <1>3
<1>5. QED
  BY <1>1, <1>2, <1>4

\* Both hold after every step, too.
LEMMA NextRules == CacheInv' => ValueIs' /\ HolderIs'
  BY ValueRule, HolderRule, PTL

\* A step after which the same processes have the same blocks.
LEMMA HoldersStay ==
  ASSUME CacheInv, CacheInv',
         \A q \in Proc : /\ pc'[q] \in Working <=> pc[q] \in Working
                         /\ pc[q] \in Working => want'[q] = want[q]
  PROVE  \A k \in Blocks : Holder(k)' = Holder(k)
<1> TAKE k \in Blocks
<1>1. HolderIs /\ HolderIs'
  BY HolderRule, NextRules
<1>2. CASE \E p \in Proc : pc[p] \in Working /\ want[p] = k
  BY <1>1, <1>2 DEF HolderIs
<1>3. CASE \A p \in Proc : pc[p] \in Working => want[p] # k
  BY <1>1, <1>3 DEF HolderIs
<1>4. QED
  BY <1>2, <1>3

\* A step that loads no buffer and changes none.
LEMMA ValuesStay ==
  ASSUME CacheInv, CacheInv', disk' = disk,
         \A b \in Bufs : blockno'[b] = blockno[b] /\ data'[b] = data[b] /\ (Loaded(b)' <=> Loaded(b))
  PROVE  \A k \in Blocks : Contents(k)' = Contents(k)
<1> TAKE k \in Blocks
<1>1. ValueIs /\ ValueIs'
  BY ValueRule, NextRules
<1>2. CASE \E b \in Bufs : blockno[b] = k /\ Loaded(b)
  BY <1>1, <1>2, SMTT(20) DEF ValueIs
<1>3. CASE \A b \in Bufs : blockno[b] = k => ~Loaded(b)
  BY <1>1, <1>3 DEF ValueIs
<1>4. QED
  BY <1>2, <1>3

\* The four kinds of step BlockStore.tla allows, block by block.
LEMMA AbstractSteps ==
  ASSUME NEW p \in Proc, NEW k \in Blocks, NEW v \in Vals
  PROVE  /\ /\ \A j \in Blocks : Contents(j)' = Contents(j) /\ Holder(j)' = Holder(j)
            => UNCHANGED BS!vars
         /\ /\ Holder(k) = NoProc /\ Holder(k)' = p
            /\ \A j \in Blocks \ {k} : Holder(j)' = Holder(j)
            /\ \A j \in Blocks : Contents(j)' = Contents(j)
            => BS!Next
         /\ /\ Holder(k) = p /\ Holder(k)' = NoProc
            /\ \A j \in Blocks \ {k} : Holder(j)' = Holder(j)
            /\ \A j \in Blocks : Contents(j)' = Contents(j)
            => BS!Next
         /\ /\ Holder(k) = p /\ Contents(k)' = v
            /\ \A j \in Blocks \ {k} : Contents(j)' = Contents(j)
            /\ \A j \in Blocks : Holder(j)' = Holder(j)
            => BS!Next
<1> DEFINE val == [j \in Blocks |-> Contents(j)]
           holder == [j \in Blocks |-> Holder(j)]
<1>1. ASSUME \A j \in Blocks : Contents(j)' = Contents(j) PROVE val' = val
  BY <1>1
<1>2. ASSUME \A j \in Blocks : Holder(j)' = Holder(j) PROVE holder' = holder
  BY <1>2
<1>3. ASSUME NEW h, Holder(k)' = h, \A j \in Blocks \ {k} : Holder(j)' = Holder(j)
      PROVE  holder' = [holder EXCEPT ![k] = h]
  BY <1>3
<1>4. ASSUME Contents(k)' = v, \A j \in Blocks \ {k} : Contents(j)' = Contents(j)
      PROVE  val' = [val EXCEPT ![k] = v]
  BY <1>4
<1>5. holder[k] = Holder(k)
  OBVIOUS
<1>6. ASSUME \A j \in Blocks : Contents(j)' = Contents(j) /\ Holder(j)' = Holder(j)
      PROVE  UNCHANGED BS!vars
  BY <1>1, <1>2, <1>6 DEF BS!vars
<1>7. ASSUME Holder(k) = NoProc, Holder(k)' = p,
             \A j \in Blocks \ {k} : Holder(j)' = Holder(j),
             \A j \in Blocks : Contents(j)' = Contents(j)
      PROVE  BS!Next
  <2>1. BS!Hold(p, k)
    BY <1>1, <1>3, <1>5, <1>7 DEF BS!Hold
  <2>2. QED
    BY <2>1 DEF BS!Next
<1>8. ASSUME Holder(k) = p, Holder(k)' = NoProc,
             \A j \in Blocks \ {k} : Holder(j)' = Holder(j),
             \A j \in Blocks : Contents(j)' = Contents(j)
      PROVE  BS!Next
  <2>1. BS!LetGo(p, k)
    BY <1>1, <1>3, <1>5, <1>8 DEF BS!LetGo
  <2>2. QED
    BY <2>1 DEF BS!Next
<1>9. ASSUME Holder(k) = p, Contents(k)' = v,
             \A j \in Blocks \ {k} : Contents(j)' = Contents(j),
             \A j \in Blocks : Holder(j)' = Holder(j)
      PROVE  BS!Next
  <2>1. BS!Change(p, k)
    BY <1>2, <1>4, <1>5, <1>9 DEF BS!Change
  <2>2. QED
    BY <2>1 DEF BS!Next
<1>10. QED
  BY <1>6, <1>7, <1>8, <1>9, Zenon

\* A step by which p comes to have its block, and nobody loses one.
LEMMA HolderTakes ==
  ASSUME CacheInv, CacheInv', NEW p \in Proc, pc[p] \notin Working, pc'[p] \in Working,
         want[p] \in Blocks, want' = want,
         \A q \in Proc \ {p} : pc'[q] = pc[q]
  PROVE  /\ Holder(want[p]) = NoProc /\ Holder(want[p])' = p
         /\ \A j \in Blocks \ {want[p]} : Holder(j)' = Holder(j)
<1>1. HolderIs /\ HolderIs'
  BY HolderRule, NextRules
<1>2. \A j \in Blocks :
        /\ \A q \in Proc : pc'[q] \in Working /\ want[q] = j => Holder(j)' = q
        /\ (\A q \in Proc : pc'[q] \in Working => want[q] # j) => Holder(j)' = NoProc
  BY <1>1 DEF HolderIs
<1>3. Holder(want[p])' = p
  BY <1>2
<1>4. ASSUME NEW q \in Proc, pc[q] \in Working, want[q] = want[p] PROVE FALSE
  <2>1. q # p /\ pc'[q] \in Working
    BY <1>4
  <2>2. Holder(want[p])' = q
    BY <1>2, <1>4, <2>1
  <2>3. QED
    BY <1>3, <2>1, <2>2
<1>5. Holder(want[p]) = NoProc
  BY <1>1, <1>4 DEF HolderIs
<1>6. ASSUME NEW j \in Blocks \ {want[p]} PROVE Holder(j)' = Holder(j)
  <2>1. \A q \in Proc : want[q] = j => q # p /\ pc'[q] = pc[q]
    BY <1>6
  <2>2. CASE \E q \in Proc : pc[q] \in Working /\ want[q] = j
    BY <1>1, <1>2, <2>1, <2>2, ZenonT(30) DEF HolderIs
  <2>3. CASE \A q \in Proc : pc[q] \in Working => want[q] # j
    BY <1>1, <1>2, <2>1, <2>3 DEF HolderIs
  <2>4. QED
    BY <2>2, <2>3
<1>7. QED
  BY <1>3, <1>5, <1>6

\* bget of a block with a free buffer: the process holds the block.
LEMMA HitHolds ==
  ASSUME CacheInv, CacheInv', NEW p \in Proc, BgetHit(p)
  PROVE  BS!Next
<1>1. PICK b \in Bufs :
        /\ want[p] \in Blocks /\ "BUSY" \notin flags[b]
        /\ flags'[b] = flags[b] \cup {"BUSY"}
        /\ \A c \in Bufs \ {b} : flags'[c] = flags[c]
        /\ pc[p] = "bget" /\ pc'[p] = "hold" /\ \A q \in Proc \ {p} : pc'[q] = pc[q]
        /\ UNCHANGED <<blockno, data, disk, want>>
  BY HitEffect
<1>2. \A c \in Bufs : Loaded(c)' <=> Loaded(c)
  BY <1>1 DEF Loaded
<1>3. \A j \in Blocks : Contents(j)' = Contents(j)
  BY <1>1, <1>2, ValuesStay
<1>4. /\ Holder(want[p]) = NoProc /\ Holder(want[p])' = p
      /\ \A j \in Blocks \ {want[p]} : Holder(j)' = Holder(j)
  BY <1>1, HolderTakes DEF Working
<1>5. PICK v \in Vals : TRUE
  BY <1>1 DEF CacheInv, TypeOK
<1>6. QED
  BY <1>1, <1>3, <1>4, <1>5, AbstractSteps, Zenon

\* bget that recycles a buffer: what the buffer had is on the disk already.
LEMMA MissHolds ==
  ASSUME CacheInv, CacheInv', ~Errors, NEW p \in Proc, BgetMiss(p), Recyclable # {}
  PROVE  BS!Next
<1>1. PICK b \in Bufs :
        /\ "BUSY" \notin flags[b] /\ "DIRTY" \notin flags[b]
        /\ want[p] \in Blocks /\ \A c \in Bufs : blockno[c] # want[p]
        /\ flags'[b] = {"BUSY"} /\ \A c \in Bufs \ {b} : flags'[c] = flags[c]
        /\ blockno'[b] = want[p] /\ \A c \in Bufs \ {b} : blockno'[c] = blockno[c]
        /\ pc[p] = "bget" /\ pc'[p] = "bread" /\ \A q \in Proc \ {p} : pc'[q] = pc[q]
        /\ UNCHANGED <<data, disk, want>>
  BY MissEffect
<1>2. ValueIs /\ ValueIs'
  BY ValueRule, NextRules
<1>3. /\ ~Loaded(b)'
      /\ \A c \in Bufs \ {b} : Loaded(c)' <=> Loaded(c)
  BY <1>1 DEF Loaded
<1>4. ASSUME NEW j \in Blocks PROVE Contents(j)' = Contents(j)
  <2>1. CASE \E c \in Bufs \ {b} : blockno[c] = j /\ Loaded(c)
    BY <1>1, <1>2, <1>3, <2>1, SMTT(20) DEF ValueIs
  <2>2. CASE \A c \in Bufs \ {b} : blockno[c] = j => ~Loaded(c)
    <3>1. Contents(j)' = disk[j]
      BY <1>1, <1>2, <1>3, <2>2, ZenonT(30) DEF ValueIs
    <3>2. CASE blockno[b] = j /\ Loaded(b)
      <4>1. flags[b] \cap {"VALID", "DIRTY"} = {"VALID"}
        BY <1>1, <3>2 DEF Loaded
      <4>2. data[b] = disk[j]
        BY <3>2, <4>1 DEF CacheInv, CleanIsOnDisk
      <4>3. QED
        BY <1>2, <3>1, <3>2, <4>2 DEF ValueIs
    <3>3. CASE ~(blockno[b] = j /\ Loaded(b))
      BY <1>2, <2>2, <3>1, <3>3 DEF ValueIs
    <3>4. QED
      BY <3>2, <3>3
  <2>3. QED
    BY <2>1, <2>2
<1>5. /\ Holder(want[p]) = NoProc /\ Holder(want[p])' = p
      /\ \A j \in Blocks \ {want[p]} : Holder(j)' = Holder(j)
  BY <1>1, HolderTakes DEF Working
<1>6. PICK v \in Vals : TRUE
  BY <1>1 DEF CacheInv, TypeOK
<1>7. QED
  BY <1>1, <1>4, <1>5, <1>6, AbstractSteps, Zenon

\* bwrite and log_write: the holder changes the block.
LEMMA ChangeChanges ==
  ASSUME CacheInv, CacheInv', NEW p \in Proc, Bwrite(p) \/ LogWrite(p)
  PROVE  BS!Next
<1>0. PICK k \in Blocks, b \in Bufs : k = want[p] /\ b = held[p] /\ blockno[b] = k /\ k # NoBlock
  BY HoldFacts DEF Bwrite, LogWrite, Working
<1>1. PICK v \in Vals :
        /\ pc[p] = "hold" /\ data'[b] = v /\ \A c \in Bufs \ {b} : data'[c] = data[c]
        /\ flags'[b] = flags[b] \cup {"DIRTY"} /\ \A c \in Bufs \ {b} : flags'[c] = flags[c]
        /\ pc'[p] \in {"hold", "bwrite"} /\ \A q \in Proc \ {p} : pc'[q] = pc[q]
        /\ UNCHANGED <<blockno, disk, want>>
  BY <1>0, ChangeEffect
<1>2. blockno[b] = k
  BY <1>0
<1>3. HolderIs /\ ValueIs /\ ValueIs'
  BY ValueRule, HolderRule, NextRules
<1>4. Holder(k) = p
  BY <1>0, <1>1, <1>3 DEF HolderIs, Working
<1>5. \A j \in Blocks : Holder(j)' = Holder(j)
  BY <1>1, HoldersStay DEF Working
<1>6. \A c \in Bufs : (Loaded(c)' <=> c = b \/ Loaded(c)) /\ blockno'[c] = blockno[c]
  BY <1>1 DEF Loaded
<1>7. Contents(k)' = v
  BY <1>1, <1>2, <1>3, <1>6 DEF ValueIs
<1>8. ASSUME NEW j \in Blocks \ {k} PROVE Contents(j)' = Contents(j)
  <2>1. CASE \E c \in Bufs : blockno[c] = j /\ Loaded(c)
    BY <1>1, <1>2, <1>3, <1>6, <1>8, <2>1, SMTT(20) DEF ValueIs
  <2>2. CASE \A c \in Bufs : blockno[c] = j => ~Loaded(c)
    BY <1>1, <1>2, <1>3, <1>6, <1>8, <2>2, SMTT(20) DEF ValueIs
  <2>3. QED
    BY <2>1, <2>2
<1>9. QED
  BY <1>2, <1>4, <1>5, <1>7, <1>8, AbstractSteps, Zenon

\* brelse: nobody holds the block any more.
LEMMA BrelseLetsGo ==
  ASSUME CacheInv, CacheInv', NEW p \in Proc, Brelse(p)
  PROVE  BS!Next
<1>1. /\ pc[p] = "hold" /\ flags'[held[p]] = flags[held[p]] \ {"BUSY"}
      /\ \A c \in Bufs \ {held[p]} : flags'[c] = flags[c]
      /\ pc'[p] = "user"
      /\ \A q \in Proc \ {p} : (pc'[q] \in Working <=> pc[q] \in Working) /\ want'[q] = want[q]
      /\ UNCHANGED <<blockno, data, disk>>
  BY BrelseEffect DEF Working
<1>2. PICK k \in Blocks : k = want[p] /\ held[p] \in Bufs /\ blockno[held[p]] = k
  BY <1>1, HoldFacts DEF Working
<1>3. \A c \in Bufs : Loaded(c)' <=> Loaded(c)
  BY <1>1 DEF Loaded
<1>4. \A j \in Blocks : Contents(j)' = Contents(j)
  BY <1>1, <1>3, ValuesStay
<1>5. HolderIs /\ HolderIs'
  BY HolderRule, NextRules
<1>6. \A q \in Proc \ {p} : pc[q] \in Working => want[q] # k
  BY <1>1, <1>2, <1>5, ZenonT(30) DEF HolderIs, Working
<1>7. Holder(k) = p
  BY <1>1, <1>2, <1>5 DEF HolderIs, Working
<1>8. \A q \in Proc : pc'[q] \in Working => q # p /\ want'[q] = want[q] /\ pc[q] \in Working
  BY <1>1 DEF Working
<1>9. Holder(k)' = NoProc
  BY <1>5, <1>6, <1>8 DEF HolderIs
<1>10. ASSUME NEW j \in Blocks \ {k} PROVE Holder(j)' = Holder(j)
  <2>1. CASE \E q \in Proc : pc[q] \in Working /\ want[q] = j
    BY <1>1, <1>2, <1>5, <1>10, <2>1, SMTT(20) DEF HolderIs
  <2>2. CASE \A q \in Proc : pc[q] \in Working => want[q] # j
    BY <1>5, <1>8, <2>2 DEF HolderIs
  <2>3. QED
    BY <2>1, <2>2
<1>11. PICK v \in Vals : TRUE
  BY <1>2 DEF CacheInv, TypeOK
<1>12. QED
  BY <1>4, <1>7, <1>9, <1>10, <1>11, AbstractSteps, Zenon

\* The interrupt: what was read becomes the buffer's, what was written stays.
LEMMA IntrStutters ==
  ASSUME CacheInv, CacheInv', ~Errors, Ideintr
  PROVE  \A j \in Blocks : Contents(j)' = Contents(j) /\ Holder(j)' = Holder(j)
<1>1. PICK b \in Bufs :
        /\ Queued(b)
        /\ \A c \in Bufs \ {b} : data'[c] = data[c]
        /\ "DIRTY" \in flags[b] => data'[b] = data[b]
        /\ "DIRTY" \notin flags[b] => data'[b] = disk[blockno[b]]
        /\ flags'[b] = (flags[b] \cup {"VALID"}) \ {"DIRTY"}
        /\ \A c \in Bufs \ {b} : flags'[c] = flags[c]
        /\ pc' = Wakeup(b)
        /\ UNCHANGED <<blockno, disk, want>>
  BY IntrEffect
<1>2. \A q \in Proc : pc'[q] \in Working <=> pc[q] \in Working
  BY <1>1, WakeFacts, ZenonT(30) DEF Working, CacheInv
<1>3. \A j \in Blocks : Holder(j)' = Holder(j)
  BY <1>1, <1>2, HoldersStay
<1>4. /\ Loaded(b)'
      /\ Loaded(b) <=> "DIRTY" \in flags[b]
      /\ \A c \in Bufs \ {b} : Loaded(c)' <=> Loaded(c)
  <2>1. PICK p \in Proc : pc[p] = "iosleep" /\ held[p] = b
    BY <1>1 DEF CacheInv, QueueOwned
  <2>2. "VALID" \in flags[b] <=> "DIRTY" \in flags[b]
    BY <2>1 DEF CacheInv, Stages
  <2>3. QED
    BY <1>1, <2>2 DEF Loaded
<1>5. ValueIs /\ ValueIs'
  BY ValueRule, NextRules
<1>6. ASSUME NEW j \in Blocks PROVE Contents(j)' = Contents(j)
  <2>1. CASE blockno[b] = j /\ "DIRTY" \in flags[b]
    BY <1>1, <1>4, <1>5, <2>1, SMTT(20) DEF ValueIs
  <2>2. CASE blockno[b] = j /\ "DIRTY" \notin flags[b]
    <3>1. \A c \in Bufs : blockno[c] = j => c = b
      BY <2>2, BufCacheAssumption DEF CacheInv, OneBuffer
    <3>2. Contents(j) = disk[j]
      BY <1>4, <1>5, <2>2, <3>1 DEF ValueIs
    <3>3. Contents(j)' = data'[b]
      BY <1>1, <1>4, <1>5, <2>2 DEF ValueIs
    <3>4. QED
      BY <1>1, <2>2, <3>2, <3>3
  <2>3. CASE blockno[b] # j
    <3>1. CASE \E c \in Bufs : blockno[c] = j /\ Loaded(c)
      BY <1>1, <1>4, <1>5, <2>3, <3>1, SMTT(20) DEF ValueIs
    <3>2. CASE \A c \in Bufs : blockno[c] = j => ~Loaded(c)
      BY <1>1, <1>4, <1>5, <2>3, <3>2, SMTT(20) DEF ValueIs
    <3>3. QED
      BY <3>1, <3>2
  <2>4. QED
    BY <2>1, <2>2, <2>3
<1>7. QED
  BY <1>3, <1>6

\* The disk: what it writes is what the dirty buffer holds.
LEMMA DiskStutters ==
  ASSUME CacheInv, CacheInv', DiskDone
  PROVE  \A j \in Blocks : Contents(j)' = Contents(j) /\ Holder(j)' = Holder(j)
<1>1. PICK h \in Bufs :
        /\ UNCHANGED <<flags, blockno, data, pc, want>>
        /\ \A j \in Blocks :
             disk'[j] = IF "DIRTY" \in flags[h] /\ j = blockno[h] THEN data[h] ELSE disk[j]
  BY DiskEffect
<1>2. \A j \in Blocks : Holder(j)' = Holder(j)
  BY <1>1, HoldersStay
<1>3. \A c \in Bufs : Loaded(c)' <=> Loaded(c)
  BY <1>1 DEF Loaded
<1>4. ValueIs /\ ValueIs'
  BY ValueRule, NextRules
<1>5. ASSUME NEW j \in Blocks PROVE Contents(j)' = Contents(j)
  <2>1. CASE \E c \in Bufs : blockno[c] = j /\ Loaded(c)
    BY <1>1, <1>3, <1>4, <2>1, SMTT(20) DEF ValueIs
  <2>2. CASE \A c \in Bufs : blockno[c] = j => ~Loaded(c)
    <3>1. disk'[j] = disk[j]
      BY <1>1, <2>2 DEF Loaded
    <3>2. QED
      BY <1>1, <1>3, <1>4, <2>2, <3>1 DEF ValueIs
  <2>3. QED
    BY <2>1, <2>2
<1>6. QED
  BY <1>2, <1>5

\* The other steps move a process and touch no buffer; a bget that finds no
\* buffer to recycle panics.
LEMMA OthersStutter ==
  ASSUME CacheInv, CacheInv', NEW p \in Proc,
         \/ Bread(p) \/ BgetSleep(p) \/ Iderw(p) \/ IderwCheck(p)
         \/ BgetMiss(p) /\ Recyclable = {}
  PROVE  \A j \in Blocks : Contents(j)' = Contents(j) /\ Holder(j)' = Holder(j)
<1>1. UNCHANGED <<flags, data, blockno, disk>>
  BY DEF Bread, BgetSleep, Iderw, IderwCheck, BgetMiss, bcache, driver
<1>2. /\ pc'[p] \in Working <=> pc[p] \in Working
      /\ \A q \in Proc \ {p} : pc'[q] = pc[q] /\ want'[q] = want[q]
      /\ pc[p] \in Working => want'[p] = want[p]
  BY DEF Bread, BgetSleep, Iderw, IderwCheck, BgetMiss, Working, CacheInv, TypeOK
<1>3. \A c \in Bufs : Loaded(c)' <=> Loaded(c)
  BY <1>1 DEF Loaded
<1>4. \A j \in Blocks : Contents(j)' = Contents(j)
  BY <1>1, <1>3, ValuesStay
<1>5. \A j \in Blocks : Holder(j)' = Holder(j)
  BY <1>2, HoldersStay
<1>6. QED
  BY <1>4, <1>5

\* Every step of the cache is a step of BlockStore.tla or changes nothing there.
LEMMA StepCoheres ==
  ASSUME CacheInv, CacheInv', ~Errors, [Next]_vars
  PROVE  [BS!Next]_(BS!vars)
<1>1. ASSUME \A j \in Blocks : Contents(j)' = Contents(j) /\ Holder(j)' = Holder(j)
      PROVE  UNCHANGED BS!vars
  BY <1>1 DEF BS!vars
<1>2. CASE UNCHANGED vars
  <2>1. \A c \in Bufs : Loaded(c)' <=> Loaded(c)
    BY <1>2 DEF Loaded, vars
  <2>2. \A j \in Blocks : Contents(j)' = Contents(j)
    BY <1>2, <2>1, ValuesStay DEF vars
  <2>3. \A j \in Blocks : Holder(j)' = Holder(j)
    BY <1>2, HoldersStay DEF vars
  <2>4. QED
    BY <1>1, <2>2, <2>3
<1>3. ASSUME NEW p \in Proc,
             \/ Bread(p) \/ BgetSleep(p) \/ Iderw(p) \/ IderwCheck(p)
             \/ BgetMiss(p) /\ Recyclable = {}
      PROVE  UNCHANGED BS!vars
  <2>1. \A j \in Blocks : Contents(j)' = Contents(j) /\ Holder(j)' = Holder(j)
    BY <1>3, OthersStutter, Zenon
  <2>2. QED
    BY <1>1, <2>1
<1>4. ASSUME NEW p \in Proc,
             \/ BgetHit(p) \/ LogWrite(p) \/ Bwrite(p) \/ Brelse(p)
             \/ BgetMiss(p) /\ Recyclable # {}
      PROVE  BS!Next
  BY <1>4, HitHolds, MissHolds, ChangeChanges, BrelseLetsGo, Zenon
<1>5. CASE Ideintr
  <2>1. \A j \in Blocks : Contents(j)' = Contents(j) /\ Holder(j)' = Holder(j)
    BY <1>5, IntrStutters
  <2>2. QED
    BY <1>1, <2>1
<1>6. CASE DiskDone
  <2>1. \A j \in Blocks : Contents(j)' = Contents(j) /\ Holder(j)' = Holder(j)
    BY <1>6, DiskStutters
  <2>2. QED
    BY <1>1, <2>1
<1>7. QED
  BY <1>2, <1>3, <1>4, <1>5, <1>6, Zenon DEF Next, Bget

\* On a disk without errors, the cache and the driver implement one value and one
\* holder per block: bread, bwrite, log_write and brelse of any number of
\* processes over any number of buffers.
THEOREM CacheImplementsStore ==
  ASSUME Errors = FALSE
  PROVE  Spec => Coherent
<1>1. Init => BS!Init
  <2> SUFFICES ASSUME Init PROVE BS!Init
    OBVIOUS
  <2>1. ValueIs /\ HolderIs
    BY InitInv, ValueRule, HolderRule
  <2>2. \A j \in Blocks : Contents(j) = disk[j] /\ Holder(j) = NoProc
    BY <2>1 DEF Init, ValueIs, HolderIs, Loaded, Working
  <2>3. disk \in [Blocks -> Vals]
    BY DEF Init
  <2>4. QED
    BY <2>2, <2>3 DEF BS!Init
<1>2. CacheInv /\ CacheInv' /\ [Next]_vars => [BS!Next]_(BS!vars)
  BY StepCoheres
<1>3. QED
  BY <1>1, <1>2, CacheInvariant, PTL DEF Spec, Coherent, BS!Spec
=============================================================================
