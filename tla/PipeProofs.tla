----------------------------- MODULE PipeProofs -----------------------------
(***************************************************************************)
(* Proofs about pipes: for any number of processes, any size of the ring,  *)
(* any width of the counters that is a multiple of it, and any calls.      *)
(***************************************************************************)
EXTENDS Pipe, TLAPS, SequenceTheorems

\* Zenon is the prover of a leaf that names none; the leaves that need arithmetic or
\* rewriting of functions name SMT.
USE Zenon

-----------------------------------------------------------------------------
(* The inductive invariant *)

\* p->lock is held by the process that is inside, and by nobody else.
Inside == {"write", "read", "copy"}
Exclusive == \A p \in Proc : lock = p <=> pc[p] \in Inside

\* A process in pipewrite or piperead has a descriptor for that end.
Holds ==
  \A p \in Proc :
    /\ pc[p] \in {"write", "wsleep", "wwoken"} => "w" \in ends[p]
    /\ pc[p] \in {"read", "copy", "rsleep", "rwoken"} => "r" \in ends[p]

\* A process on its way to pipeclose had the last descriptor for the end.
LastOne ==
  \A p, q \in Proc :
    /\ pc[p] = "close_r" => "r" \notin ends[q] /\ (pc[q] = "close_r" => q = p)
    /\ pc[p] = "close_w" => "w" \notin ends[q] /\ (pc[q] = "close_w" => q = p)

\* readopen and writeopen agree with the descriptors, and the page is there as
\* long as one of them is set.
Opened ==
  /\ readopen <=> \E p \in Proc : "r" \in ends[p] \/ pc[p] = "close_r"
  /\ writeopen <=> \E p \in Proc : "w" \in ends[p] \/ pc[p] = "close_w"
  /\ allocated <=> readopen \/ writeopen

\* A writer sleeps while there is a reader, and no room unless a reader is just
\* making some.
WritersSleep ==
  \A p \in Proc : pc[p] = "wsleep" =>
    /\ readopen
    /\ (\A q \in Proc : pc[q] # "copy") => Full

\* The ring holds at most PIPESIZE bytes.
Fits == Count <= PIPESIZE

PipeInv ==
  /\ TypeOK
  /\ Exclusive
  /\ Holds
  /\ LastOne
  /\ Opened
  /\ WritersSleep
  /\ Fits

-----------------------------------------------------------------------------
(* The counters *)

Word == 0..(WRAP - 1)

\* The sizes, without their divisibility.
LEMMA Sizes == WRAP \in Nat /\ PIPESIZE \in Nat \ {0} /\ PIPESIZE < WRAP
BY PipeAssumption

\* One step of a counter.
LEMMA Increment ==
  ASSUME NEW x \in Word
  PROVE  (x + 1) % WRAP = IF x + 1 = WRAP THEN 0 ELSE x + 1
BY Sizes, SMTT(20) DEF Word

\* The bytes in the ring: nwrite - nread as unsigned integers.
LEMMA CountIs ==
  ASSUME nread \in Word, nwrite \in Word
  PROVE  Count = IF nwrite >= nread THEN nwrite - nread ELSE nwrite - nread + WRAP
BY Sizes, SMTT(20) DEF Word, Count

\* The test for a full ring, with the counters anywhere.
LEMMA FullIs ==
  ASSUME nread \in Word, nwrite \in Word
  PROVE  Full <=> Count = PIPESIZE
<1>1. (nread + PIPESIZE) % WRAP
        = IF nread + PIPESIZE < WRAP THEN nread + PIPESIZE ELSE nread + PIPESIZE - WRAP
  BY Sizes, SMTT(20) DEF Word
<1>2. QED
  BY <1>1, CountIs, Sizes, SMTT(20) DEF Full, Word

\* The test for an empty one.
LEMMA EmptyIs ==
  ASSUME nread \in Word, nwrite \in Word
  PROVE  Empty <=> Count = 0
BY CountIs, Sizes, SMTT(20) DEF Empty, Word

\* pipewrite stores a byte.
LEMMA CountUp ==
  ASSUME nread \in Word, nwrite \in Word, Count < PIPESIZE,
         nwrite' = (nwrite + 1) % WRAP, nread' = nread
  PROVE  nwrite' \in Word /\ Count' = Count + 1
<1>1. nwrite' = IF nwrite + 1 = WRAP THEN 0 ELSE nwrite + 1
  BY Increment
<1>2. nwrite' \in Word
  BY <1>1, Sizes, SMTT(20) DEF Word
<1>3. Count' = IF nwrite' >= nread' THEN nwrite' - nread' ELSE nwrite' - nread' + WRAP
  BY <1>2, Sizes, SMTT(20) DEF Word, Count
<1>4. QED
  BY <1>1, <1>2, <1>3, CountIs, Sizes, SMTT(20) DEF Word

\* piperead takes one.
LEMMA CountDown ==
  ASSUME nread \in Word, nwrite \in Word, nread # nwrite,
         nread' = (nread + 1) % WRAP, nwrite' = nwrite
  PROVE  nread' \in Word /\ Count' = Count - 1
<1>1. nread' = IF nread + 1 = WRAP THEN 0 ELSE nread + 1
  BY Increment
<1>2. nread' \in Word
  BY <1>1, Sizes, SMTT(20) DEF Word
<1>3. Count' = IF nwrite' >= nread' THEN nwrite' - nread' ELSE nwrite' - nread' + WRAP
  BY <1>2, Sizes, SMTT(20) DEF Word, Count
<1>4. QED
  BY <1>1, <1>2, <1>3, CountIs, Sizes, SMTT(20) DEF Word

\* The place of a counter in the ring.
Slot(x) == x % PIPESIZE

\* It is a place of the ring.
LEMMA SlotRange == ASSUME NEW x \in Nat PROVE Slot(x) \in 0..(PIPESIZE - 1)
BY Sizes, SMTT(20) DEF Slot

\* Multiples of PIPESIZE less than PIPESIZE apart are equal.
LEMMA NoMultiple ==
  ASSUME NEW m \in Int, PIPESIZE * m \in (1 - PIPESIZE)..(PIPESIZE - 1)
  PROVE  m = 0
<1>1. CASE m >= 1
  <2>1. PIPESIZE * m >= PIPESIZE
    BY <1>1, Sizes, SMTT(20)
  <2>2. QED
    BY <2>1, Sizes, SMTT(20)
<1>2. CASE m <= -1
  <2>1. PIPESIZE * m <= -PIPESIZE
    BY <1>2, Sizes, SMTT(20)
  <2>2. QED
    BY <2>1, Sizes, SMTT(20)
<1>3. QED
  BY <1>1, <1>2, SMTT(20)

\* The remainder is unique.
LEMMA Remainder ==
  ASSUME NEW x \in Nat, NEW q \in Int, NEW r \in 0..(PIPESIZE - 1), x = PIPESIZE * q + r
  PROVE  Slot(x) = r
<1> DEFINE d == x \div PIPESIZE
           t == x % PIPESIZE
<1>1. x = PIPESIZE * d + t /\ d \in Int /\ t \in 0..(PIPESIZE - 1)
  BY Sizes, SMTT(20)
<1> HIDE DEF d, t
<1>2. PIPESIZE * (d - q) = PIPESIZE * d - PIPESIZE * q /\ d - q \in Int
  BY <1>1, Sizes, SMTT(20)
<1>3. PIPESIZE * d \in Int /\ PIPESIZE * q \in Int
  BY <1>1, Sizes, SMTT(20)
<1>4. PIPESIZE * (d - q) = r - t
  BY <1>1, <1>2, <1>3, Sizes, SMTT(20)
<1>5. PIPESIZE * (d - q) \in (1 - PIPESIZE)..(PIPESIZE - 1)
  BY <1>1, <1>4, Sizes, SMTT(20)
<1>6. d - q = 0
  BY <1>2, <1>5, NoMultiple
<1>7. r = t
  BY <1>1, <1>4, <1>6, Sizes, SMTT(20)
<1>8. QED
  BY <1>7 DEF Slot, t

\* The wrap of the counters falls on a multiple of the ring.
LEMMA SlotWrap ==
  ASSUME NEW x \in Nat
  PROVE  Slot(x + WRAP) = Slot(x)
<1> DEFINE d == x \div PIPESIZE
           t == x % PIPESIZE
           u == WRAP \div PIPESIZE
<1>1. x = PIPESIZE * d + t /\ d \in Int /\ t \in 0..(PIPESIZE - 1)
  BY Sizes, SMTT(20)
<1>2. WRAP = PIPESIZE * u /\ u \in Int
  BY PipeAssumption, SMTT(20)
<1> HIDE DEF d, t, u
<1>3. PIPESIZE * (d + u) = PIPESIZE * d + PIPESIZE * u /\ d + u \in Int
  BY <1>1, <1>2, Sizes, SMTT(20)
<1>4. PIPESIZE * d \in Int /\ PIPESIZE * u \in Int
  BY <1>1, <1>2, Sizes, SMTT(20)
<1>5. x + WRAP = PIPESIZE * (d + u) + t /\ x + WRAP \in Nat
  BY <1>1, <1>2, <1>3, <1>4, Sizes, SMTT(20)
<1>6. Slot(x + WRAP) = t
  BY <1>1, <1>3, <1>5, Remainder
<1>7. QED
  BY <1>6 DEF Slot, t

\* Counters less than PIPESIZE apart have different places.
LEMMA SlotsDiffer ==
  ASSUME NEW x \in Nat, NEW k \in 1..(PIPESIZE - 1)
  PROVE  Slot(x + k) # Slot(x)
<1> DEFINE d == x \div PIPESIZE
           t == x % PIPESIZE
           e == (x + k) \div PIPESIZE
           v == (x + k) % PIPESIZE
<1>1. x = PIPESIZE * d + t /\ d \in Int /\ t \in 0..(PIPESIZE - 1)
  BY Sizes, SMTT(20)
<1>2. x + k = PIPESIZE * e + v /\ e \in Int /\ v \in 0..(PIPESIZE - 1)
  BY Sizes, SMTT(20)
<1>3. SUFFICES ASSUME t = v PROVE FALSE
  BY DEF Slot
<1> HIDE DEF d, t, e, v
<1>4. PIPESIZE * (e - d) = PIPESIZE * e - PIPESIZE * d /\ e - d \in Int
  BY <1>1, <1>2, Sizes, SMTT(20)
<1>5. PIPESIZE * e \in Int /\ PIPESIZE * d \in Int
  BY <1>1, <1>2, Sizes, SMTT(20)
<1>6. PIPESIZE * (e - d) = k
  BY <1>1, <1>2, <1>3, <1>4, <1>5, Sizes, SMTT(20)
<1>7. k \in (1 - PIPESIZE)..(PIPESIZE - 1)
  BY Sizes, SMTT(20)
<1>8. e - d = 0
  BY <1>4, <1>6, <1>7, NoMultiple
<1>9. QED
  BY <1>6, <1>8, Sizes, SMTT(20)

-----------------------------------------------------------------------------
(* Steps *)

\* The initial state.
LEMMA InitInv == Init => PipeInv
<1> SUFFICES ASSUME Init PROVE PipeInv
  OBVIOUS
<1>1. TypeOK
  BY Sizes, SMTT(20) DEF Init, TypeOK, PCs
<1>2. Exclusive /\ Holds /\ LastOne /\ WritersSleep
  BY PipeAssumption DEF Init, Exclusive, Inside, Holds, LastOne, WritersSleep
<1>3. Opened
  BY PipeAssumption DEF Init, Opened
<1>4. Fits
  <2>1. nread \in Word /\ nwrite \in Word /\ nread = nwrite
    BY Sizes, SMTT(20) DEF Init, Word
  <2>2. QED
    BY <2>1, CountIs, Sizes, SMTT(20) DEF Fits, Word
<1>5. QED
  BY <1>1, <1>2, <1>3, <1>4 DEF PipeInv

\* What a step of another process may do to q: wake it.
Rouses(q) ==
  \/ pc'[q] = pc[q]
  \/ pc[q] = "rsleep" /\ pc'[q] = "rwoken"
  \/ pc[q] = "wsleep" /\ pc'[q] = "wwoken"

Writing == {"write", "wsleep", "wwoken"}
Reading == {"read", "copy", "rsleep", "rwoken"}

\* A step that touches neither the ring nor the descriptors: lock and pc are what
\* is left to look at.
LEMMA CallStep ==
  ASSUME PipeInv, NEW p \in Proc, TypeOK',
         UNCHANGED <<data, nread, nwrite, got, readopen, writeopen, allocated, ends>>,
         \A q \in Proc \ {p} : Rouses(q),
         pc'[p] = "close_r" <=> pc[p] = "close_r",
         pc'[p] = "close_w" <=> pc[p] = "close_w",
         pc'[p] \in Writing => "w" \in ends[p],
         pc'[p] \in Reading => "r" \in ends[p],
         \/ lock' = p /\ pc'[p] \in Inside /\ lock \in {NoProc, p}
         \/ lock' = lock /\ lock # p /\ pc'[p] \notin Inside
         \/ lock' = NoProc /\ lock = p /\ pc'[p] \notin Inside,
         WritersSleep'
  PROVE  PipeInv'
<1>1. \A q \in Proc \ {p} :
        /\ pc'[q] \in Inside <=> pc[q] \in Inside
        /\ pc'[q] = "close_r" <=> pc[q] = "close_r"
        /\ pc'[q] = "close_w" <=> pc[q] = "close_w"
        /\ pc'[q] \in Writing => pc[q] \in Writing
        /\ pc'[q] \in Reading => pc[q] \in Reading
  BY DEF Rouses, Inside, Writing, Reading
<1>2. Exclusive'
  BY <1>1, PipeAssumption, SMTT(20) DEF PipeInv, TypeOK, Exclusive
<1>3. Holds'
  BY <1>1 DEF PipeInv, Holds, Writing, Reading
<1>4. LastOne'
  BY <1>1, ZenonT(30) DEF PipeInv, LastOne
<1>5. Opened'
  BY <1>1 DEF PipeInv, Opened
<1>6. Fits'
  BY DEF PipeInv, Fits, Count
<1>7. QED
  BY <1>2, <1>3, <1>4, <1>5, <1>6 DEF PipeInv

\* A process that is inside holds the lock, and an end.
LEMMA InsideFacts ==
  ASSUME PipeInv, NEW p \in Proc
  PROVE  /\ pc[p] \in Inside => lock = p /\ \A q \in Proc \ {p} : pc[q] \notin Inside
         /\ pc[p] \in Writing => "w" \in ends[p] /\ writeopen
         /\ pc[p] \in Reading => "r" \in ends[p] /\ readopen
         /\ pc[p] \notin Inside => lock # p
         /\ nread \in Word /\ nwrite \in Word /\ p # NoProc
  BY PipeAssumption DEF PipeInv, TypeOK, Exclusive, Inside, Holds, Opened, Writing, Reading, Word

\* Wakeups rouse the sleepers of one channel.
LEMMA WokenFacts ==
  ASSUME TypeOK, NEW p \in Proc, NEW to \in PCs,
         NEW asleep, NEW awake, <<asleep, awake>> \in {<<"rsleep", "rwoken">>, <<"wsleep", "wwoken">>},
         pc' = [Woken(asleep, awake) EXCEPT ![p] = to]
  PROVE  /\ pc' \in [Proc -> PCs] /\ pc'[p] = to
         /\ \A q \in Proc \ {p} : Rouses(q) /\ pc'[q] # asleep
<1>1. asleep \in {"rsleep", "wsleep"} /\ awake \in PCs /\ awake # asleep
  BY DEF PCs
<1>2. Woken(asleep, awake) \in [Proc -> PCs]
  BY <1>1 DEF Woken, TypeOK
<1>3. \A q \in Proc : Woken(asleep, awake)[q] = IF pc[q] = asleep THEN awake ELSE pc[q]
  BY DEF Woken
<1>4. pc' \in [Proc -> PCs] /\ pc'[p] = to
  BY <1>2
<1>5. \A q \in Proc \ {p} : pc'[q] = Woken(asleep, awake)[q]
  BY <1>2
<1>6. QED
  BY <1>1, <1>3, <1>4, <1>5 DEF Rouses

\* A step that changes only the pc of its own process.
LEMMA MoveFacts ==
  ASSUME TypeOK, NEW p \in Proc, NEW to \in PCs, pc' = [pc EXCEPT ![p] = to]
  PROVE  /\ pc' \in [Proc -> PCs] /\ pc'[p] = to
         /\ \A q \in Proc \ {p} : Rouses(q) /\ pc'[q] = pc[q]
  BY DEF TypeOK, Rouses

\* read and write begin, and go on after a sleep.
LEMMA EnterKeeps ==
  ASSUME PipeInv, NEW p \in Proc,
         PipewriteEnter(p) \/ PipereadEnter(p) \/ PipewriteWoken(p) \/ PipereadWoken(p)
  PROVE  PipeInv'
<1> USE DEF PipewriteEnter, PipereadEnter, PipewriteWoken, PipereadWoken, Enter, Reacquire
<1>1. PICK to \in {"write", "read"} :
        /\ pc' = [pc EXCEPT ![p] = to]
        /\ to = "write" => "w" \in ends[p]
        /\ to = "read" => "r" \in ends[p]
  BY InsideFacts DEF Writing, Reading
<1>2. /\ lock = NoProc /\ lock' = p /\ pc[p] \in {"user", "wwoken", "rwoken"}
      /\ UNCHANGED <<data, nread, nwrite, got, readopen, writeopen, allocated, i, ends, killed>>
  BY DEF ring, opened, procs, call
<1>3. n' \in [Proc -> Counts \cup {0}]
  BY DEF PipeInv, TypeOK, call
<1> HIDE DEF PipewriteEnter, PipereadEnter, PipewriteWoken, PipereadWoken, Enter, Reacquire
<1>4. to \in PCs /\ TypeOK
  BY DEF PCs, PipeInv
<1>5. /\ pc' \in [Proc -> PCs] /\ pc'[p] = to
      /\ \A q \in Proc \ {p} : Rouses(q) /\ pc'[q] = pc[q]
  BY <1>1, <1>4, MoveFacts
<1>6. TypeOK'
  BY <1>2, <1>3, <1>5 DEF PipeInv, TypeOK
<1>7. WritersSleep'
  BY <1>2, <1>5 DEF PipeInv, WritersSleep, Full
<1>8. pc'[p] \in Writing => "w" \in ends[p]
  BY <1>1, <1>5 DEF Writing
<1>9. pc'[p] \in Reading => "r" \in ends[p]
  BY <1>1, <1>5 DEF Reading
<1>10. QED
  BY <1>2, <1>5, <1>6, <1>7, <1>8, <1>9, CallStep DEF Inside

\* read and write end, or sleep.
LEMMA LeaveKeeps ==
  ASSUME PipeInv, NEW p \in Proc, pc[p] \in Inside,
         NEW to \in {"user", "wsleep", "rsleep"},
         pc' \in [Proc -> PCs], pc'[p] = to,
         \A q \in Proc \ {p} : Rouses(q),
         lock' = NoProc,
         n' \in [Proc -> Counts \cup {0}],
         i' \in [Proc -> Nat],
         UNCHANGED <<data, nread, nwrite, got, readopen, writeopen, allocated, ends, killed>>,
         to = "wsleep" => pc[p] = "write" /\ Full /\ readopen,
         to = "rsleep" => pc[p] = "read",
         pc[p] = "copy" => \A q \in Proc \ {p} : pc'[q] # "wsleep"
  PROVE  PipeInv'
<1>1. TypeOK'
  BY PipeAssumption DEF PipeInv, TypeOK
<1>2. lock = p /\ \A q \in Proc \ {p} : pc[q] \notin Inside
  BY InsideFacts
<1>3. WritersSleep'
  <2> SUFFICES ASSUME NEW q \in Proc, pc'[q] = "wsleep" PROVE readopen /\ Full
    BY DEF WritersSleep, Full
  <2>1. CASE q = p
    BY <2>1
  <2>2. CASE q # p
    <3>1. pc[q] = "wsleep" /\ pc[p] # "copy"
      BY <2>2 DEF Rouses
    <3>2. \A t \in Proc : pc[t] # "copy"
      BY <1>2, <3>1 DEF Inside
    <3>3. QED
      BY <3>1, <3>2 DEF PipeInv, WritersSleep
  <2>3. QED
    BY <2>1, <2>2
<1>4. to \in Writing => "w" \in ends[p]
  BY InsideFacts DEF Writing
<1>5. to \in Reading => "r" \in ends[p]
  BY InsideFacts DEF Reading
<1>6. pc[p] \notin {"close_r", "close_w"} /\ to \notin Inside
  BY DEF Inside
<1>7. QED
  BY <1>1, <1>2, <1>3, <1>4, <1>5, <1>6, CallStep

\* The registers of the call, on return or in a sleep.
LEMMA CallTypes ==
  ASSUME TypeOK, NEW p \in Proc,
         \/ n' = [n EXCEPT ![p] = 0] /\ i' = [i EXCEPT ![p] = 0]
         \/ UNCHANGED call
  PROVE  n' \in [Proc -> Counts \cup {0}] /\ i' \in [Proc -> Nat]
<1>1. n \in [Proc -> Counts \cup {0}] /\ i \in [Proc -> Nat]
  BY DEF TypeOK
<1>2. CASE n' = [n EXCEPT ![p] = 0] /\ i' = [i EXCEPT ![p] = 0]
  BY <1>1, <1>2
<1>3. CASE UNCHANGED call
  BY <1>1, <1>3 DEF call
<1>4. QED
  BY <1>2, <1>3

\* The ways out of pipewrite.
LEMMA WriteLeaves ==
  ASSUME PipeInv, NEW p \in Proc, PipewriteFail(p) \/ PipewriteFull(p) \/ PipewriteDone(p)
  PROVE  PipeInv'
<1>1. /\ pc[p] = "write" /\ lock' = NoProc /\ TypeOK
      /\ UNCHANGED <<data, nread, nwrite, got, readopen, writeopen, allocated, ends, killed>>
      /\ n' \in [Proc -> Counts \cup {0}] /\ i' \in [Proc -> Nat]
  <2>1. /\ pc[p] = "write" /\ lock' = NoProc /\ TypeOK
        /\ UNCHANGED <<data, nread, nwrite, got, readopen, writeopen, allocated, ends, killed>>
        /\ \/ n' = [n EXCEPT ![p] = 0] /\ i' = [i EXCEPT ![p] = 0]
           \/ UNCHANGED call
    BY DEF PipewriteFail, PipewriteFull, PipewriteDone, Return, SleepOn, ring, opened, procs, PipeInv
  <2>2. QED
    BY <2>1, CallTypes
<1>2. "user" \in PCs /\ "wsleep" \in PCs /\ pc[p] \in Inside
  BY <1>1 DEF PCs, Inside
<1>3. CASE PipewriteFail(p)
  <2>1. pc' = [pc EXCEPT ![p] = "user"]
    BY <1>3 DEF PipewriteFail, Return
  <2>2. /\ pc' \in [Proc -> PCs] /\ pc'[p] = "user"
        /\ \A q \in Proc \ {p} : Rouses(q)
    BY <1>1, <1>2, <2>1, MoveFacts
  <2>3. QED
    BY <1>1, <1>2, <2>2, LeaveKeeps
<1>4. CASE PipewriteFull(p)
  <2>1. pc' = [WakeReaders EXCEPT ![p] = "wsleep"] /\ Full /\ readopen
    BY <1>4 DEF PipewriteFull, SleepOn
  <2>2. /\ pc' \in [Proc -> PCs] /\ pc'[p] = "wsleep"
        /\ \A q \in Proc \ {p} : Rouses(q)
    BY <1>1, <1>2, <2>1, WokenFacts, SMTT(20) DEF WakeReaders
  <2>3. QED
    BY <1>1, <1>2, <2>1, <2>2, LeaveKeeps
<1>5. CASE PipewriteDone(p)
  <2>1. pc' = [WakeReaders EXCEPT ![p] = "user"]
    BY <1>5 DEF PipewriteDone, Return
  <2>2. /\ pc' \in [Proc -> PCs] /\ pc'[p] = "user"
        /\ \A q \in Proc \ {p} : Rouses(q)
    BY <1>1, <1>2, <2>1, WokenFacts, SMTT(20) DEF WakeReaders
  <2>3. QED
    BY <1>1, <1>2, <2>2, LeaveKeeps
<1>6. QED
  BY <1>3, <1>4, <1>5

\* The ways out of piperead.
LEMMA ReadLeaves ==
  ASSUME PipeInv, NEW p \in Proc, PipereadFail(p) \/ PipereadEmpty(p) \/ PipereadDone(p)
  PROVE  PipeInv'
<1>1. /\ pc[p] \in {"read", "copy"} /\ lock' = NoProc /\ TypeOK
      /\ UNCHANGED <<data, nread, nwrite, got, readopen, writeopen, allocated, ends, killed>>
      /\ n' \in [Proc -> Counts \cup {0}] /\ i' \in [Proc -> Nat]
  <2>1. /\ pc[p] \in {"read", "copy"} /\ lock' = NoProc /\ TypeOK
        /\ UNCHANGED <<data, nread, nwrite, got, readopen, writeopen, allocated, ends, killed>>
        /\ \/ n' = [n EXCEPT ![p] = 0] /\ i' = [i EXCEPT ![p] = 0]
           \/ UNCHANGED call
    BY DEF PipereadFail, PipereadEmpty, PipereadDone, Return, SleepOn, ring, opened, procs, PipeInv
  <2>2. QED
    BY <2>1, CallTypes
<1>2. "user" \in PCs /\ "rsleep" \in PCs /\ pc[p] \in Inside
  BY <1>1 DEF PCs, Inside
<1>3. CASE PipereadFail(p)
  <2>1. pc' = [pc EXCEPT ![p] = "user"] /\ pc[p] = "read"
    BY <1>3 DEF PipereadFail, Return
  <2>2. /\ pc' \in [Proc -> PCs] /\ pc'[p] = "user"
        /\ \A q \in Proc \ {p} : Rouses(q)
    BY <1>1, <1>2, <2>1, MoveFacts
  <2>3. QED
    BY <1>1, <1>2, <2>1, <2>2, LeaveKeeps
<1>4. CASE PipereadEmpty(p)
  <2>1. pc' = [pc EXCEPT ![p] = "rsleep"] /\ pc[p] = "read"
    BY <1>4 DEF PipereadEmpty, SleepOn
  <2>2. /\ pc' \in [Proc -> PCs] /\ pc'[p] = "rsleep"
        /\ \A q \in Proc \ {p} : Rouses(q)
    BY <1>1, <1>2, <2>1, MoveFacts
  <2>3. QED
    BY <1>1, <1>2, <2>1, <2>2, LeaveKeeps
<1>5. CASE PipereadDone(p)
  <2>1. pc' = [WakeWriters EXCEPT ![p] = "user"]
    BY <1>5 DEF PipereadDone, Return
  <2>2. /\ pc' \in [Proc -> PCs] /\ pc'[p] = "user"
        /\ \A q \in Proc \ {p} : Rouses(q) /\ pc'[q] # "wsleep"
    BY <1>1, <1>2, <2>1, WokenFacts, SMTT(20) DEF WakeWriters
  <2>3. QED
    BY <1>1, <1>2, <2>2, LeaveKeeps
<1>6. QED
  BY <1>3, <1>4, <1>5

\* There is something to read, or nobody to wait for.
LEMMA ReadyKeeps ==
  ASSUME PipeInv, NEW p \in Proc, PipereadReady(p)
  PROVE  PipeInv'
<1>1. /\ pc[p] = "read" /\ pc' = [pc EXCEPT ![p] = "copy"] /\ TypeOK
      /\ UNCHANGED <<data, nread, nwrite, got, readopen, writeopen, allocated, lock, n, i,
                     ends, killed>>
  BY DEF PipereadReady, ring, opened, procs, call, PipeInv
<1>2. "copy" \in PCs
  BY DEF PCs
<1>3. /\ pc' \in [Proc -> PCs] /\ pc'[p] = "copy"
      /\ \A q \in Proc \ {p} : Rouses(q) /\ pc'[q] = pc[q]
  BY <1>1, <1>2, MoveFacts
<1>4. TypeOK'
  BY <1>1, <1>3 DEF TypeOK
<1>5. lock = p /\ "r" \in ends[p]
  BY <1>1, InsideFacts DEF Inside, Reading
<1>6. WritersSleep'
  BY <1>1, <1>3 DEF PipeInv, WritersSleep
<1>7. QED
  BY <1>1, <1>3, <1>4, <1>5, <1>6, CallStep DEF Inside, Writing, Reading

\* kill() wakes its victim.
LEMMA KillKeeps ==
  ASSUME PipeInv, NEW p \in Proc, Kill(p)
  PROVE  PipeInv'
<1> DEFINE to == CASE pc[p] = "rsleep" -> "rwoken"
                   [] pc[p] = "wsleep" -> "wwoken"
                   [] OTHER -> pc[p]
<1>1. /\ pc' = [pc EXCEPT ![p] = to] /\ TypeOK
      /\ killed' = [killed EXCEPT ![p] = TRUE]
      /\ UNCHANGED <<data, nread, nwrite, got, readopen, writeopen, allocated, lock, n, i, ends>>
  BY DEF Kill, ring, opened, call, PipeInv, TypeOK
<1>2. /\ to \in PCs
      /\ \/ to = pc[p] /\ pc[p] # "wsleep"
         \/ pc[p] = "rsleep" /\ to = "rwoken"
         \/ pc[p] = "wsleep" /\ to = "wwoken"
  BY DEF PipeInv, TypeOK, PCs
<1> HIDE DEF to
<1>3. /\ pc' \in [Proc -> PCs] /\ pc'[p] = to
      /\ \A q \in Proc \ {p} : Rouses(q) /\ pc'[q] = pc[q]
  BY <1>1, <1>2, MoveFacts
<1>4. TypeOK'
  BY <1>1, <1>3 DEF TypeOK
<1>5. /\ to \in Writing => "w" \in ends[p]
      /\ to \in Reading => "r" \in ends[p]
  BY <1>2, InsideFacts DEF Writing, Reading
<1>6. \/ lock' = p /\ pc'[p] \in Inside /\ lock \in {NoProc, p}
      \/ lock' = lock /\ lock # p /\ pc'[p] \notin Inside
  BY <1>1, <1>2, <1>3, InsideFacts DEF Inside
<1>7. WritersSleep'
  BY <1>1, <1>2, <1>3 DEF PipeInv, WritersSleep, Full
<1>8. /\ to = "close_r" <=> pc[p] = "close_r"
      /\ to = "close_w" <=> pc[p] = "close_w"
  BY <1>2
<1>9. QED
  BY <1>1, <1>3, <1>4, <1>5, <1>6, <1>7, <1>8, CallStep

-----------------------------------------------------------------------------
(* Bytes *)

\* One byte more, or one byte less, inside pipewrite or piperead.
LEMMA ByteKeeps ==
  ASSUME PipeInv, NEW p \in Proc, PipewriteByte(p) \/ PipereadByte(p)
  PROVE  PipeInv'
<1>1. /\ UNCHANGED <<readopen, writeopen, allocated, lock, pc, n, ends, killed>>
      /\ pc[p] \in {"write", "copy"} /\ i' = [i EXCEPT ![p] = i[p] + 1]
  BY DEF PipewriteByte, PipereadByte, opened, procs, PipeInv, TypeOK
<1>2. i' \in [Proc -> Nat]
  BY <1>1, SMTT(20) DEF PipeInv, TypeOK
<1>3. nread \in Word /\ nwrite \in Word
  BY InsideFacts
<1>4. nread \in Nat /\ nwrite \in Nat /\ Slot(nread) \in 0..(PIPESIZE - 1)
      /\ Slot(nwrite) \in 0..(PIPESIZE - 1)
  BY <1>3, SlotRange, Sizes, SMTT(20) DEF Word
<1>5. Count \in Nat
  BY <1>3, CountIs, Sizes, SMTT(20) DEF Word
<1>6. CASE PipewriteByte(p)
  <2>1. Count < PIPESIZE
    BY <1>3, <1>5, <1>6, FullIs, Sizes, SMTT(20) DEF PipewriteByte, PipeInv, Fits
  <2>2. nread' = nread /\ nwrite' \in Word /\ Count' = Count + 1 /\ got' = got
    BY <1>3, <1>6, <2>1, CountUp DEF PipewriteByte
  <2>3. data' \in [0..(PIPESIZE - 1) -> Bytes \cup {NoByte}]
    BY <1>4, <1>6 DEF PipewriteByte, Slot, PipeInv, TypeOK
  <2>4. TypeOK'
    BY <1>1, <1>2, <2>2, <2>3 DEF PipeInv, TypeOK, Word
  <2>5. Fits'
    BY <1>5, <2>1, <2>2, Sizes, SMTT(20) DEF Fits
  <2>6. WritersSleep'
    <3>1. \A q \in Proc : pc[q] # "copy"
      BY <1>1, <1>6, InsideFacts DEF Inside, PipewriteByte
    <3>2. \A q \in Proc : pc[q] # "wsleep"
      BY <1>6, <3>1 DEF PipeInv, WritersSleep, PipewriteByte
    <3>3. QED
      BY <1>1, <3>2 DEF WritersSleep
  <2>7. Exclusive' /\ Holds' /\ LastOne' /\ Opened'
    BY <1>1 DEF PipeInv, Exclusive, Holds, LastOne, Opened
  <2>8. QED
    BY <2>4, <2>5, <2>6, <2>7 DEF PipeInv
<1>7. CASE PipereadByte(p)
  <2>1. nwrite' = nwrite /\ nread' \in Word /\ Count' = Count - 1 /\ data' = data
    BY <1>3, <1>7, CountDown DEF PipereadByte, Empty
  <2>2. got' \in Bytes \cup {NoByte}
    BY <1>4, <1>7 DEF PipereadByte, Slot, PipeInv, TypeOK
  <2>3. TypeOK'
    BY <1>1, <1>2, <2>1, <2>2 DEF PipeInv, TypeOK, Word
  <2>4. Fits'
    BY <1>5, <2>1, Sizes, SMTT(20) DEF PipeInv, Fits
  <2>5. WritersSleep'
    BY <1>1, <1>7 DEF PipeInv, WritersSleep, PipereadByte
  <2>6. Exclusive' /\ Holds' /\ LastOne' /\ Opened'
    BY <1>1 DEF PipeInv, Exclusive, Holds, LastOne, Opened
  <2>7. QED
    BY <2>3, <2>4, <2>5, <2>6 DEF PipeInv
<1>8. QED
  BY <1>6, <1>7

-----------------------------------------------------------------------------
(* Descriptors *)

\* fork() copies the descriptors.
LEMMA ForkKeeps ==
  ASSUME PipeInv, NEW p \in Proc, NEW child \in Proc, Fork(p, child)
  PROVE  PipeInv'
<1>1. /\ pc[child] = "user" /\ ends[child] = {}
      /\ ends' = [ends EXCEPT ![child] = ends[p]]
      /\ killed' = [killed EXCEPT ![child] = FALSE]
      /\ UNCHANGED <<data, nread, nwrite, got, readopen, writeopen, allocated, lock, pc, n, i>>
  BY DEF Fork, ring, opened, call
<1>2. /\ ends' \in [Proc -> SUBSET {"r", "w"}] /\ killed' \in [Proc -> BOOLEAN]
      /\ ends'[child] = ends[p] /\ \A q \in Proc \ {child} : ends'[q] = ends[q]
  BY <1>1 DEF PipeInv, TypeOK
<1>3. TypeOK'
  BY <1>1, <1>2 DEF PipeInv, TypeOK
<1>4. Exclusive' /\ WritersSleep' /\ Fits'
  BY <1>1 DEF PipeInv, Exclusive, WritersSleep, Full, Fits, Count
<1>5. Holds'
  BY <1>1, <1>2 DEF PipeInv, Holds
<1>6. LastOne'
  BY <1>1, <1>2, ZenonT(30) DEF PipeInv, LastOne
<1>7. Opened'
  BY <1>1, <1>2 DEF PipeInv, Opened
<1>8. QED
  BY <1>3, <1>4, <1>5, <1>6, <1>7 DEF PipeInv

\* fileclose() gives up a descriptor.
LEMMA FilecloseKeeps ==
  ASSUME PipeInv, NEW p \in Proc, NEW end \in {"r", "w"}, Fileclose(p, end)
  PROVE  PipeInv'
<1> DEFINE closing == IF end = "r" THEN "close_r" ELSE "close_w"
           last == \A other \in Proc \ {p} : end \notin ends[other]
<1>1. /\ pc[p] = "user" /\ end \in ends[p]
      /\ ends' = [ends EXCEPT ![p] = ends[p] \ {end}]
      /\ UNCHANGED <<data, nread, nwrite, got, readopen, writeopen, allocated, lock, n, i, killed>>
  BY DEF Fileclose, ring, opened, call, PipeInv, TypeOK
<1>2. /\ ends' \in [Proc -> SUBSET {"r", "w"}]
      /\ ends'[p] = ends[p] \ {end} /\ \A q \in Proc \ {p} : ends'[q] = ends[q]
  BY <1>1 DEF PipeInv, TypeOK
<1>3. closing \in PCs
  BY DEF PCs
<1>4. /\ pc' \in [Proc -> PCs] /\ \A q \in Proc \ {p} : pc'[q] = pc[q]
      /\ pc'[p] = IF last THEN closing ELSE "user"
  <2>1. CASE last /\ pc' = [pc EXCEPT ![p] = closing]
    BY <1>3, <2>1 DEF PipeInv, TypeOK
  <2>2. CASE ~last /\ pc' = pc
    BY <1>1, <2>2 DEF PipeInv, TypeOK
  <2>3. QED
    BY <2>1, <2>2 DEF Fileclose
<1>5. TypeOK'
  BY <1>1, <1>2, <1>4 DEF PipeInv, TypeOK
<1>6. Exclusive' /\ WritersSleep' /\ Fits'
  <2>1. pc'[p] \in {"user", "close_r", "close_w"}
    BY <1>4
  <2>2. Exclusive'
    BY <1>1, <1>4, <2>1 DEF PipeInv, Exclusive, Inside
  <2>3. WritersSleep'
    BY <1>1, <1>4, <2>1 DEF PipeInv, WritersSleep, Full
  <2>4. Fits'
    BY <1>1 DEF PipeInv, Fits, Count
  <2>5. QED
    BY <2>2, <2>3, <2>4
<1>7. Holds'
  BY <1>1, <1>2, <1>4 DEF PipeInv, Holds
<1>8. CASE end = "r"
  <2>1. LastOne'
    BY <1>1, <1>2, <1>4, <1>8, SMTT(20) DEF PipeInv, LastOne
  <2>2. Opened'
    BY <1>1, <1>2, <1>4, <1>8 DEF PipeInv, Opened
  <2>3. QED
    BY <1>5, <1>6, <1>7, <2>1, <2>2 DEF PipeInv
<1>9. CASE end = "w"
  <2>1. LastOne'
    BY <1>1, <1>2, <1>4, <1>9, SMTT(20) DEF PipeInv, LastOne
  <2>2. Opened'
    BY <1>1, <1>2, <1>4, <1>9 DEF PipeInv, Opened
  <2>3. QED
    BY <1>5, <1>6, <1>7, <2>1, <2>2 DEF PipeInv
<1>10. QED
  BY <1>8, <1>9

\* What pipeclose does for either end.
LEMMA PipecloseEffect ==
  ASSUME PipeInv, NEW p \in Proc, Pipeclose(p)
  PROVE  /\ UNCHANGED <<data, nread, nwrite, got, lock, n, i, ends, killed>>
         /\ pc' \in [Proc -> PCs] /\ pc'[p] = "user"
         /\ \A q \in Proc \ {p} : Rouses(q)
         /\ allocated' <=> readopen' \/ writeopen'
         /\ \/ /\ pc[p] = "close_r" /\ readopen /\ readopen' = FALSE /\ writeopen' = writeopen
               /\ \A q \in Proc \ {p} : pc'[q] # "wsleep"
            \/ /\ pc[p] = "close_w" /\ writeopen /\ writeopen' = FALSE /\ readopen' = readopen
               /\ \A q \in Proc \ {p} : pc'[q] # "rsleep"
<1>1. UNCHANGED <<data, nread, nwrite, got, lock, n, i, ends, killed>>
  BY DEF Pipeclose, ring, call, procs
<1>2. TypeOK /\ "user" \in PCs
  BY DEF PipeInv, PCs
<1>3. allocated' <=> readopen' \/ writeopen'
  BY DEF Pipeclose
<1>4. CASE pc[p] = "close_r"
  <2>1. pc' = [WakeWriters EXCEPT ![p] = "user"]
    BY <1>4 DEF Pipeclose
  <2>2. /\ pc' \in [Proc -> PCs] /\ pc'[p] = "user"
        /\ \A q \in Proc \ {p} : Rouses(q) /\ pc'[q] # "wsleep"
    BY <1>2, <2>1, WokenFacts, SMTT(20) DEF WakeWriters
  <2>3. readopen /\ readopen' = FALSE /\ writeopen' = writeopen
    BY <1>2, <1>4 DEF Pipeclose, PipeInv, Opened, TypeOK
  <2>4. QED
    BY <1>1, <1>3, <1>4, <2>2, <2>3
<1>5. CASE pc[p] = "close_w"
  <2>1. pc' = [WakeReaders EXCEPT ![p] = "user"]
    BY <1>5 DEF Pipeclose
  <2>2. /\ pc' \in [Proc -> PCs] /\ pc'[p] = "user"
        /\ \A q \in Proc \ {p} : Rouses(q) /\ pc'[q] # "rsleep"
    BY <1>2, <2>1, WokenFacts, SMTT(20) DEF WakeReaders
  <2>3. writeopen /\ writeopen' = FALSE /\ readopen' = readopen
    BY <1>2, <1>5 DEF Pipeclose, PipeInv, Opened, TypeOK
  <2>4. QED
    BY <1>1, <1>3, <1>5, <2>2, <2>3
<1>6. QED
  BY <1>4, <1>5 DEF Pipeclose

\* pipeclose()
LEMMA PipecloseKeeps ==
  ASSUME PipeInv, NEW p \in Proc, Pipeclose(p)
  PROVE  PipeInv'
<1>1. /\ UNCHANGED <<data, nread, nwrite, got, lock, n, i, ends, killed>>
      /\ pc' \in [Proc -> PCs] /\ pc'[p] = "user"
      /\ \A q \in Proc \ {p} : Rouses(q)
      /\ allocated' <=> readopen' \/ writeopen'
  BY PipecloseEffect
<1>2. pc[p] \in {"close_r", "close_w"}
  BY DEF Pipeclose
<1>3. \A q \in Proc \ {p} :
        /\ pc'[q] \in Inside <=> pc[q] \in Inside
        /\ pc'[q] = "copy" <=> pc[q] = "copy"
        /\ pc'[q] = "close_r" <=> pc[q] = "close_r"
        /\ pc'[q] = "close_w" <=> pc[q] = "close_w"
        /\ pc'[q] = "wsleep" => pc[q] = "wsleep"
        /\ pc'[q] \in Writing => pc[q] \in Writing
        /\ pc'[q] \in Reading => pc[q] \in Reading
  BY <1>1 DEF Rouses, Inside, Writing, Reading
<1>4. allocated' \in BOOLEAN /\ readopen' \in BOOLEAN /\ writeopen' \in BOOLEAN
  BY DEF Pipeclose
<1>5. TypeOK'
  BY <1>1, <1>4 DEF PipeInv, TypeOK
<1>6. Exclusive'
  BY <1>1, <1>2, <1>3 DEF PipeInv, Exclusive, Inside
<1>7. Holds'
  BY <1>1, <1>3 DEF PipeInv, Holds, Writing, Reading
<1>8. LastOne'
  BY <1>1, <1>3 DEF PipeInv, LastOne
<1>9. Fits'
  BY <1>1 DEF PipeInv, Fits, Count
<1>10. CASE /\ pc[p] = "close_r" /\ readopen /\ readopen' = FALSE /\ writeopen' = writeopen
            /\ \A q \in Proc \ {p} : pc'[q] # "wsleep"
  <2>1. Opened'
    BY <1>1, <1>3, <1>10 DEF PipeInv, Opened, LastOne
  <2>2. WritersSleep'
    BY <1>1, <1>10 DEF WritersSleep
  <2>3. QED
    BY <1>5, <1>6, <1>7, <1>8, <1>9, <2>1, <2>2 DEF PipeInv
<1>11. CASE /\ pc[p] = "close_w" /\ writeopen /\ writeopen' = FALSE /\ readopen' = readopen
            /\ \A q \in Proc \ {p} : pc'[q] # "rsleep"
  <2>1. Opened'
    BY <1>1, <1>3, <1>11 DEF PipeInv, Opened, LastOne
  <2>2. WritersSleep'
    BY <1>1, <1>3, <1>11 DEF PipeInv, WritersSleep, Full
  <2>3. QED
    BY <1>5, <1>6, <1>7, <1>8, <1>9, <2>1, <2>2 DEF PipeInv
<1>12. QED
  BY <1>10, <1>11, PipecloseEffect

-----------------------------------------------------------------------------
(* The theorems *)

\* Every step keeps the invariant.
LEMMA NextInv == PipeInv /\ [Next]_vars => PipeInv'
<1> SUFFICES ASSUME PipeInv, [Next]_vars PROVE PipeInv'
  OBVIOUS
<1>1. CASE UNCHANGED vars
  BY <1>1 DEF vars, PipeInv, TypeOK, Exclusive, Holds, LastOne, Opened, WritersSleep, Full,
              Fits, Count
<1>2. ASSUME NEW p \in Proc,
             PipewriteEnter(p) \/ PipereadEnter(p) \/ PipewriteWoken(p) \/ PipereadWoken(p)
      PROVE  PipeInv'
  BY <1>2, EnterKeeps
<1>3. ASSUME NEW p \in Proc, PipewriteByte(p) \/ PipereadByte(p) PROVE PipeInv'
  BY <1>3, ByteKeeps
<1>4. ASSUME NEW p \in Proc, PipewriteFail(p) \/ PipewriteFull(p) \/ PipewriteDone(p)
      PROVE  PipeInv'
  BY <1>4, WriteLeaves
<1>5. ASSUME NEW p \in Proc, PipereadFail(p) \/ PipereadEmpty(p) \/ PipereadDone(p)
      PROVE  PipeInv'
  BY <1>5, ReadLeaves
<1>6. ASSUME NEW p \in Proc, PipereadReady(p) PROVE PipeInv'
  BY <1>6, ReadyKeeps
<1>7. ASSUME NEW p \in Proc, NEW child \in Proc, Fork(p, child) PROVE PipeInv'
  BY <1>7, ForkKeeps
<1>8. ASSUME NEW p \in Proc, NEW end \in {"r", "w"}, Fileclose(p, end) PROVE PipeInv'
  BY <1>8, FilecloseKeeps
<1>9. ASSUME NEW p \in Proc, Pipeclose(p) PROVE PipeInv'
  BY <1>9, PipecloseKeeps
<1>10. ASSUME NEW p \in Proc, Kill(p) PROVE PipeInv'
  BY <1>10, KillKeeps
<1>11. CASE Next
  BY <1>2, <1>3, <1>4, <1>5, <1>6, <1>7, <1>8, <1>9, <1>10, <1>11, Zenon
     DEF Next, Pipewrite, Piperead
<1>12. QED
  BY <1>1, <1>11

\* The invariant holds in every reachable state.
THEOREM PipeInvariant == Spec => []PipeInv
  BY InitInv, NextInv, PTL DEF Spec

\* The page of a pipe is freed only when nobody is inside pipewrite, piperead or
\* pipeclose and nobody can get there again (pipeclose, fileclose).
THEOREM FreedWhenUnused == Spec => []NoUseAfterFree
<1>1. PipeInv => NoUseAfterFree
  <2> SUFFICES ASSUME PipeInv, ~allocated, NEW p \in Proc
               PROVE  ends[p] = {} /\ pc[p] = "user"
    BY DEF NoUseAfterFree
  <2>1. "r" \notin ends[p] /\ "w" \notin ends[p] /\ pc[p] \notin {"close_r", "close_w"}
    BY DEF PipeInv, Opened
  <2>2. ends[p] = {}
    BY <2>1 DEF PipeInv, TypeOK
  <2>3. pc[p] = "user"
    BY <2>1 DEF PipeInv, TypeOK, PCs, Holds
  <2>4. QED
    BY <2>2, <2>3
<1>2. QED
  BY <1>1, PipeInvariant, PTL

\* readopen and writeopen agree with the descriptors (fileclose, pipeclose, fork).
THEOREM OpenIffHeld == Spec => []OpenWhileHeld
<1>1. PipeInv => OpenWhileHeld
  BY DEF PipeInv, Opened, OpenWhileHeld
<1>2. QED
  BY <1>1, PipeInvariant, PTL

\* Once nobody is inside the pipe, a process asleep on nwrite has no room and
\* somebody who may still read: no wakeup of a writer is lost.
THEOREM WritersNotStranded == Spec => []WriterSleepsOnFull
<1>1. PipeInv => WriterSleepsOnFull
  BY PipeAssumption DEF PipeInv, Exclusive, Inside, WritersSleep, WriterSleepsOnFull
<1>2. QED
  BY <1>1, PipeInvariant, PTL

-----------------------------------------------------------------------------
(* First in, first out *)

Symbols == Bytes \cup {NoByte}
Rings == [0..(PIPESIZE - 1) -> Symbols]

\* The c bytes of ring d from counter x on.
Part(d, x, c) == [k \in 1..c |-> d[Slot(x + k - 1)]]

\* They are a sequence.
LEMMA PartSeq ==
  ASSUME NEW d \in Rings, NEW x \in Nat, NEW c \in Nat
  PROVE  /\ Part(d, x, c) \in Seq(Symbols)
         /\ Len(Part(d, x, c)) = c
         /\ \A k \in 1..c : Part(d, x, c)[k] = d[Slot(x + k - 1)]
<1>1. ASSUME NEW k \in 1..c PROVE d[Slot(x + k - 1)] \in Symbols
  <2>1. x + k - 1 \in Nat
    BY SMTT(20)
  <2>2. Slot(x + k - 1) \in 0..(PIPESIZE - 1)
    BY <2>1, SlotRange
  <2>3. QED
    BY <2>2 DEF Rings
<1>2. Part(d, x, c) \in [1..c -> Symbols]
  BY <1>1 DEF Part
<1>3. Part(d, x, c) \in Seq(Symbols)
  BY <1>2, SeqDef
<1>4. QED
  BY <1>2, <1>3, LenProperties, SMTT(20) DEF Part

\* A sequence with the same bytes is the same part.
LEMMA PartEqual ==
  ASSUME NEW d \in Rings, NEW x \in Nat, NEW t \in Seq(Symbols),
         \A k \in 1..Len(t) : t[k] = d[Slot(x + k - 1)]
  PROVE  Part(d, x, Len(t)) = t
<1>1. Len(t) \in Nat
  BY LenProperties
<1>2. /\ Part(d, x, Len(t)) \in Seq(Symbols) /\ Len(Part(d, x, Len(t))) = Len(t)
      /\ \A k \in 1..Len(t) : Part(d, x, Len(t))[k] = d[Slot(x + k - 1)]
  BY <1>1, PartSeq
<1>3. QED
  BY <1>2, SeqEqual

\* What the ring holds, in these terms.
LEMMA ContentsIs ==
  ASSUME PipeInv
  PROVE  /\ Contents = Part(data, nread, Count)
         /\ data \in Rings /\ nread \in Word /\ nwrite \in Word
         /\ nread \in Nat /\ nwrite \in Nat /\ Count \in 0..PIPESIZE /\ Count \in Nat
<1>1. data \in Rings /\ nread \in Word /\ nwrite \in Word
  BY DEF PipeInv, TypeOK, Rings, Symbols, Word
<1>2. nread \in Nat /\ nwrite \in Nat
  BY <1>1, SMTT(20) DEF Word
<1>3. Count \in 0..PIPESIZE /\ Count \in Nat
  BY <1>1, CountIs, Sizes, SMTT(20) DEF Word, PipeInv, Fits
<1>4. Contents = Part(data, nread, Count)
  BY DEF Contents, Part, Slot
<1>5. QED
  BY <1>1, <1>2, <1>3, <1>4

\* The next free place lies Count bytes after the oldest one.
LEMMA NextPlace ==
  ASSUME nread \in Word, nwrite \in Word
  PROVE  Slot(nwrite) = Slot(nread + Count)
<1>1. nread \in Nat /\ nwrite \in Nat
  BY SMTT(20) DEF Word
<1>2. nread + Count = nwrite \/ nread + Count = nwrite + WRAP
  BY CountIs, Sizes, SMTT(20) DEF Word
<1>3. QED
  BY <1>1, <1>2, SlotWrap

\* pipewrite's store is a Send of the stream: the byte goes after the others,
\* over none of them.
LEMMA WriteSends ==
  ASSUME PipeInv, PipeInv', NEW p \in Proc, PipewriteByte(p)
  PROVE  \E b \in Bytes : BS!Send(b)
<1>1. PICK b \in Bytes : data' = [data EXCEPT ![Slot(nwrite)] = b]
  BY DEF PipewriteByte, Slot
<1>2. /\ pc[p] = "write" /\ ~Full /\ nwrite' = (nwrite + 1) % WRAP /\ nread' = nread
      /\ got' = got /\ writeopen' = writeopen /\ readopen' = readopen
  BY DEF PipewriteByte, opened
<1>3. /\ Contents = Part(data, nread, Count) /\ data \in Rings
      /\ nread \in Word /\ nwrite \in Word /\ nread \in Nat /\ Count \in 0..PIPESIZE
      /\ nwrite \in Nat /\ Count \in Nat
  BY ContentsIs
<1>4. Contents' = Part(data', nread', Count') /\ data' \in Rings
  BY DEF Contents, Part, Slot, PipeInv, TypeOK, Rings, Symbols
<1>5. Count < PIPESIZE
  BY <1>2, <1>3, FullIs, Sizes, SMTT(20)
<1>6. Count' = Count + 1
  BY <1>2, <1>3, <1>5, CountUp
<1>7. writeopen
  BY <1>2, InsideFacts DEF Writing
<1>8. /\ Contents \in Seq(Symbols) /\ Len(Contents) = Count
      /\ \A k \in 1..Count : Contents[k] = data[Slot(nread + k - 1)]
  BY <1>3, PartSeq
<1> DEFINE t == Append(Contents, b)
<1>9. b \in Symbols
  BY DEF Symbols
<1>10. /\ t \in Seq(Symbols) /\ Len(t) = Count + 1 /\ t[Count + 1] = b
       /\ \A k \in 1..Count : t[k] = Contents[k]
  BY <1>8, <1>9, AppendProperties, SMTT(20)
<1> HIDE DEF t
<1>11. ASSUME NEW k \in 1..(Count + 1) PROVE t[k] = data'[Slot(nread + k - 1)]
  <2>1. nread + k - 1 \in Nat
    BY <1>3, SMTT(20)
  <2>2. Slot(nwrite) \in 0..(PIPESIZE - 1) /\ Slot(nread + k - 1) \in 0..(PIPESIZE - 1)
    BY <1>3, <2>1, SlotRange
  <2>3. CASE k = Count + 1
    <3>1. nread + k - 1 = nread + Count
      BY <1>3, <2>3, SMTT(20)
    <3>2. Slot(nread + k - 1) = Slot(nwrite)
      BY <1>3, <3>1, NextPlace
    <3>3. data'[Slot(nwrite)] = b
      BY <1>1, <1>3, <2>2 DEF Rings
    <3>4. QED
      BY <1>10, <2>3, <3>2, <3>3
  <2>4. CASE k \in 1..Count
    <3>1. Count - k + 1 \in 1..(PIPESIZE - 1)
      BY <1>3, <1>5, <2>4, Sizes, SMTT(20)
    <3>2. Slot(nread + k - 1 + (Count - k + 1)) # Slot(nread + k - 1)
      BY <2>1, <3>1, SlotsDiffer
    <3>3. nread + k - 1 + (Count - k + 1) = nread + Count
      BY <1>3, SMTT(20)
    <3>4. Slot(nread + k - 1) # Slot(nwrite)
      BY <1>3, <3>2, <3>3, NextPlace
    <3>5. data'[Slot(nread + k - 1)] = data[Slot(nread + k - 1)]
      BY <1>1, <1>3, <2>2, <3>4 DEF Rings
    <3>6. QED
      BY <1>8, <1>10, <2>4, <3>5
  <2>5. QED
    BY <1>3, <2>3, <2>4, SMTT(20)
<1>12. Part(data', nread, Count + 1) = t
  BY <1>3, <1>4, <1>10, <1>11, PartEqual
<1>13. Contents' = Append(Contents, b)
  BY <1>2, <1>4, <1>6, <1>12 DEF t
<1>14. QED
  BY <1>2, <1>5, <1>7, <1>8, <1>13 DEF BS!Send

\* piperead's copy is a Deliver: the oldest byte, and the others stay.
LEMMA ReadDelivers ==
  ASSUME PipeInv, PipeInv', NEW p \in Proc, PipereadByte(p)
  PROVE  BS!Deliver
<1>1. /\ pc[p] = "copy" /\ nread # nwrite /\ nread' = (nread + 1) % WRAP /\ nwrite' = nwrite
      /\ got' = data[Slot(nread)] /\ data' = data
      /\ writeopen' = writeopen /\ readopen' = readopen
  BY DEF PipereadByte, opened, Slot, Empty
<1>2. /\ Contents = Part(data, nread, Count) /\ data \in Rings
      /\ nread \in Word /\ nwrite \in Word /\ nread \in Nat /\ Count \in Nat
  BY ContentsIs
<1>3. Contents' = Part(data', nread', Count')
  BY DEF Contents, Part, Slot
<1>4. nread' \in Word /\ Count' = Count - 1 /\ Count # 0
  BY <1>1, <1>2, CountDown, EmptyIs DEF Empty
<1>5. readopen
  BY <1>1, InsideFacts DEF Reading
<1>6. /\ Contents \in Seq(Symbols) /\ Len(Contents) = Count
      /\ \A k \in 1..Count : Contents[k] = data[Slot(nread + k - 1)]
  BY <1>2, PartSeq
<1>7. Contents # <<>>
  BY <1>2, <1>4, <1>6
<1>8. Head(Contents) = data[Slot(nread)]
  <2>1. Head(Contents) = Contents[1]
    BY <1>6, <1>7, SMTT(20)
  <2>2. 1 \in 1..Count /\ nread + 1 - 1 = nread
    BY <1>2, <1>4, SMTT(20)
  <2>3. QED
    BY <1>6, <2>1, <2>2
<1> DEFINE t == Tail(Contents)
<1>9. /\ t \in Seq(Symbols) /\ Len(t) = Count - 1
      /\ \A k \in 1..(Count - 1) : t[k] = Contents[k + 1]
  BY <1>6, <1>7, HeadTailProperties, ZenonT(30)
<1> HIDE DEF t
<1>10. nread' \in Nat
  BY <1>4, SMTT(20) DEF Word
<1>11. ASSUME NEW k \in 1..(Count - 1) PROVE t[k] = data[Slot(nread' + k - 1)]
  <2>1. k + 1 \in 1..Count /\ nread + (k + 1) - 1 = nread + k
    BY <1>2, SMTT(20)
  <2>2. t[k] = data[Slot(nread + k)]
    BY <1>6, <1>9, <2>1
  <2>3. nread' = IF nread + 1 = WRAP THEN 0 ELSE nread + 1
    BY <1>1, <1>2, Increment
  <2>4. CASE nread + 1 = WRAP
    <3>1. nread + k = k - 1 + WRAP /\ k - 1 \in Nat /\ nread' + k - 1 = k - 1
      BY <1>2, <2>3, <2>4, Sizes, SMTT(20)
    <3>2. Slot(nread + k) = Slot(nread' + k - 1)
      BY <3>1, SlotWrap
    <3>3. QED
      BY <2>2, <3>2
  <2>5. CASE nread + 1 # WRAP
    <3>1. nread' + k - 1 = nread + k
      BY <1>2, <2>3, <2>5, SMTT(20)
    <3>2. QED
      BY <2>2, <3>1
  <2>6. QED
    BY <2>4, <2>5
<1>12. Part(data, nread', Count - 1) = t
  BY <1>2, <1>9, <1>10, <1>11, PartEqual, ZenonT(30)
<1>13. Contents' = Tail(Contents)
  BY <1>1, <1>3, <1>4, <1>12 DEF t
<1>14. QED
  BY <1>1, <1>5, <1>7, <1>8, <1>13 DEF BS!Deliver

\* pipeclose closes one end of the stream.
LEMMA CloseCloses ==
  ASSUME PipeInv, NEW p \in Proc, Pipeclose(p)
  PROVE  BS!CloseSend \/ BS!CloseReceive
<1>1. Contents' = Contents /\ got' = got
  BY PipecloseEffect DEF Contents, Count
<1>2. QED
  BY <1>1, PipecloseEffect DEF BS!CloseSend, BS!CloseReceive

\* Every step is a step of the stream, or none.
LEMMA StepStreams ==
  ASSUME PipeInv, PipeInv', [Next]_vars
  PROVE  [BS!Next]_(BS!vars)
<1>1. ASSUME UNCHANGED <<data, nread, nwrite, got, readopen, writeopen>>
      PROVE  UNCHANGED BS!vars
  BY <1>1 DEF BS!vars, Contents, Count
<1>2. CASE UNCHANGED vars
  BY <1>1, <1>2 DEF vars
<1>3. ASSUME NEW p \in Proc, PipewriteByte(p) PROVE BS!Next
  BY <1>3, WriteSends DEF BS!Next
<1>4. ASSUME NEW p \in Proc, PipereadByte(p) PROVE BS!Next
  BY <1>4, ReadDelivers DEF BS!Next
<1>5. ASSUME NEW p \in Proc, Pipeclose(p) PROVE BS!Next
  BY <1>5, CloseCloses DEF BS!Next
<1>6. ASSUME NEW p \in Proc,
             \/ PipewriteEnter(p) \/ PipewriteFail(p) \/ PipewriteFull(p)
             \/ PipewriteWoken(p) \/ PipewriteDone(p)
             \/ PipereadEnter(p) \/ PipereadFail(p) \/ PipereadEmpty(p)
             \/ PipereadWoken(p) \/ PipereadReady(p) \/ PipereadDone(p)
             \/ \E child \in Proc : Fork(p, child)
             \/ \E end \in {"r", "w"} : Fileclose(p, end)
             \/ Kill(p)
      PROVE  UNCHANGED BS!vars
  <2>1. UNCHANGED <<ring, opened>>
    BY <1>6 DEF PipewriteEnter, PipewriteFail, PipewriteFull, PipewriteWoken, PipewriteDone,
                PipereadEnter, PipereadFail, PipereadEmpty, PipereadWoken, PipereadReady,
                PipereadDone, Fork, Fileclose, Kill, Enter, Reacquire
  <2>2. QED
    BY <1>1, <2>1 DEF ring, opened
<1>7. CASE Next
  BY <1>3, <1>4, <1>5, <1>6, <1>7, Zenon DEF Next, Pipewrite, Piperead
<1>8. QED
  BY <1>2, <1>7

\* The ring with its wrapping counters implements the bounded FIFO of
\* ByteStream: pipewrite, piperead and pipeclose of any number of processes.
THEOREM PipeImplementsStream == Spec => InOrder
<1>1. Init => BS!Init
  <2> SUFFICES ASSUME Init PROVE BS!Init
    OBVIOUS
  <2>1. Count = 0
    <3>1. nread \in Word /\ nwrite \in Word /\ nread = nwrite
      BY Sizes, SMTT(20) DEF Init, Word
    <3>2. QED
      BY <3>1, EmptyIs DEF Empty
  <2>2. Contents = <<>>
    <3>1. Contents = Part(data, nread, Count)
      BY DEF Contents, Part, Slot
    <3>2. PipeInv
      BY InitInv
    <3>3. Contents \in Seq(Symbols) /\ Len(Contents) = 0
      BY <2>1, <3>1, <3>2, ContentsIs, PartSeq
    <3>4. QED
      BY <3>3, EmptySeq
  <2>3. QED
    BY <2>2 DEF BS!Init, Init
<1>2. PipeInv /\ PipeInv' /\ [Next]_vars => [BS!Next]_(BS!vars)
  BY StepStreams
<1>3. QED
  BY <1>1, <1>2, PipeInvariant, PTL DEF Spec, InOrder, BS!Spec

-----------------------------------------------------------------------------
(* Readers *)

\* A step that leaves a reader asleep for no reason is a killed writer's return.
LEMMA ReadersStep ==
  ASSUME PipeInv, PipeInv', [Next]_vars, ReaderHasReason, ~ReaderHasReason'
  PROVE  \E p \in Proc : killed[p] /\ PipewriteFail(p)
<1>1. PICK s \in Proc : /\ pc'[s] = "rsleep"
                        /\ ~(Empty' /\ writeopen')
                        /\ \A q \in Proc : pc'[q] # "write"
  BY DEF ReaderHasReason
<1>2. readopen'
  BY <1>1 DEF PipeInv, Holds, Opened
<1>3. ASSUME UNCHANGED <<nread, nwrite, writeopen, pc>> PROVE FALSE
  BY <1>1, <1>3 DEF ReaderHasReason, Empty
<1>4. ASSUME NEW p \in Proc, PipewriteByte(p) PROVE FALSE
  BY <1>1, <1>4 DEF PipewriteByte
<1>5. ASSUME NEW p \in Proc, PipewriteEnter(p) \/ PipewriteWoken(p) PROVE FALSE
  BY <1>1, <1>5 DEF PipewriteEnter, PipewriteWoken, Enter, Reacquire, PipeInv, TypeOK
<1>6. ASSUME NEW p \in Proc, PipewriteFull(p) \/ PipewriteDone(p) PROVE FALSE
  <2>1. PICK to \in {"wsleep", "user"} : pc' = [WakeReaders EXCEPT ![p] = to]
    BY <1>6 DEF PipewriteFull, PipewriteDone, SleepOn, Return
  <2>2. to \in PCs
    BY DEF PCs
  <2>3. pc'[p] = to /\ \A q \in Proc \ {p} : pc'[q] # "rsleep"
    BY <2>1, <2>2, WokenFacts, SMTT(20) DEF WakeReaders, PipeInv
  <2>4. QED
    BY <1>1, <2>3
<1>7. ASSUME NEW p \in Proc, PipewriteFail(p) PROVE killed[p]
  <2>1. readopen
    BY <1>2, <1>7 DEF PipewriteFail, opened
  <2>2. QED
    BY <1>7, <2>1 DEF PipewriteFail
<1>8. ASSUME UNCHANGED <<nread, nwrite, writeopen>>,
             \A q \in Proc : /\ pc'[q] = "rsleep" => pc[q] = "rsleep"
                             /\ pc[q] = "write" => pc'[q] = "write"
      PROVE  FALSE
  BY <1>1, <1>8 DEF ReaderHasReason, Empty
<1>9. ASSUME NEW p \in Proc,
             PipereadEnter(p) \/ PipereadWoken(p) \/ PipereadFail(p) \/ PipereadReady(p)
      PROVE  FALSE
  <2>1. PICK to \in {"read", "copy", "user"} : pc' = [pc EXCEPT ![p] = to]
    BY <1>9 DEF PipereadEnter, PipereadWoken, PipereadFail, PipereadReady, Enter, Reacquire, Return
  <2>2. pc[p] # "write" /\ UNCHANGED <<nread, nwrite, writeopen>>
    BY <1>9 DEF PipereadEnter, PipereadWoken, PipereadFail, PipereadReady, Enter, Reacquire,
                ring, opened
  <2>3. QED
    BY <1>8, <2>1, <2>2 DEF PipeInv, TypeOK
<1>10. ASSUME NEW p \in Proc, PipereadEmpty(p) PROVE FALSE
  BY <1>1, <1>10 DEF PipereadEmpty, ring, opened, Empty
<1>11. ASSUME NEW p \in Proc, PipereadByte(p) PROVE FALSE
  BY <1>1, <1>11 DEF PipereadByte, ReaderHasReason
<1>12. ASSUME NEW p \in Proc, PipereadDone(p) PROVE FALSE
  <2>1. pc' = [WakeWriters EXCEPT ![p] = "user"] /\ "user" \in PCs
    BY <1>12 DEF PipereadDone, Return, PCs
  <2>2. pc'[p] = "user" /\ \A q \in Proc \ {p} : Rouses(q)
    BY <2>1, WokenFacts, SMTT(20) DEF WakeWriters, PipeInv
  <2>3. pc[p] # "write" /\ UNCHANGED <<nread, nwrite, writeopen>>
    BY <1>12 DEF PipereadDone, ring, opened
  <2>4. QED
    BY <1>8, <2>2, <2>3 DEF Rouses
<1>13. ASSUME NEW p \in Proc, NEW child \in Proc, Fork(p, child) PROVE FALSE
  BY <1>3, <1>13 DEF Fork, ring, opened
<1>14. ASSUME NEW p \in Proc, NEW end \in {"r", "w"}, Fileclose(p, end) PROVE FALSE
  <2>1. pc[p] = "user" /\ UNCHANGED <<nread, nwrite, writeopen>>
    BY <1>14 DEF Fileclose, ring, opened
  <2>2. pc' = pc \/ \E to \in {"close_r", "close_w"} : pc' = [pc EXCEPT ![p] = to]
    BY <1>14 DEF Fileclose
  <2>3. QED
    BY <1>8, <2>1, <2>2 DEF PipeInv, TypeOK
<1>15. ASSUME NEW p \in Proc, Pipeclose(p) PROVE FALSE
  <2>1. /\ UNCHANGED <<nread, nwrite>> /\ pc'[p] = "user" /\ pc[p] # "write"
        /\ \A q \in Proc \ {p} : Rouses(q)
    BY <1>15, PipecloseEffect
  <2>2. writeopen' = writeopen \/ \A q \in Proc \ {p} : pc'[q] # "rsleep"
    BY <1>15, PipecloseEffect
  <2>3. CASE writeopen' = writeopen
    BY <1>8, <2>1, <2>3 DEF Rouses
  <2>4. CASE \A q \in Proc \ {p} : pc'[q] # "rsleep"
    BY <1>1, <2>1, <2>4
  <2>5. QED
    BY <2>2, <2>3, <2>4
<1>16. ASSUME NEW p \in Proc, Kill(p) PROVE FALSE
  <2>1. UNCHANGED <<nread, nwrite, writeopen>>
    BY <1>16 DEF Kill, ring, opened
  <2>2. /\ pc'[p] # "rsleep" /\ (pc[p] = "write" => pc'[p] = "write")
        /\ \A q \in Proc \ {p} : pc'[q] = pc[q]
    BY <1>16 DEF Kill, PipeInv, TypeOK
  <2>3. QED
    BY <1>8, <2>1, <2>2
<1>17. CASE UNCHANGED vars
  BY <1>3, <1>17 DEF vars
<1>18. CASE Next
  BY <1>4, <1>5, <1>6, <1>7, <1>9, <1>10, <1>11, <1>12, <1>13, <1>14, <1>15, <1>16, <1>18,
     Zenon DEF Next, Pipewrite, Piperead
<1>19. QED
  BY <1>17, <1>18

\* Of all the steps of pipe.c only the early return of a killed writer leaves a
\* reader asleep without a reason: every other way out wakes the readers.
THEOREM ReadersWoken == Spec => ReadersWokenUnlessKilled
<1>1. /\ PipeInv /\ PipeInv' /\ [Next]_vars
      => [ReaderHasReason /\ ~ReaderHasReason' =>
            \E p \in Proc : killed[p] /\ PipewriteFail(p)]_vars
  BY ReadersStep
<1>2. QED
  BY <1>1, PipeInvariant, PTL DEF Spec, ReadersWokenUnlessKilled
=============================================================================
