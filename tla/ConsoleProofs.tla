---------------------------- MODULE ConsoleProofs ----------------------------
(***************************************************************************)
(* The ring of console.c keeps its order, nobody sleeps without a reason,  *)
(* sys_sleep sleeps long enough, and consoleintr with consoleread are a    *)
(* line editor in front of a queue: for any width of the unsigned indices, *)
(* any size of the ring that divides it, and any processes and keys.       *)
(***************************************************************************)
EXTENDS Console, TLAPS, WellFoundedInduction, SequenceTheorems

-----------------------------------------------------------------------------
(* Unsigned arithmetic *)

Word == 0..UINT-1

\* The sizes, without what only Slots needs.
LEMMA Sizes == UINT \in Nat /\ INPUT_BUF \in Nat \ {0} /\ INPUT_BUF <= UINT - 1
BY ConsoleAssumption

\* The remainder is an unsigned integer.
LEMMA UWord == ASSUME NEW x \in Int PROVE U(x) \in Word
BY Sizes DEF U, Word

\* Differences of two words wrap around at most once.
LEMMA UDiff ==
  ASSUME NEW x \in Word, NEW y \in Word
  PROVE  U(x - y) = IF x >= y THEN x - y ELSE x - y + UINT
BY Sizes DEF U, Word

\* So do sums.
LEMMA USum ==
  ASSUME NEW x \in Word, NEW y \in 0..UINT
  PROVE  U(x + y) = IF x + y < UINT THEN x + y ELSE x + y - UINT
BY Sizes DEF U, Word

\* A word is its own remainder.
LEMMA UId == ASSUME NEW x \in Word PROVE U(x) = x
BY Sizes DEF U, Word

\* The place of an index in the ring.
Slot(x) == x % INPUT_BUF

\* It is a place of the ring.
LEMMA SlotRange == ASSUME NEW x \in Word PROVE Slot(x) \in 0..INPUT_BUF-1
BY Sizes DEF Slot, Word

\* Nonempty sets of naturals have a least element.
LEMMA Least ==
  ASSUME NEW S \in SUBSET Nat, S # {}
  PROVE  \E k \in S : \A j \in S : k <= j
<1>1. \E k \in S : \A j \in S : ~(<<j, k>> \in OpToRel(<, Nat))
  BY NatLessThanWellFounded, WFMin
<1>2. ASSUME NEW j \in Nat, NEW k \in Nat, j < k
      PROVE  <<j, k>> \in OpToRel(<, Nat)
  BY <1>2, Zenon DEF OpToRel
<1>3. PICK k \in S : \A j \in S : ~(<<j, k>> \in OpToRel(<, Nat))
  BY <1>1
<1>4. \A j \in S : ~(j < k)
  BY <1>2, <1>3, Zenon
<1>5. QED
  BY <1>4

\* C('U') moves e back, and not past w.
LEMMA KillToBack ==
  ASSUME w \in Word, e \in Word
  PROVE  \E k \in 0..U(e - w) : KillTo = U(e - k)
<1> DEFINE len == U(e - w)
           stops == {k \in 0..len : k = len \/ Last(e - k) = "nl"}
<1>1. len \in Nat
  BY UWord, Sizes DEF Word
<1>2. stops \in SUBSET Nat /\ len \in stops
  BY <1>1
<1> HIDE DEF stops
<1>3. \E k \in stops : \A j \in stops : k <= j
  BY <1>2, Least
<1>4. (CHOOSE k \in stops : \A j \in stops : k <= j) \in stops
  BY <1>3
<1>5. stops \subseteq 0..len
  BY DEF stops
<1>6. KillTo = U(e - (CHOOSE k \in stops : \A j \in stops : k <= j))
  BY DEF KillTo, stops
<1>7. QED
  BY <1>4, <1>5, <1>6

-----------------------------------------------------------------------------
(* Types *)

Symbols == Chars \cup {None, "nl", "eot", "kill", "x"}
PCs == {"user", "dead", "read", "reading", "rsleep", "ticking", "tsleep"}
TypeInv ==
  /\ buf \in [0..INPUT_BUF-1 -> Symbols]
  /\ r \in Word /\ w \in Word /\ e \in Word
  /\ ticks \in Word
  /\ pc \in [Procs -> PCs]
  /\ n \in [Procs -> Int]
  /\ ticks0 \in [Procs -> Word]
  /\ since \in [Procs -> 0..UINT]
  /\ killed \in [Procs -> BOOLEAN]

\* Whatever comes from the keyboard or the serial port is a character.
LEMMA KeySymbols ==
  ASSUME NEW x \in {<<c, shift>> : c \in Chars} \cup {<<Charcode(c), Shift(c)>> : c \in Codes}
  PROVE  x[1] \in Symbols
BY DEF Symbols, Charcode

\* consoleintr stores a character, and w goes to e if it ends a line or fills the ring.
Stores(c) ==
  /\ U(e - r) < INPUT_BUF
  /\ buf' = [buf EXCEPT ![Slot(e)] = c]
  /\ e' = U(e + 1) /\ r' = r
  /\ \/ /\ w' = e' /\ pc' = Woken("rsleep", "read")
        /\ c \in {"nl", "eot"} \/ e' = U(r + INPUT_BUF)
     \/ w' = w /\ pc' = pc /\ e' # U(r + INPUT_BUF) /\ c \notin {"nl", "eot"}

\* The turns of consoleintr.
LEMMA EditCases ==
  ASSUME NEW c, Edit(c)
  PROVE  \/ UNCHANGED <<input, pc>>
         \/ e' = KillTo /\ UNCHANGED <<buf, r, w, pc>>
         \/ e # w /\ e' = U(e - 1) /\ UNCHANGED <<buf, r, w, pc>>
         \/ Stores(c)
BY DEF Edit, Stores, Slot, input

\* What they do to the indices: e goes back, and not past w, or a character is stored.
LEMMA EditEffect ==
  ASSUME TypeInv, NEW c, Edit(c)
  PROVE  \/ UNCHANGED <<input, pc>>
         \/ /\ \E k \in 0..U(e - w) : e' = U(e - k)
            /\ UNCHANGED <<buf, r, w, pc>>
         \/ Stores(c)
<1>1. CASE e' = KillTo /\ UNCHANGED <<buf, r, w, pc>>
  BY <1>1, KillToBack DEF TypeInv
<1>2. CASE e # w /\ e' = U(e - 1) /\ UNCHANGED <<buf, r, w, pc>>
  <2>1. U(e - w) = IF e >= w THEN e - w ELSE e - w + UINT
    BY UDiff DEF TypeInv
  <2>2. 1 \in 0..U(e - w)
    BY <1>2, <2>1, Sizes DEF TypeInv, Word
  <2>3. QED
    BY <1>2, <2>2
<1>3. QED
  BY <1>1, <1>2, EditCases

\* Changing a value of a function leaves it a function of the same kind.
LEMMA StaysFunction ==
  ASSUME NEW S, NEW T, NEW f \in [S -> T], NEW x \in S, NEW v \in T
  PROVE  [f EXCEPT ![x] = v] \in [S -> T]
OBVIOUS

\* A call that returns keeps the types.
LEMMA ReturnTypes ==
  ASSUME TypeInv, NEW p \in Procs, Return(p)
  PROVE  pc' \in [Procs -> PCs] /\ n' \in [Procs -> Int]
<1>1. (IF killed[p] THEN "dead" ELSE "user") \in PCs
  BY DEF PCs
<1>2. QED
  BY <1>1 DEF TypeInv, Return, Goto

\* Every step keeps the types.
LEMMA TypeStep == TypeInv /\ [Next]_vars => TypeInv'
<1> SUFFICES ASSUME TypeInv, [Next]_vars PROVE TypeInv'
  OBVIOUS
<1> USE DEF TypeInv, PCs, input, devices, sleepers, Goto
<1>1. CASE Consoleintr
  <2>1. PICK c \in Symbols : Edit(c)
    BY <1>1, KeySymbols DEF Consoleintr
  <2>2. Slot(e) \in 0..INPUT_BUF-1
    BY SlotRange
  <2>3. e' \in Word /\ w' \in Word /\ r' \in Word
    <3>1. U(e + 1) \in Word
      <4>1. e + 1 \in Int
        BY DEF Word
      <4>2. QED
        BY <4>1, UWord
    <3>2. ASSUME NEW k \in 0..U(e - w) PROVE U(e - k) \in Word
      <4>1. e - k \in Int
        BY DEF Word
      <4>2. QED
        BY <4>1, UWord
    <3>3. QED
      BY <2>1, <3>1, <3>2, EditEffect DEF Stores
  <2>4. buf' \in [0..INPUT_BUF-1 -> Symbols] /\ pc' \in [Procs -> PCs]
    <3>1. buf' = buf \/ buf' = [buf EXCEPT ![Slot(e)] = c]
      BY <2>1, EditEffect DEF Stores
    <3>2. pc' = pc \/ pc' = Woken("rsleep", "read")
      BY <2>1, EditEffect DEF Stores
    <3>3. QED
      BY <2>2, <3>1, <3>2 DEF Woken
  <2>5. QED
    BY <1>1, <2>3, <2>4 DEF Consoleintr
<1>2. CASE Tick
  <2>1. ticks' \in Word
    BY <1>2, UWord DEF Tick, Word
  <2>2. since' \in [Procs -> 0..UINT]
    BY <1>2, Sizes DEF Tick
  <2>3. QED
    BY <1>2, <2>1, <2>2 DEF Tick, Woken
<1>3. ASSUME NEW p \in Procs, UserTrap(p) PROVE TypeInv'
  BY <1>3 DEF UserTrap
<1>4. ASSUME NEW p \in Procs, Fault(p) PROVE TypeInv'
  BY <1>4 DEF Fault
<1>5. ASSUME NEW p \in Procs, Kill(p) PROVE TypeInv'
  BY <1>5 DEF Kill
<1>6. ASSUME NEW p \in Procs, Read(p) PROVE TypeInv'
  BY <1>6, ConsoleAssumption DEF Read
<1>7. ASSUME NEW p \in Procs, ReadLock(p) PROVE TypeInv'
  BY <1>7 DEF ReadLock
<1>8. ASSUME NEW p \in Procs, ReadChar(p) PROVE TypeInv'
  <2>1. r' = r \/ r' = U(r + 1)
    BY <1>8 DEF ReadChar
  <2>2. r' \in Word
    <3>1. r + 1 \in Int
      BY DEF Word
    <3>2. QED
      BY <2>1, <3>1, UWord
  <2>3. pc' \in [Procs -> PCs] /\ n' \in [Procs -> Int]
    <3>1. CASE Return(p)
      BY <3>1, ReturnTypes
    <3>2. CASE ~Return(p)
      BY <1>8, <3>2 DEF ReadChar
    <3>3. QED
      BY <3>1, <3>2
  <2>4. QED
    BY <1>8, <2>2, <2>3 DEF ReadChar
<1>9. ASSUME NEW p \in Procs, ReadEmpty(p) PROVE TypeInv'
  <2>1. pc' \in [Procs -> PCs] /\ n' \in [Procs -> Int]
    <3>1. CASE Return(p)
      BY <3>1, ReturnTypes
    <3>2. CASE ~Return(p)
      BY <1>9, <3>2 DEF ReadEmpty, Goto
    <3>3. QED
      BY <3>1, <3>2
  <2>2. QED
    BY <1>9, <2>1 DEF ReadEmpty
<1>10. ASSUME NEW p \in Procs, Sleep(p) PROVE TypeInv'
  BY <1>10, ConsoleAssumption DEF Sleep
<1>11. ASSUME NEW p \in Procs, SleepLoop(p) PROVE TypeInv'
  <2>1. pc' \in [Procs -> PCs] /\ n' \in [Procs -> Int]
    <3>1. CASE Return(p)
      BY <3>1, ReturnTypes
    <3>2. CASE ~Return(p)
      BY <1>11, <3>2 DEF SleepLoop, Goto
    <3>3. QED
      BY <3>1, <3>2
  <2>2. ticks0' \in [Procs -> Word] /\ since' \in [Procs -> 0..UINT]
    <3>1. \/ ticks0' = [ticks0 EXCEPT ![p] = 0] /\ since' = [since EXCEPT ![p] = 0]
          \/ ticks0' = ticks0 /\ since' = since
      BY <1>11 DEF SleepLoop
    <3>2. 0 \in Word /\ 0 \in 0..UINT
      BY Sizes DEF Word
    <3>3. /\ [ticks0 EXCEPT ![p] = 0] \in [Procs -> Word]
          /\ [since EXCEPT ![p] = 0] \in [Procs -> 0..UINT]
      BY <3>2, StaysFunction
    <3>4. QED
      BY <3>1, <3>3
  <2>3. QED
    BY <1>11, <2>1, <2>2 DEF SleepLoop
<1>12. CASE UNCHANGED vars
  BY <1>12 DEF vars
<1>13. QED
  BY <1>1, <1>2, <1>3, <1>4, <1>5, <1>6, <1>7, <1>8, <1>9, <1>10, <1>11, <1>12 DEF Next

-----------------------------------------------------------------------------
(* The ring *)

\* Only consoleintr and consoleread touch the ring: every other step leaves it.
LEMMA RingSteps ==
  ASSUME [Next]_vars
  PROVE  \/ UNCHANGED input
         \/ Consoleintr
         \/ \E p \in Procs : ReadChar(p)
BY DEF Next, vars, input, Tick, UserTrap, Fault, Kill, Read, ReadLock, ReadEmpty, Sleep, SleepLoop

\* consoleread takes a character when there is one, or leaves a ^D.
LEMMA ReadCharEffect ==
  ASSUME NEW p \in Procs, ReadChar(p)
  PROVE  /\ r # w /\ UNCHANGED <<buf, w, e>>
         /\ r' = r \/ r' = U(r + 1)
BY DEF ReadChar

\* Characters stored, taken and erased keep the indices in order.
LEMMA RingStep == TypeInv /\ RingOrdered /\ [Next]_vars => RingOrdered'
<1> SUFFICES ASSUME TypeInv, RingOrdered, [Next]_vars PROVE RingOrdered'
  OBVIOUS
<1>1. TypeInv'
  BY TypeStep
<1> DEFINE Minus(x, y) == IF x >= y THEN x - y ELSE x - y + UINT
           Plus(x, y) == IF x + y < UINT THEN x + y ELSE x + y - UINT
           Order(a, b, c) == /\ Minus(b, a) <= Minus(c, a) /\ Minus(c, a) <= INPUT_BUF
                             /\ Minus(c, a) = INPUT_BUF => b = c
<1>2. r \in Word /\ w \in Word /\ e \in Word /\ r' \in Word /\ w' \in Word /\ e' \in Word
  BY <1>1 DEF TypeInv
<1>3. Order(r, w, e)
  BY <1>2, UDiff DEF RingOrdered
<1>4. SUFFICES Order(r', w', e')
  BY <1>2, UDiff DEF RingOrdered
<1>5. CASE UNCHANGED input
  BY <1>3, <1>5 DEF input
<1>6. CASE Consoleintr
  <2>1. PICK c \in Symbols : Edit(c)
    BY <1>6, KeySymbols DEF Consoleintr
  <2>2. CASE UNCHANGED <<input, pc>>
    BY <1>3, <2>2 DEF input
  <2>3. ASSUME NEW k \in 0..U(e - w), e' = U(e - k), r' = r, w' = w
        PROVE  Order(r', w', e')
    <3>1. k \in 0..Minus(e, w)
      BY <1>2, UDiff
    <3>2. k \in Word
      BY <1>2, <3>1, Sizes DEF Word
    <3>3. e' = Minus(e, k)
      BY <1>2, <2>3, <3>2, UDiff
    <3>4. QED
      BY <1>2, <1>3, <2>3, <3>1, <3>3, Sizes DEF Word
  <2>4. ASSUME U(e - r) < INPUT_BUF, e' = U(e + 1), r' = r,
               w' = e' \/ (w' = w /\ e' # U(r + INPUT_BUF))
        PROVE  Order(r', w', e')
    <3>1. Minus(e, r) < INPUT_BUF
      BY <1>2, <2>4, UDiff
    <3>2. e' = Plus(e, 1)
      BY <1>2, <2>4, USum, Sizes
    <3>3. U(r + INPUT_BUF) = Plus(r, INPUT_BUF)
      BY <1>2, USum, Sizes
    <3>4. w' = e' \/ (w' = w /\ e' # Plus(r, INPUT_BUF))
      BY <2>4, <3>3
    <3>5. QED
      BY <1>2, <1>3, <2>4, <3>1, <3>2, <3>4, Sizes DEF Word
  <2>5. QED
    BY <2>1, <2>2, <2>3, <2>4, EditEffect DEF Stores
<1>7. ASSUME NEW p \in Procs, ReadChar(p) PROVE Order(r', w', e')
  <2>1. r' = r \/ r' = Plus(r, 1)
    BY <1>2, <1>7, ReadCharEffect, USum, Sizes
  <2>2. r # w /\ w' = w /\ e' = e
    BY <1>7, ReadCharEffect
  <2>3. CASE r' = r
    BY <1>3, <2>2, <2>3
  <2>4. CASE r' = Plus(r, 1)
    <3>1. /\ r \in 0..UINT-1 /\ w \in 0..UINT-1 /\ e \in 0..UINT-1
          /\ UINT \in Nat /\ INPUT_BUF \in 1..UINT-1
      BY <1>2, Sizes DEF Word
    <3>2. Minus(w, r') = Minus(w, r) - 1
      BY <2>2, <2>4, <3>1
    <3>3. Minus(e, r') = Minus(e, r) - 1
      BY <1>3, <2>2, <2>4, <3>1
    <3>4. QED
      BY <1>3, <2>2, <3>1, <3>2, <3>3
  <2>5. QED
    BY <2>1, <2>3, <2>4
<1>8. QED
  BY <1>5, <1>6, <1>7, RingSteps

-----------------------------------------------------------------------------
(* Sleeping *)

\* since counts ticks while sys_sleep runs, which the counters' difference shows
\* until it wraps around.
Clock ==
  \A p \in Procs :
    pc[p] \in {"ticking", "tsleep"} =>
      n[p] < UINT /\ (since[p] < UINT => U(ticks - ticks0[p]) = since[p])

\* What a step of process p does to the sleepers: the others and the clock are left
\* alone, and p sleeps, or counts ticks, only as the code says.
Isolated(p) ==
  /\ ticks' = ticks
  /\ \A q \in Procs \ {p} : /\ pc'[q] = pc[q] /\ n'[q] = n[q] /\ ticks0'[q] = ticks0[q]
                            /\ since'[q] = since[q] /\ killed'[q] = killed[q]
Dozes(p) ==
  /\ w' = w /\ (r = w => r' = r)
  /\ pc'[p] = "rsleep" => r = w
  /\ pc'[p] = "tsleep" => StillAsleep(p) /\ ~killed'[p] /\ pc[p] = "ticking"
  /\ pc'[p] \in {"ticking", "tsleep"} =>
       \/ ticks0'[p] = ticks /\ since'[p] = 0 /\ n'[p] \in Naps /\ pc'[p] = "ticking"
       \/ /\ pc[p] \in {"ticking", "tsleep"}
          /\ n'[p] = n[p] /\ ticks0'[p] = ticks0[p] /\ since'[p] = since[p]

\* Every step of a process is of this kind.
LEMMA ProcStep ==
  ASSUME TypeInv, SleepersHaveReason, NEW p \in Procs,
         \/ UserTrap(p) \/ Fault(p) \/ Kill(p) \/ Read(p) \/ ReadLock(p) \/ ReadChar(p)
         \/ ReadEmpty(p) \/ Sleep(p) \/ SleepLoop(p)
  PROVE  Isolated(p) /\ Dozes(p)
<1> USE DEF TypeInv, PCs, Isolated, Dozes, Goto, input, devices, sleepers
<1>1. CASE UserTrap(p)
  BY <1>1 DEF UserTrap
<1>2. CASE Fault(p)
  BY <1>2 DEF Fault
<1>3. CASE Kill(p)
  BY <1>3 DEF Kill
<1>4. CASE Read(p)
  BY <1>4 DEF Read
<1>5. CASE ReadLock(p)
  BY <1>5 DEF ReadLock
<1>6. CASE ReadChar(p)
  BY <1>6 DEF ReadChar, Return
<1>7. CASE ReadEmpty(p)
  BY <1>7 DEF ReadEmpty, Return
<1>8. CASE Sleep(p)
  BY <1>8 DEF Sleep
<1>9. CASE SleepLoop(p)
  BY <1>9 DEF SleepLoop, Return
<1>10. QED
  BY <1>1, <1>2, <1>3, <1>4, <1>5, <1>6, <1>7, <1>8, <1>9

\* Nobody falls asleep for nothing or sleeps on when the reason is gone.
LEMMA SleepersStep == TypeInv /\ SleepersHaveReason /\ [Next]_vars => SleepersHaveReason'
<1> SUFFICES ASSUME TypeInv, SleepersHaveReason, [Next]_vars PROVE SleepersHaveReason'
  OBVIOUS
<1> USE DEF SleepersHaveReason, StillAsleep
<1>1. CASE Consoleintr
  <2>1. PICK c \in Symbols : Edit(c)
    BY <1>1, KeySymbols DEF Consoleintr
  <2>2. \/ pc' = Woken("rsleep", "read")
        \/ pc' = pc /\ r' = r /\ w' = w
    BY <2>1, EditEffect DEF Stores, input
  <2>3. UNCHANGED <<ticks, ticks0, n, killed>>
    BY <1>1 DEF Consoleintr, sleepers
  <2>4. QED
    BY <2>2, <2>3 DEF Woken, TypeInv
<1>2. CASE Tick
  BY <1>2 DEF Tick, Woken, TypeInv, input
<1>3. ASSUME NEW p \in Procs, Isolated(p), Dozes(p)
      PROVE  SleepersHaveReason'
  BY <1>3 DEF Isolated, Dozes, TypeInv
<1>4. CASE UNCHANGED vars
  BY <1>4 DEF vars
<1>5. QED
  BY <1>1, <1>2, <1>3, <1>4, ProcStep DEF Next

\* The counters' difference goes on counting.
LEMMA ClockStep == TypeInv /\ SleepersHaveReason /\ Clock /\ [Next]_vars => Clock'
<1> SUFFICES ASSUME TypeInv, SleepersHaveReason, Clock, [Next]_vars PROVE Clock'
  OBVIOUS
<1>1. CASE Consoleintr
  <2>1. PICK c \in Symbols : Edit(c)
    BY <1>1, KeySymbols DEF Consoleintr
  <2>2. pc' = Woken("rsleep", "read") \/ pc' = pc
    BY <2>1, EditEffect DEF Stores
  <2>3. UNCHANGED <<ticks, ticks0, n, since>>
    BY <1>1 DEF Consoleintr, sleepers
  <2>4. QED
    BY <2>2, <2>3 DEF Woken, TypeInv, Clock
<1>2. CASE Tick
  <2> SUFFICES ASSUME NEW p \in Procs, pc'[p] \in {"ticking", "tsleep"}
               PROVE  n'[p] < UINT /\ (since'[p] < UINT => U(ticks' - ticks0'[p]) = since'[p])
    BY DEF Clock
  <2>1. pc[p] \in {"ticking", "tsleep"} /\ n' = n /\ ticks0' = ticks0 /\ ticks' = U(ticks + 1)
    BY <1>2 DEF Tick, Woken, TypeInv
  <2>2. since'[p] = IF since[p] < UINT THEN since[p] + 1 ELSE since[p]
    BY <1>2, <2>1 DEF Tick
  <2>3. ticks \in Word /\ ticks0[p] \in Word /\ since[p] \in 0..UINT
    BY DEF TypeInv
  <2>4. n[p] < UINT /\ (since[p] < UINT => U(ticks - ticks0[p]) = since[p])
    BY <2>1 DEF Clock
  <2>5. ASSUME since'[p] < UINT PROVE U(ticks' - ticks0[p]) = since'[p]
    <3>1. since[p] < UINT - 1 /\ since'[p] = since[p] + 1
      BY <2>2, <2>3, <2>5, Sizes
    <3>2. since[p] = IF ticks >= ticks0[p] THEN ticks - ticks0[p] ELSE ticks - ticks0[p] + UINT
      BY <2>3, <2>4, <3>1, UDiff, Sizes
    <3>3. ticks' = IF ticks + 1 < UINT THEN ticks + 1 ELSE ticks + 1 - UINT
      BY <2>1, <2>3, USum, Sizes
    <3>4. ticks' \in Word
      BY <2>3, <3>3, Sizes DEF Word
    <3>5. U(ticks' - ticks0[p]) =
            IF ticks' >= ticks0[p] THEN ticks' - ticks0[p] ELSE ticks' - ticks0[p] + UINT
      BY <2>3, <3>4, UDiff
    <3>6. QED
      BY <2>3, <3>1, <3>2, <3>3, <3>5, Sizes DEF Word
  <2>6. QED
    BY <2>1, <2>4, <2>5
<1>3. ASSUME NEW p \in Procs, Isolated(p), Dozes(p) PROVE Clock'
  <2>1. ASSUME NEW k \in Naps PROVE k < UINT
    BY ConsoleAssumption
  <2>2. U(ticks - ticks) = 0
    <3>1. U(ticks - ticks) = IF ticks >= ticks THEN ticks - ticks ELSE ticks - ticks + UINT
      BY UDiff DEF TypeInv
    <3>2. QED
      BY <3>1, Sizes DEF TypeInv, Word
  <2>3. QED
    BY <1>3, <2>1, <2>2 DEF Isolated, Dozes, TypeInv, Clock
<1>4. CASE UNCHANGED vars
  BY <1>4 DEF vars, Clock
<1>5. QED
  BY <1>1, <1>2, <1>3, <1>4, ProcStep DEF Next

\* When the kernel starts nobody sleeps and the ring is empty.
LEMMA InitInv == Init => TypeInv /\ RingOrdered /\ SleepersHaveReason /\ Clock
<1> SUFFICES ASSUME Init PROVE TypeInv /\ RingOrdered /\ SleepersHaveReason /\ Clock
  OBVIOUS
<1>1. 0 \in Word /\ 0 \in 0..UINT
  BY Sizes DEF Word
<1>2. TypeInv
  BY <1>1 DEF Init, TypeInv, Symbols, PCs
<1>3. U(0 - 0) = 0
  <2>1. U(0 - 0) = IF 0 >= 0 THEN 0 - 0 ELSE 0 - 0 + UINT
    BY <1>1, UDiff
  <2>2. QED
    BY <2>1
<1>4. RingOrdered
  BY <1>3, Sizes DEF Init, RingOrdered
<1>5. SleepersHaveReason /\ Clock
  BY DEF Init, SleepersHaveReason, Clock
<1>6. QED
  BY <1>2, <1>4, <1>5

\* struct input's r, w and e stay in order whatever is typed, read and erased, also
\* when they wrap around: console.c never reads a slot that was not written, nor
\* overwrites one that was not read, and hands over a full ring.
THEOREM RingInOrder == Spec => []RingOrdered
<1>1. Init => TypeInv /\ RingOrdered
  BY InitInv
<1>2. TypeInv /\ RingOrdered /\ [Next]_vars => (TypeInv /\ RingOrdered)'
  BY TypeStep, RingStep
<1>3. QED
  BY <1>1, <1>2, PTL DEF Spec

\* consoleread sleeps only while there is no input, and sys_sleep only while its
\* time has not come and it is not killed.
THEOREM NoVainSleep == Spec => []SleepersHaveReason
<1>1. Init => TypeInv /\ SleepersHaveReason
  BY InitInv
<1>2. TypeInv /\ SleepersHaveReason /\ [Next]_vars => (TypeInv /\ SleepersHaveReason)'
  BY TypeStep, SleepersStep
<1>3. QED
  BY <1>1, <1>2, PTL DEF Spec

\* sys_sleep(n) returns to a process that was not killed after n ticks or more,
\* although ticks may wrap around meanwhile, any number of times.
THEOREM SleepsLongEnough == Spec => SleptEnough
<1> DEFINE Inv == TypeInv /\ SleepersHaveReason /\ Clock
           Enough == \A p \in Procs :
             pc[p] = "ticking" /\ pc'[p] = "user" /\ n[p] >= 0 => since[p] >= n[p]
<1>1. Init => Inv
  BY InitInv
<1>2. Inv /\ [Next]_vars => Inv'
  BY TypeStep, SleepersStep, ClockStep
<1>3. Inv /\ [Next]_vars => [Enough]_vars
  <2> SUFFICES ASSUME Inv, Next, NEW p \in Procs,
                      pc[p] = "ticking", pc'[p] = "user", n[p] >= 0
               PROVE  since[p] >= n[p]
    OBVIOUS
  <2>1. SleepLoop(p)
    <3>1. pc' # Woken("tsleep", "ticking") /\ pc' # Woken("rsleep", "read") /\ pc' # pc
      BY DEF Woken
    <3>2. ~Tick /\ ~Consoleintr
      <4>1. ASSUME Consoleintr PROVE FALSE
        <5>1. PICK c \in Symbols : Edit(c)
          BY <4>1, KeySymbols DEF Consoleintr
        <5>2. QED
          BY <3>1, <5>1, EditEffect DEF Stores
      <4>2. QED
        BY <3>1, <4>1 DEF Tick
    <3>3. PICK q \in Procs :
            \/ UserTrap(q) \/ Fault(q) \/ Kill(q) \/ Read(q) \/ ReadLock(q) \/ ReadChar(q)
            \/ ReadEmpty(q) \/ Sleep(q) \/ SleepLoop(q)
      BY <3>2 DEF Next
    <3>4. q = p
      BY <3>3, ProcStep DEF Isolated
    <3>5. QED
      BY <3>3, <3>4 DEF UserTrap, Fault, Kill, Read, ReadLock, ReadChar, ReadEmpty, Sleep,
                        Goto, TypeInv
  <2>2. ~StillAsleep(p)
    BY <2>1 DEF SleepLoop, Return, Goto, TypeInv
  <2>3. n[p] < UINT /\ (since[p] < UINT => U(ticks - ticks0[p]) = since[p])
    BY DEF Clock
  <2>4. n[p] \in Word /\ since[p] \in 0..UINT
    BY <2>3, Sizes DEF TypeInv, Word
  <2>5. U(n[p]) = n[p]
    BY <2>4, UId
  <2>6. U(ticks - ticks0[p]) \in Word
    <3>1. ticks - ticks0[p] \in Int
      BY DEF TypeInv, Word
    <3>2. QED
      BY <3>1, UWord
  <2>7. QED
    BY <2>2, <2>3, <2>4, <2>5, <2>6, Sizes DEF StillAsleep, Word
<1>4. QED
  BY <1>1, <1>2, <1>3, PTL DEF Spec, SleptEnough

-----------------------------------------------------------------------------
(* The line editor *)

\* Multiples of INPUT_BUF less than INPUT_BUF apart are equal.
LEMMA NoMultiple ==
  ASSUME NEW m \in Int, INPUT_BUF * m \in 1..INPUT_BUF-1
  PROVE  FALSE
<1>1. CASE m >= 1
  <2>1. INPUT_BUF * m >= INPUT_BUF
    BY <1>1, Sizes
  <2>2. QED
    BY <2>1, Sizes
<1>2. CASE m <= 0
  <2>1. INPUT_BUF * m <= 0
    BY <1>2, Sizes
  <2>2. QED
    BY <2>1
<1>3. QED
  BY <1>1, <1>2

\* Multiplication distributes over subtraction.
LEMMA Distributes ==
  ASSUME NEW b \in Int, NEW i \in Int, NEW j \in Int
  PROVE  b * (i - j) = b * i - b * j
OBVIOUS

\* Indices less than INPUT_BUF apart have different slots: 2^32 is a multiple of
\* the size of the ring.
LEMMA Slots ==
  ASSUME NEW x \in Word, NEW y \in Word, U(x - y) \in 1..INPUT_BUF-1
  PROVE  Slot(x) # Slot(y)
<1> SUFFICES ASSUME x % INPUT_BUF = y % INPUT_BUF PROVE FALSE
  BY DEF Slot
<1>1. /\ x = INPUT_BUF * (x \div INPUT_BUF) + (x % INPUT_BUF) /\ x \div INPUT_BUF \in Int
      /\ y = INPUT_BUF * (y \div INPUT_BUF) + (y % INPUT_BUF) /\ y \div INPUT_BUF \in Int
      /\ UINT = INPUT_BUF * (UINT \div INPUT_BUF) /\ UINT \div INPUT_BUF \in Int
  BY ConsoleAssumption DEF Word
<1> DEFINE p == x \div INPUT_BUF
           q == y \div INPUT_BUF
           u == UINT \div INPUT_BUF
<1>2. /\ x \in Int /\ y \in Int /\ UINT \in Int /\ INPUT_BUF \in Int
      /\ INPUT_BUF * p \in Int /\ INPUT_BUF * q \in Int /\ INPUT_BUF * u \in Int
  BY <1>1, Sizes DEF Word
<1>3. x - y = INPUT_BUF * p - INPUT_BUF * q /\ UINT = INPUT_BUF * u
  <2> HIDE DEF p, q, u
  <2>1. x % INPUT_BUF \in Int
    BY <1>2, Sizes
  <2>2. QED
    BY <1>1, <1>2, <2>1 DEF p, q, u
<1>4. CASE x >= y
  <2>1. U(x - y) = x - y
    BY <1>4, UDiff
  <2>2. INPUT_BUF * (p - q) = INPUT_BUF * p - INPUT_BUF * q /\ p - q \in Int
    BY <1>1, <1>2, Distributes
  <2>3. QED
    BY <1>3, <2>1, <2>2, NoMultiple
<1>5. CASE ~(x >= y)
  <2>1. U(x - y) = x - y + UINT
    BY <1>5, UDiff
  <2>2. INPUT_BUF * (p - q) = INPUT_BUF * p - INPUT_BUF * q /\ p - q \in Int /\ u \in Int
    BY <1>1, <1>2, Distributes
  <2>3. INPUT_BUF * (p - q - (-u)) = INPUT_BUF * (p - q) - INPUT_BUF * (-u)
    BY <1>2, <2>2, Distributes
  <2>4. INPUT_BUF * (-u) = -(INPUT_BUF * u) /\ p - q - (-u) \in Int
    BY <1>2, <2>2
  <2>5. INPUT_BUF * (p - q - (-u)) = U(x - y)
    BY <1>2, <1>3, <2>1, <2>2, <2>3, <2>4
  <2>6. QED
    BY <2>4, <2>5, NoMultiple
<1>6. QED
  BY <1>4, <1>5

\* The characters of ring b from index x up to y.
Part(b, x, y) == [k \in 1..U(y - x) |-> b[Slot(U(x + k - 1))]]
Rings == [0..INPUT_BUF-1 -> Symbols]

\* They are a sequence.
LEMMA PartSeq ==
  ASSUME NEW b \in Rings, NEW x \in Word, NEW y \in Word
  PROVE  /\ Part(b, x, y) \in Seq(Symbols)
         /\ Len(Part(b, x, y)) = U(y - x)
         /\ U(y - x) \in Nat
         /\ \A k \in 1..U(y - x) : Part(b, x, y)[k] = b[Slot(U(x + k - 1))]
<1>1. U(y - x) \in Nat
  <2>1. U(y - x) = IF y >= x THEN y - x ELSE y - x + UINT
    BY UDiff
  <2>2. QED
    BY <2>1, Sizes DEF Word
<1>2. ASSUME NEW k \in 1..U(y - x) PROVE b[Slot(U(x + k - 1))] \in Symbols
  <2>1. x + k - 1 \in Int
    BY <1>1 DEF Word
  <2>2. U(x + k - 1) \in Word
    BY <2>1, UWord
  <2>3. Slot(U(x + k - 1)) \in 0..INPUT_BUF-1
    BY <2>2, SlotRange
  <2>4. QED
    BY <2>3 DEF Rings
<1>3. Part(b, x, y) \in [1..U(y - x) -> Symbols]
  BY <1>2 DEF Part
<1>4. Part(b, x, y) \in Seq(Symbols)
  BY <1>1, <1>3, SeqDef
<1>5. QED
  BY <1>1, <1>3, <1>4, LenProperties DEF Part

\* Two parts of the same length, with the same characters, are the same sequence.
LEMMA PartEqual ==
  ASSUME NEW b \in Rings, NEW x \in Word, NEW y \in Word, NEW t \in Seq(Symbols),
         Len(t) = U(y - x),
         \A k \in 1..U(y - x) : t[k] = b[Slot(U(x + k - 1))]
  PROVE  Part(b, x, y) = t
<1>1. /\ Part(b, x, y) \in Seq(Symbols) /\ Len(Part(b, x, y)) = U(y - x)
      /\ \A k \in 1..U(y - x) : Part(b, x, y)[k] = b[Slot(U(x + k - 1))]
  BY PartSeq
<1>2. \A k \in 1..Len(Part(b, x, y)) : Part(b, x, y)[k] = t[k]
  BY <1>1
<1>3. QED
  BY <1>1, <1>2, SeqEqual

\* The part from an index to itself is empty.
LEMMA PartEmpty ==
  ASSUME NEW b \in Rings, NEW x \in Word
  PROVE  Part(b, x, x) = <<>>
<1>1. U(x - x) = 0
  <2>1. U(x - x) = IF x >= x THEN x - x ELSE x - x + UINT
    BY UDiff
  <2>2. QED
    BY <2>1 DEF Word
<1>2. QED
  BY <1>1, PartSeq, EmptySeq

\* Sums of an index and two lengths may be reduced once or twice.
LEMMA UAdd ==
  ASSUME NEW x \in Word, NEW i \in Nat, NEW j \in Nat, i + j <= UINT
  PROVE  U(U(x + i) + j) = U(x + i + j)
<1>1. U(x + i) = IF x + i < UINT THEN x + i ELSE x + i - UINT
  BY USum, Sizes
<1>2. U(x + i) \in Word
  BY <1>1, Sizes DEF Word
<1>3. U(U(x + i) + j) = IF U(x + i) + j < UINT THEN U(x + i) + j ELSE U(x + i) + j - UINT
  BY <1>2, USum, Sizes
<1>4. U(x + (i + j)) = IF x + (i + j) < UINT THEN x + (i + j) ELSE x + (i + j) - UINT
  BY USum, Sizes
<1>5. QED
  BY <1>1, <1>3, <1>4, Sizes DEF Word

\* Where the characters of the ring are: a of them are handed over, d in all.
LEMMA Lengths ==
  ASSUME TypeInv, RingOrdered
  PROVE  /\ U(w - r) \in Nat /\ U(e - r) \in Nat /\ U(w - r) <= U(e - r)
         /\ U(e - r) <= INPUT_BUF /\ U(e - w) = U(e - r) - U(w - r)
         /\ U(r + U(w - r)) = w /\ U(r + U(e - r)) = e /\ U(w + U(e - w)) = e
         /\ U(e - r) = INPUT_BUF => w = e
<1> DEFINE Minus(x, y) == IF x >= y THEN x - y ELSE x - y + UINT
           Plus(x, y) == IF x + y < UINT THEN x + y ELSE x + y - UINT
<1>1. r \in Word /\ w \in Word /\ e \in Word
  BY DEF TypeInv
<1>2. U(w - r) = Minus(w, r) /\ U(e - r) = Minus(e, r) /\ U(e - w) = Minus(e, w)
  BY <1>1, UDiff
<1>3. /\ Minus(w, r) \in Nat /\ Minus(e, r) \in Nat /\ Minus(e, w) = Minus(e, r) - Minus(w, r)
      /\ Minus(w, r) <= Minus(e, r) /\ Minus(e, r) <= INPUT_BUF
      /\ Minus(e, r) = INPUT_BUF => w = e
  BY <1>1, <1>2, Sizes DEF Word, RingOrdered
<1>4. U(r + Minus(w, r)) = w
  <2>1. U(r + Minus(w, r)) = Plus(r, Minus(w, r))
    BY <1>1, <1>3, USum, Sizes
  <2>2. QED
    BY <1>1, <2>1, Sizes DEF Word
<1>5. U(r + Minus(e, r)) = e
  <2>1. U(r + Minus(e, r)) = Plus(r, Minus(e, r))
    BY <1>1, <1>3, USum, Sizes
  <2>2. QED
    BY <1>1, <2>1, Sizes DEF Word
<1>6. U(w + Minus(e, w)) = e
  <2>1. U(w + Minus(e, w)) = Plus(w, Minus(e, w))
    BY <1>1, <1>3, USum, Sizes
  <2>2. QED
    BY <1>1, <2>1, Sizes DEF Word
<1>7. QED
  BY <1>2, <1>3, <1>4, <1>5, <1>6

\* The slot of e is not one of those in use, unless the ring is full.
LEMMA FreeSlot ==
  ASSUME TypeInv, RingOrdered, U(e - r) < INPUT_BUF, NEW j \in 0..U(e - r)-1
  PROVE  Slot(U(r + j)) # Slot(e)
<1> DEFINE d == U(e - r)
<1>1. d \in Nat /\ U(r + d) = e
  BY Lengths
<1>2. r \in Word /\ e \in Word
  BY DEF TypeInv
<1>3. U(r + j) = IF r + j < UINT THEN r + j ELSE r + j - UINT
  BY <1>1, <1>2, USum, Sizes
<1>4. e = IF r + d < UINT THEN r + d ELSE r + d - UINT
  BY <1>1, <1>2, USum, Sizes
<1>5. U(r + j) \in Word
  BY <1>1, <1>2, <1>3, Sizes DEF Word
<1>6. U(e - U(r + j)) = IF e >= U(r + j) THEN e - U(r + j) ELSE e - U(r + j) + UINT
  BY <1>2, <1>5, UDiff
<1>7. U(e - U(r + j)) = d - j
  BY <1>1, <1>2, <1>3, <1>4, <1>6, Sizes DEF Word
<1>8. QED
  BY <1>1, <1>2, <1>5, <1>7, Slots, Sizes

\* A line that is being edited does not hold the end of one.
LineOpen == \A j \in 0..U(e - w)-1 : buf[Slot(U(w + j))] \notin {"nl", "eot"}

\* So C('U') goes back to w.
LEMMA KillToStart ==
  ASSUME TypeInv, RingOrdered, LineOpen
  PROVE  KillTo = w
<1> DEFINE len == U(e - w)
           stops == {k \in 0..len : k = len \/ Last(e - k) = "nl"}
<1>1. len \in Nat /\ U(w + len) = e /\ len <= INPUT_BUF
  BY Lengths, Sizes
<1>2. r \in Word /\ w \in Word /\ e \in Word
  BY DEF TypeInv
<1>3. ASSUME NEW k \in 0..len-1 PROVE Last(e - k) # "nl"
  <2>1. e = IF w + len < UINT THEN w + len ELSE w + len - UINT
    BY <1>1, <1>2, USum, Sizes
  <2>2. k + 1 \in Word
    BY <1>1, Sizes DEF Word
  <2>3. U(e - (k + 1)) = IF e >= k + 1 THEN e - (k + 1) ELSE e - (k + 1) + UINT
    BY <1>2, <2>2, UDiff
  <2>4. U(w + (len - k - 1)) =
          IF w + (len - k - 1) < UINT THEN w + (len - k - 1) ELSE w + (len - k - 1) - UINT
    BY <1>1, <1>2, USum, Sizes
  <2>5. U(e - (k + 1)) = U(w + (len - k - 1))
    <3>1. /\ UINT \in Nat /\ len \in Nat /\ len < UINT /\ k \in Nat /\ k < len
          /\ w \in Nat /\ w < UINT
      BY <1>1, <1>2, Sizes DEF Word
    <3> HIDE DEF len
    <3>2. CASE w + len < UINT
      BY <2>1, <2>3, <2>4, <3>1, <3>2
    <3>3. CASE ~(w + len < UINT)
      BY <2>1, <2>3, <2>4, <3>1, <3>3
    <3>4. QED
      BY <3>2, <3>3
  <2>6. e - k - 1 = e - (k + 1)
    BY <1>2 DEF Word
  <2>7. len - k - 1 \in 0..len-1
    BY <1>1
  <2>8. QED
    BY <2>5, <2>6, <2>7 DEF Last, LineOpen, Slot
<1>4. stops = {len}
  BY <1>1, <1>3
<1>5. (CHOOSE k \in stops : \A j \in stops : k <= j) = len
  BY <1>1, <1>4
<1>6. KillTo = U(e - len)
  BY <1>5 DEF KillTo
<1>7. U(e - len) = IF e >= len THEN e - len ELSE e - len + UINT
  <2>1. len \in Word
    BY <1>1, Sizes DEF Word
  <2>2. QED
    BY <1>2, <2>1, UDiff
<1>8. e = IF w + len < UINT THEN w + len ELSE w + len - UINT
  BY <1>1, <1>2, USum, Sizes
<1>9. QED
  BY <1>1, <1>2, <1>6, <1>7, <1>8, Sizes DEF Word

\* Indices of the line, counted from r.
LEMMA FromR ==
  ASSUME TypeInv, RingOrdered, NEW j \in 0..U(e - w)
  PROVE  U(w + j) = U(r + (U(w - r) + j)) /\ U(w - r) + j \in 0..U(e - r)
<1> DEFINE a == U(w - r)
           d == U(e - r)
<1>1. a \in Nat /\ d \in Nat /\ d <= INPUT_BUF /\ U(e - w) = d - a /\ U(r + a) = w
  BY Lengths
<1>2. a + j \in 0..d
  BY <1>1
<1>3. U(U(r + a) + j) = U(r + a + j)
  BY <1>1, UAdd, Sizes DEF TypeInv
<1>4. r + a + j = r + (a + j)
  BY <1>1 DEF TypeInv, Word
<1>5. QED
  BY <1>1, <1>2, <1>3, <1>4

\* Storing a character: it is in the slot of e, the others stay, and the lengths
\* grow by one.
LEMMA StoreEffect ==
  ASSUME TypeInv, RingOrdered, NEW c, Stores(c)
  PROVE  /\ buf'[Slot(e)] = c
         /\ \A j \in 0..U(e - r)-1 : buf'[Slot(U(r + j))] = buf[Slot(U(r + j))]
         /\ U(e' - r) = U(e - r) + 1 /\ U(e' - w) = U(e - w) + 1
         /\ e' = U(r + INPUT_BUF) <=> U(e - r) + 1 = INPUT_BUF
<1> DEFINE a == U(w - r)
           d == U(e - r)
           Minus(x, y) == IF x >= y THEN x - y ELSE x - y + UINT
           Plus(x, y) == IF x + y < UINT THEN x + y ELSE x + y - UINT
<1>1. /\ a \in Nat /\ d \in Nat /\ a <= d /\ d < INPUT_BUF /\ U(e - w) = d - a
      /\ U(r + a) = w /\ U(r + d) = e
  BY Lengths DEF Stores
<1>2. r \in Word /\ w \in Word /\ e \in Word /\ buf \in [0..INPUT_BUF-1 -> Symbols]
  BY DEF TypeInv
<1>3. Slot(e) \in 0..INPUT_BUF-1
  BY <1>2, SlotRange
<1>4. buf'[Slot(e)] = c
  BY <1>2, <1>3 DEF Stores
<1>5. ASSUME NEW j \in 0..d-1
      PROVE  buf'[Slot(U(r + j))] = buf[Slot(U(r + j))]
  <2>1. Slot(U(r + j)) # Slot(e)
    BY <1>1, FreeSlot
  <2>2. U(r + j) \in Word
    <3>1. r + j \in Int
      BY <1>1, <1>2 DEF Word
    <3>2. QED
      BY <3>1, UWord
  <2>3. Slot(U(r + j)) \in 0..INPUT_BUF-1
    BY <2>2, SlotRange
  <2>4. QED
    BY <1>2, <2>1, <2>3 DEF Stores
<1>6. e' = Plus(e, 1)
  BY <1>2, USum, Sizes DEF Stores
<1>7. e' \in Word
  BY <1>2, <1>6, Sizes DEF Word
<1>8. d = Minus(e, r) /\ U(e' - r) = Minus(e', r) /\ U(e - w) = Minus(e, w) /\ U(e' - w) = Minus(e', w)
  BY <1>2, <1>7, UDiff
<1> HIDE DEF Minus
<1>9. /\ Minus(e, r) < INPUT_BUF /\ Minus(e, w) <= Minus(e, r)
      /\ r \in 0..UINT-1 /\ w \in 0..UINT-1 /\ e \in 0..UINT-1
      /\ UINT \in Nat /\ INPUT_BUF \in 1..UINT-1
  BY <1>1, <1>2, <1>8, Sizes DEF Word
<1>10. Minus(e', r) = Minus(e, r) + 1 /\ Minus(e', w) = Minus(e, w) + 1
  BY <1>6, <1>9 DEF Minus
<1>11. U(r + INPUT_BUF) = Plus(r, INPUT_BUF)
  BY <1>2, USum, Sizes
<1>12. e' = Plus(r, INPUT_BUF) <=> Minus(e, r) + 1 = INPUT_BUF
  BY <1>6, <1>9 DEF Minus
<1> HIDE DEF Plus
<1>13. QED
  BY <1>4, <1>5, <1>8, <1>10, <1>11, <1>12

\* The characters of the line stay when one more is stored.
LEMMA StoreLine ==
  ASSUME TypeInv, RingOrdered, NEW c, Stores(c)
  PROVE  /\ \A j \in 0..U(e - w)-1 : buf'[Slot(U(w + j))] = buf[Slot(U(w + j))]
         /\ buf'[Slot(U(w + U(e - w)))] = c
<1>1. /\ U(w - r) \in Nat /\ U(e - r) \in Nat /\ U(e - w) = U(e - r) - U(w - r) /\ U(w - r) <= U(e - r)
      /\ U(w + U(e - w)) = e
  BY Lengths
<1>2. ASSUME NEW j \in 0..U(e - w)-1
      PROVE  buf'[Slot(U(w + j))] = buf[Slot(U(w + j))]
  <2>1. U(w + j) = U(r + (U(w - r) + j))
    BY <1>1, FromR
  <2>2. U(w - r) + j \in 0..U(e - r)-1
    BY <1>1
  <2>3. QED
    BY <2>1, <2>2, StoreEffect
<1>3. QED
  BY <1>1, <1>2, StoreEffect

\* Erasing the last character of the line leaves one less, wherever w is.
LEMMA EraseLength ==
  ASSUME TypeInv, RingOrdered, e # w
  PROVE  U(e - 1) \in Word /\ U(U(e - 1) - w) = U(e - w) - 1 /\ U(e - w) \in Nat \ {0}
<1> DEFINE Minus(x, y) == IF x >= y THEN x - y ELSE x - y + UINT
<1>1. w \in Word /\ e \in Word /\ 1 \in Word
  BY Sizes DEF TypeInv, Word
<1>2. U(e - 1) = Minus(e, 1) /\ U(e - w) = Minus(e, w)
  BY <1>1, UDiff
<1>3. U(e - 1) \in Word
  BY <1>1, <1>2, Sizes DEF Word
<1>4. U(U(e - 1) - w) = Minus(Minus(e, 1), w)
  BY <1>1, <1>2, <1>3, UDiff
<1>5. Minus(Minus(e, 1), w) = Minus(e, w) - 1 /\ Minus(e, w) \in Nat \ {0}
  BY <1>1, Sizes DEF Word
<1>6. QED
  BY <1>2, <1>3, <1>4, <1>5

\* Nothing is between an index and itself.
LEMMA NoLength == ASSUME NEW x \in Word PROVE U(x - x) = 0
<1>1. U(x - x) = IF x >= x THEN x - x ELSE x - x + UINT
  BY UDiff
<1>2. QED
  BY <1>1 DEF Word

EditorInv == TypeInv /\ RingOrdered /\ LineOpen

\* The line stays open until it is handed over.
LEMMA EditorStep == EditorInv /\ [Next]_vars => EditorInv'
<1> SUFFICES ASSUME EditorInv, [Next]_vars PROVE LineOpen'
  BY TypeStep, RingStep DEF EditorInv
<1> USE DEF EditorInv
<1>1. TypeInv'
  BY TypeStep
<1>2. CASE UNCHANGED input
  BY <1>2 DEF input, LineOpen
<1>3. ASSUME NEW c \in Symbols, Edit(c) PROVE LineOpen'
  <2>1. CASE UNCHANGED <<input, pc>>
    BY <2>1 DEF input, LineOpen
  <2>2. CASE e' = KillTo /\ UNCHANGED <<buf, r, w, pc>>
    <3>1. U(e' - w') = 0
      BY <2>2, KillToStart, NoLength DEF TypeInv
    <3>2. QED
      BY <3>1 DEF LineOpen
  <2>3. CASE e # w /\ e' = U(e - 1) /\ UNCHANGED <<buf, r, w, pc>>
    <3>1. U(e' - w') = U(e - w) - 1 /\ U(e - w) \in Nat
      BY <2>3, EraseLength
    <3>2. 0..U(e' - w')-1 \subseteq 0..U(e - w)-1
      BY <3>1
    <3>3. QED
      BY <2>3, <3>2 DEF LineOpen
  <2>4. ASSUME Stores(c) PROVE LineOpen'
    <3>1. CASE w' = e'
      BY <1>1, <3>1, NoLength DEF LineOpen, TypeInv
    <3>2. CASE w' = w /\ c \notin {"nl", "eot"}
      <4>1. U(e' - w') = U(e - w) + 1 /\ U(e - w) \in Nat
        <5>1. U(e' - w) = U(e - w) + 1
          BY <2>4, StoreEffect
        <5>2. U(e - w) = U(e - r) - U(w - r) /\ U(w - r) \in Nat /\ U(e - r) \in Nat
              /\ U(w - r) <= U(e - r)
          BY Lengths
        <5>3. U(e - w) \in Nat
          BY <5>2
        <5>4. QED
          BY <3>2, <5>1, <5>3
      <4>2. ASSUME NEW j \in 0..U(e - w) PROVE buf'[Slot(U(w + j))] \notin {"nl", "eot"}
        <5>1. CASE j \in 0..U(e - w)-1
          BY <2>4, <5>1, StoreLine DEF LineOpen
        <5>2. CASE j = U(e - w)
          BY <2>4, <3>2, <5>2, StoreLine
        <5>3. QED
          BY <4>1, <5>1, <5>2
      <4>3. 0..U(e' - w')-1 = 0..U(e - w)
        BY <4>1
      <4>4. QED
        BY <3>2, <4>2, <4>3 DEF LineOpen
    <3>3. QED
      BY <2>4, <3>1, <3>2 DEF Stores
  <2>5. QED
    BY <1>3, <2>1, <2>2, <2>3, <2>4, EditCases
<1>4. CASE Consoleintr
  BY <1>3, <1>4, KeySymbols DEF Consoleintr
<1>5. ASSUME NEW p \in Procs, ReadChar(p) PROVE LineOpen'
  BY <1>5, ReadCharEffect DEF LineOpen
<1>6. QED
  BY <1>2, <1>4, <1>5, RingSteps

\* The mapping of Console, and of its next state, in these terms.
LEMMA RingParts ==
  /\ Ring(r, w) = Part(buf, r, w) /\ Ring(w, e) = Part(buf, w, e)
  /\ Ring(r, w)' = Part(buf', r', w') /\ Ring(w, e)' = Part(buf', w', e')
BY DEF Ring, Part, Slot

\* A sequence that is one longer and agrees with s begins with s.
LEMMA AppendShape ==
  ASSUME NEW S, NEW s \in Seq(S), NEW t \in Seq(S), Len(t) = Len(s) + 1,
         \A k \in 1..Len(s) : t[k] = s[k]
  PROVE  SubSeq(t, 1, Len(s)) = s
<1> DEFINE n1 == Len(s)
           front == SubSeq(t, 1, n1)
<1>1. n1 \in Nat
  BY LenProperties
<1> HIDE DEF n1
<1>2. \A k \in 1..n1 : t[k] \in S
  BY <1>1, ElementOfSeq DEF n1
<1>3. front \in Seq(S) /\ Len(front) = n1 /\ \A k \in 1..n1 : front[k] = t[k]
  BY <1>1, <1>2, SubSeqProperties
<1> HIDE DEF front
<1>4. \A k \in 1..n1 : front[k] = s[k]
  BY <1>3 DEF n1
<1>5. front = s
  BY <1>3, <1>4, SeqEqual DEF n1
<1>6. QED
  BY <1>5 DEF front, n1

\* A sequence one longer than s and t that agrees with them begins with both.
LEMMA ConcatShape ==
  ASSUME NEW S, NEW s \in Seq(S), NEW t \in Seq(S), NEW u \in Seq(S),
         Len(u) = Len(s) + Len(t) + 1,
         \A k \in 1..Len(s) : u[k] = s[k],
         \A k \in 1..Len(t) : u[Len(s) + k] = t[k]
  PROVE  SubSeq(u, 1, Len(s) + Len(t)) = s \o t
<1> DEFINE both == s \o t
           m == Len(s)
           l == Len(t)
<1>1. m \in Nat /\ l \in Nat
  BY LenProperties
<1>2. /\ both \in Seq(S) /\ Len(both) = m + l
      /\ \A k \in 1..(m + l) : both[k] = IF k <= m THEN s[k] ELSE t[k - m]
  BY ConcatProperties
<1>3. \A k \in 1..m : u[k] = s[k]
  OBVIOUS
<1>4. \A k \in 1..l : u[m + k] = t[k]
  OBVIOUS
<1> HIDE DEF both, m, l
<1>5. ASSUME NEW k \in 1..(m + l) PROVE u[k] = both[k]
  <2>1. CASE k <= m
    <3>1. k \in 1..m
      BY <1>1, <2>1
    <3>2. both[k] = s[k]
      BY <1>2, <2>1
    <3>3. QED
      BY <1>3, <3>1, <3>2
  <2>2. CASE ~(k <= m)
    <3>1. k - m \in 1..l /\ m + (k - m) = k
      BY <1>1, <2>2
    <3>2. u[k] = t[k - m]
      BY <1>4, <3>1
    <3>3. QED
      BY <1>2, <2>2, <3>2
  <2>3. QED
    BY <2>1, <2>2
<1>6. Len(u) = Len(both) + 1
  BY <1>2 DEF m, l
<1>7. SubSeq(u, 1, Len(both)) = both
  BY <1>2, <1>5, <1>6, AppendShape
<1>8. QED
  BY <1>2, <1>7 DEF both, m, l

\* Storing a character appends it to the line; if w goes to e, ready gets it all.
LEMMA StoreRefines ==
  ASSUME EditorInv, TypeInv', NEW c \in Symbols, Stores(c)
  PROVE  Cooked!Type \/ Cooked!HandOver
<1> DEFINE a == U(w - r)
           l == U(e - w)
           d == U(e - r)
           ready == Part(buf, r, w)
           line == Part(buf, w, e)
           readyN == Part(buf', r', w')
           lineN == Part(buf', w', e')
           At(x) == buf[Slot(U(x))]
           AtN(x) == buf'[Slot(U(x))]
<1>1. /\ a \in Nat /\ l \in Nat /\ d = a + l /\ d < INPUT_BUF
      /\ \A j \in 0..d-1 : AtN(r + j) = At(r + j)
      /\ \A j \in 0..l-1 : AtN(w + j) = At(w + j)
      /\ \A j \in 0..l : U(w + j) = U(r + (a + j))
      /\ AtN(r + d) = c /\ AtN(w + l) = c
      /\ U(e' - r) = d + 1 /\ U(e' - w) = l + 1
      /\ e' = U(r + INPUT_BUF) <=> d + 1 = INPUT_BUF
  <2>1. /\ a \in Nat /\ d \in Nat /\ a <= d /\ l = d - a /\ U(r + d) = e
    BY Lengths DEF EditorInv
  <2>2. l \in Nat /\ d = a + l
    BY <2>1
  <2>3. QED
    BY <2>1, <2>2, StoreEffect, StoreLine, FromR DEF EditorInv, Stores
<1>2. /\ buf \in Rings /\ r \in Word /\ w \in Word /\ e \in Word
      /\ buf' \in Rings /\ r' \in Word /\ w' \in Word /\ e' \in Word
      /\ r \in Int /\ w \in Int
  <2>1. /\ buf \in Rings /\ r \in Word /\ w \in Word /\ e \in Word
    BY DEF EditorInv, TypeInv, Rings
  <2>2. /\ buf' \in Rings /\ r' \in Word /\ w' \in Word /\ e' \in Word
    BY DEF TypeInv, Rings
  <2>3. Word \subseteq Int
    BY DEF Word
  <2>4. QED
    BY <2>1, <2>2, <2>3
<1>3. /\ ready \in Seq(Symbols) /\ Len(ready) = a
      /\ \A k \in 1..a : ready[k] = At(r + k - 1)
  BY <1>2, PartSeq
<1>4. /\ line \in Seq(Symbols) /\ Len(line) = l
      /\ \A k \in 1..l : line[k] = At(w + k - 1)
  BY <1>2, PartSeq
<1>5. /\ readyN \in Seq(Symbols) /\ Len(readyN) = U(w' - r')
      /\ \A k \in 1..U(w' - r') : readyN[k] = AtN(r' + k - 1)
  BY <1>2, PartSeq
<1>6. /\ lineN \in Seq(Symbols) /\ Len(lineN) = U(e' - w')
      /\ \A k \in 1..U(e' - w') : lineN[k] = AtN(w' + k - 1)
  BY <1>2, PartSeq
<1> HIDE DEF a, l, d, ready, line, readyN, lineN, At, AtN
<1>7. ASSUME NEW k \in 1..d PROVE AtN(r + k - 1) = At(r + k - 1)
  <2>1. k - 1 \in 0..d-1 /\ r + k - 1 = r + (k - 1)
    BY <1>1, <1>2
  <2>2. QED
    BY <1>1, <2>1
<1>8. CASE w' = w /\ e' # U(r + INPUT_BUF) /\ c \notin {"nl", "eot"}
  <2>1. a + l < INPUT_BUF - 1
    BY <1>1, <1>8, Sizes
  <2>2. readyN = ready
    <3>1. r' = r /\ w' = w
      BY <1>8 DEF Stores
    <3>2. \A k \in 1..a : ready[k] = AtN(r + k - 1)
      BY <1>1, <1>3, <1>7
    <3>3. Part(buf', r, w) = ready
      BY <1>2, <1>3, <3>2, PartEqual DEF a, AtN
    <3>4. QED
      BY <3>1, <3>3 DEF readyN
  <2>3. Len(lineN) = l + 1 /\ \A k \in 1..(l + 1) : lineN[k] = AtN(w + k - 1)
    BY <1>1, <1>6, <1>8
  <2>4. ASSUME NEW k \in 1..l PROVE lineN[k] = line[k]
    <3>1. k - 1 \in 0..l-1 /\ w + k - 1 = w + (k - 1) /\ k \in 1..(l + 1)
      BY <1>1, <1>2
    <3>2. AtN(w + k - 1) = At(w + k - 1)
      BY <1>1, <3>1
    <3>3. QED
      BY <1>4, <2>3, <3>1, <3>2
  <2>5. SubSeq(lineN, 1, Len(line)) = line
    BY <1>4, <1>6, <2>3, <2>4, AppendShape
  <2>6. lineN[l + 1] = c
    <3>1. l + 1 \in 1..(l + 1) /\ w + (l + 1) - 1 = w + l
      BY <1>1, <1>2
    <3>2. QED
      BY <1>1, <2>3, <3>1
  <2>7. /\ Len(ready) + Len(line) < INPUT_BUF - 1 /\ Len(lineN) = Len(line) + 1
        /\ lineN[Len(lineN)] \notin {"nl", "eot"}
    BY <1>3, <1>4, <1>8, <2>1, <2>3, <2>6
  <2>8. QED
    BY <2>2, <2>5, <2>7, RingParts DEF Cooked!Type, ready, readyN, line, lineN
<1>9. CASE w' = e' /\ (c \in {"nl", "eot"} \/ e' = U(r + INPUT_BUF))
  <2>1. lineN = <<>>
    BY <1>2, <1>9, PartEmpty DEF lineN
  <2>2. Len(readyN) = d + 1 /\ \A k \in 1..(d + 1) : readyN[k] = AtN(r + k - 1)
    <3>1. U(w' - r') = d + 1 /\ r' = r
      BY <1>1, <1>9 DEF Stores
    <3>2. QED
      BY <1>5, <3>1
  <2>3. ASSUME NEW k \in 1..a PROVE readyN[k] = ready[k]
    <3>1. k \in 1..d /\ k \in 1..(d + 1)
      BY <1>1
    <3>2. QED
      BY <1>3, <1>7, <2>2, <3>1
  <2>4. ASSUME NEW k \in 1..l PROVE readyN[a + k] = line[k]
    <3>1. /\ a + k \in 1..d /\ a + k \in 1..(d + 1) /\ k - 1 \in 0..l
          /\ w + k - 1 = w + (k - 1) /\ r + (a + k) - 1 = r + (a + (k - 1))
      BY <1>1, <1>2
    <3>2. At(w + k - 1) = At(r + (a + k) - 1)
      BY <1>1, <3>1 DEF At
    <3>3. readyN[a + k] = At(r + (a + k) - 1)
      BY <1>7, <2>2, <3>1
    <3>4. QED
      BY <1>4, <3>2, <3>3
  <2>5. SubSeq(readyN, 1, Len(ready) + Len(line)) = ready \o line
    BY <1>1, <1>3, <1>4, <1>5, <2>2, <2>3, <2>4, ConcatShape
  <2>6. readyN[d + 1] = c
    <3>1. d + 1 \in 1..(d + 1) /\ r + (d + 1) - 1 = r + d
      BY <1>1, <1>2
    <3>2. QED
      BY <1>1, <2>2, <3>1
  <2>7. /\ Len(readyN) = Len(ready) + Len(line) + 1
        /\ Len(readyN) - 1 = Len(ready) + Len(line)
        /\ readyN[Len(readyN)] \in {"nl", "eot"} \/ Len(readyN) = INPUT_BUF
    BY <1>1, <1>3, <1>4, <1>9, <2>2, <2>6
  <2>8. QED
    BY <2>1, <2>5, <2>7, RingParts DEF Cooked!HandOver, ready, readyN, line, lineN
<1>10. QED
  BY <1>8, <1>9 DEF Stores

\* Backspace takes the last character off the line.
LEMMA EraseRefines ==
  ASSUME EditorInv, e # w, e' = U(e - 1), UNCHANGED <<buf, r, w>>
  PROVE  Cooked!Erase
<1> DEFINE len == U(e - w)
           line == Part(buf, w, e)
<1> USE DEF EditorInv
<1>1. e' \in Word /\ U(e' - w) = len - 1 /\ len \in Nat \ {0}
  BY EraseLength
<1>2. buf \in Rings /\ w \in Word /\ e \in Word
  BY DEF TypeInv, Rings
<1>3. /\ Len(line) = len /\ line \in Seq(Symbols)
      /\ \A k \in 1..len : line[k] = buf[Slot(U(w + k - 1))]
  BY <1>2, PartSeq
<1>4. \A k \in 1..(len - 1) : line[k] \in Symbols
  BY <1>1, <1>3, ElementOfSeq
<1>5. /\ SubSeq(line, 1, len - 1) \in Seq(Symbols) /\ Len(SubSeq(line, 1, len - 1)) = len - 1
      /\ \A k \in 1..(len - 1) : SubSeq(line, 1, len - 1)[k] = line[k]
  BY <1>1, <1>4, SubSeqProperties
<1>6. Part(buf, w, e') = SubSeq(line, 1, len - 1)
  <2>1. Len(SubSeq(line, 1, len - 1)) = U(e' - w)
    BY <1>1, <1>5
  <2>2. \A k \in 1..U(e' - w) :
          SubSeq(line, 1, len - 1)[k] = buf[Slot(U(w + k - 1))]
    <3>1. ASSUME NEW k \in 1..(len - 1)
          PROVE  SubSeq(line, 1, len - 1)[k] = buf[Slot(U(w + k - 1))]
      <4>1. k \in 1..len
        BY <1>1
      <4>2. QED
        BY <1>3, <1>5, <4>1
    <3>2. QED
      BY <1>1, <3>1
  <2>3. QED
    BY <1>1, <1>2, <1>5, <2>1, <2>2, PartEqual
<1>7. line # <<>>
  BY <1>1, <1>3, EmptySeq
<1>8. QED
  BY <1>3, <1>6, <1>7, RingParts DEF Cooked!Erase

\* consoleread takes the first character that is ready.
LEMMA TakeRefines ==
  ASSUME EditorInv, r # w, r' = U(r + 1), UNCHANGED <<buf, w, e>>
  PROVE  Cooked!Take
<1> DEFINE len == U(w - r)
           ready == Part(buf, r, w)
<1> USE DEF EditorInv
<1>1. buf \in Rings /\ r \in Word /\ w \in Word
  BY DEF TypeInv, Rings
<1>2. len = IF w >= r THEN w - r ELSE w - r + UINT
  BY <1>1, UDiff
<1>3. len \in Nat \ {0} /\ len < UINT
  BY <1>1, <1>2, Sizes DEF Word
<1>4. r' = IF r + 1 < UINT THEN r + 1 ELSE r + 1 - UINT
  BY <1>1, USum, Sizes
<1>5. r' \in Word
  BY <1>1, <1>4, Sizes DEF Word
<1>6. U(w - r') = len - 1
  <2>1. U(w - r') = IF w >= r' THEN w - r' ELSE w - r' + UINT
    BY <1>1, <1>5, UDiff
  <2>2. QED
    BY <1>1, <1>2, <1>4, <2>1, Sizes DEF Word
<1>7. /\ Len(ready) = len /\ ready \in Seq(Symbols)
      /\ \A k \in 1..len : ready[k] = buf[Slot(U(r + k - 1))]
  BY <1>1, PartSeq
<1>8. ready # <<>>
  BY <1>3, <1>7, EmptySeq
<1>9. /\ Tail(ready) \in Seq(Symbols) /\ Len(Tail(ready)) = len - 1
      /\ \A k \in 1..(len - 1) : Tail(ready)[k] = ready[k + 1]
  BY <1>7, <1>8, HeadTailProperties
<1>10. ASSUME NEW k \in 1..(len - 1)
       PROVE  Tail(ready)[k] = buf[Slot(U(r' + k - 1))]
  <2>1. /\ k + 1 \in 1..len /\ k - 1 \in Nat /\ 1 + (k - 1) <= UINT
        /\ r + 1 + (k - 1) = r + (k + 1) - 1 /\ r' + k - 1 = r' + (k - 1)
    <3>1. k \in Nat /\ k >= 1 /\ k <= len - 1 /\ len \in Nat /\ len < UINT
      BY <1>3
    <3>2. r \in Int /\ r' \in Int /\ UINT \in Int
      BY <1>1, <1>5, Sizes DEF Word
    <3>3. QED
      BY <3>1, <3>2
  <2>2. U(U(r + 1) + (k - 1)) = U(r + 1 + (k - 1))
    BY <1>1, <2>1, UAdd
  <2>3. QED
    BY <1>7, <1>9, <2>1, <2>2
<1>11. Part(buf, r', w) = Tail(ready)
  <2>1. Len(Tail(ready)) = U(w - r')
    BY <1>6, <1>9
  <2>2. \A k \in 1..U(w - r') : Tail(ready)[k] = buf[Slot(U(r' + k - 1))]
    BY <1>6, <1>10
  <2>3. QED
    BY <1>1, <1>5, <1>9, <2>1, <2>2, PartEqual
<1>12. QED
  BY <1>8, <1>11, RingParts DEF Cooked!Take

\* consoleintr and consoleread, with a ring of three indices that wrap around, are
\* a line editor in front of a queue: what is typed is read once, in order, in
\* whole lines or full buffers, and what is erased or killed is not read.
THEOREM ConsoleImplementsCooked == Spec => LinesInOrder
<1>1. Init => Cooked!Init
  <2> SUFFICES ASSUME Init PROVE Cooked!Init
    OBVIOUS
  <2>1. TypeInv /\ r = w /\ w = e
    BY InitInv DEF Init
  <2>2. QED
    BY <2>1, PartEmpty, RingParts DEF Cooked!Init, TypeInv, Rings
<1>2. Init => EditorInv
  <2> SUFFICES ASSUME Init PROVE LineOpen
    BY InitInv DEF EditorInv
  <2>1. U(e - w) = 0
    BY InitInv, NoLength DEF Init, TypeInv
  <2>2. QED
    BY <2>1 DEF LineOpen
<1>3. EditorInv /\ [Next]_vars =>
        [Cooked!Type \/ Cooked!HandOver \/ Cooked!Erase \/ Cooked!Kill \/ Cooked!Take]_(Cooked!vars)
  <2> SUFFICES ASSUME EditorInv, [Next]_vars
               PROVE  \/ Cooked!Type \/ Cooked!HandOver \/ Cooked!Erase \/ Cooked!Kill
                      \/ Cooked!Take \/ UNCHANGED Cooked!vars
    OBVIOUS
  <2>1. TypeInv' /\ EditorInv'
    BY EditorStep DEF EditorInv
  <2>2. ASSUME UNCHANGED input PROVE UNCHANGED Cooked!vars
    BY <2>2, RingParts DEF input, Cooked!vars
  <2>3. CASE Consoleintr
    <3>1. PICK c \in Symbols : Edit(c)
      BY <2>3, KeySymbols DEF Consoleintr
    <3>2. CASE UNCHANGED <<input, pc>>
      BY <2>2, <3>2
    <3>3. CASE e' = KillTo /\ UNCHANGED <<buf, r, w, pc>>
      <4>1. e' = w /\ w' = w /\ buf' \in Rings /\ w' \in Word
        BY <2>1, <3>3, KillToStart DEF EditorInv, TypeInv, Rings
      <4>2. Part(buf', w', e') = <<>>
        BY <4>1, PartEmpty
      <4>3. Part(buf', r', w') = Part(buf, r, w)
        BY <3>3
      <4>4. QED
        BY <4>2, <4>3, RingParts DEF Cooked!Kill
    <3>4. CASE e # w /\ e' = U(e - 1) /\ UNCHANGED <<buf, r, w, pc>>
      BY <3>4, EraseRefines
    <3>5. CASE Stores(c)
      BY <2>1, <3>5, StoreRefines
    <3>6. QED
      BY <3>1, <3>2, <3>3, <3>4, <3>5, EditCases
  <2>4. ASSUME NEW p \in Procs, ReadChar(p)
        PROVE  Cooked!Take \/ UNCHANGED Cooked!vars
    <3>1. CASE r' = r
      BY <2>2, <2>4, <3>1, ReadCharEffect DEF input
    <3>2. CASE r' = U(r + 1)
      BY <2>4, <3>2, ReadCharEffect, TakeRefines
    <3>3. QED
      BY <2>4, <3>1, <3>2, ReadCharEffect
  <2>5. QED
    BY <2>2, <2>3, <2>4, RingSteps
<1>4. QED
  BY <1>1, <1>2, <1>3, EditorStep, PTL DEF Spec, LinesInOrder, Cooked!Spec
=============================================================================
