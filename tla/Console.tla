------------------------------- MODULE Console -------------------------------
(***************************************************************************)
(* Console input and the clock: the keyboard and the serial port interrupt *)
(* (kbd.c, uart.c, trap.c), consoleintr edits a line in a ring of three    *)
(* unsigned indices, processes read from it (console.c) or sleep for some  *)
(* ticks (sysproc.c), and are killed at any moment (proc.c, trap.c).       *)
(*                                                                         *)
(* A turn of consoleintr and what happens under tickslock are one step;    *)
(* consoleread holds input.lock from step to step.  Scheduling is in Proc, *)
(* and sleep() giving up the lock as it falls asleep is in Sleep.          *)
(***************************************************************************)
EXTENDS Integers, Sequences

CONSTANTS Procs,
          Programs,    \* [Procs -> sets of system calls, "read" and "sleep"]: what may run
          UINT,        \* unsigned integers are modulo UINT
          INPUT_BUF,   \* size of the ring
          Counts,      \* sizes given to read, not 0: that returns at once
          Naps,        \* arguments of sleep, signed
          Codes,       \* scan codes: [key, up], "e0" for the prefix
          Chars        \* characters from the serial port

ASSUME ConsoleAssumption ==
  /\ UINT \in Nat /\ INPUT_BUF \in 1..UINT-1 /\ UINT % INPUT_BUF = 0
  /\ Counts \subseteq Nat \ {0} /\ Naps \subseteq {k \in Int : k < UINT}

None == "none"                 \* character 0

VARIABLES buf, r, w, e,        \* struct input
          lock,                \* its lock: "free", or the process that holds it
          shift,               \* kbdgetc's shift: subset of {"E0ESC", "CTL"}
          ticks,
          pc, n, got, ticks0,  \* processes: where, count or ticks left, characters read
          killed,
          since,               \* ghost: ticks since sys_sleep began, up to UINT
          calls                \* the system calls that each process makes
input == <<buf, r, w, e>>
devices == <<shift, calls>>
sleepers == <<ticks0, since, ticks>>
vars == <<buf, r, w, e, lock, shift, ticks, pc, n, got, ticks0, killed, since, calls>>

U(x) == x % UINT
Init ==
  /\ buf = [k \in 0..INPUT_BUF-1 |-> None] /\ r = 0 /\ w = 0 /\ e = 0
  /\ lock = "free"
  /\ shift = {}
  /\ ticks = 0
  /\ pc = [p \in Procs |-> "user"] /\ n = [p \in Procs |-> 0] /\ got = [p \in Procs |-> 0]
  /\ ticks0 = [p \in Procs |-> 0] /\ since = [p \in Procs |-> 0]
  /\ killed = [p \in Procs |-> FALSE] /\ calls \in Programs

-----------------------------------------------------------------------------
(* Interrupts *)

WokenOne(chan, next) ==            \* mutant: wakeup picks one sleeper
  LET S == {p \in Procs : pc[p] = chan} IN
  IF S = {} THEN pc ELSE [pc EXCEPT ![CHOOSE p \in S : TRUE] = next]
Woken(chan, next) == [p \in Procs |-> IF pc[p] = chan THEN next ELSE pc[p]]

\* kbdgetc: the new shift, and the character.
Shift(c) ==
  IF c.key = "e0" THEN shift \cup {"E0ESC"}
  ELSE IF c.up THEN shift \ (IF c.key = "ctl" THEN {"CTL", "E0ESC"} ELSE {"E0ESC"})
  ELSE (shift \ {"E0ESC"}) \cup (IF c.key = "ctl" THEN {"CTL"} ELSE {})
Charcode(c) ==
  IF c.key \in {"e0", "ctl"} \/ c.up THEN None
  ELSE IF c.key = "enter" THEN "nl"
  ELSE IF "E0ESC" \in shift THEN None
  ELSE IF "CTL" \in shift THEN (CASE c.key = "d" -> "eot" [] c.key = "u" -> "kill" [] OTHER -> None)
  ELSE "x"

Last(k) == buf[U(k - 1) % INPUT_BUF]
\* The index where C('U') stops.
KillToLine ==                      \* mutant: it does not stop at w
  LET stops == {k \in 0..U(e - r) : k = U(e - r) \/ Last(e - k) = "nl"} IN
  U(e - (CHOOSE k \in stops : \A j \in stops : k <= j))
KillTo ==
  LET len == U(e - w)
      stops == {k \in 0..len : k = len \/ Last(e - k) = "nl"} IN
  U(e - (CHOOSE k \in stops : \A j \in stops : k <= j))
EditUntilLine(c) ==               \* mutant: a full buffer is not handed over
  \/ c = None /\ UNCHANGED <<input, pc>>
  \/ c = "kill" /\ e' = KillTo /\ UNCHANGED <<buf, r, w, pc>>
  \/ c = "bs" /\ e' = (IF e # w THEN U(e - 1) ELSE e) /\ UNCHANGED <<buf, r, w, pc>>
  \/ /\ c \notin {None, "kill", "bs"} /\ U(e - r) < INPUT_BUF
     /\ buf' = [buf EXCEPT ![e % INPUT_BUF] = c]
     /\ e' = U(e + 1) /\ r' = r
     /\ IF c \in {"nl", "eot"} THEN w' = e' /\ pc' = Woken("rsleep", "read") ELSE w' = w /\ pc' = pc
\* One turn of the loop of consoleintr with character c.
Edit(c) ==
  \/ c = None /\ UNCHANGED <<input, pc>>
  \/ c = "kill" /\ e' = KillTo /\ UNCHANGED <<buf, r, w, pc>>
  \/ c = "bs" /\ e' = (IF e # w THEN U(e - 1) ELSE e) /\ UNCHANGED <<buf, r, w, pc>>
  \/ /\ c \notin {None, "kill", "bs"} /\ U(e - r) < INPUT_BUF
     /\ buf' = [buf EXCEPT ![e % INPUT_BUF] = c]
     /\ e' = U(e + 1)
     /\ IF c \in {"nl", "eot"} \/ e' = U(r + INPUT_BUF)
        THEN w' = e' /\ pc' = Woken("rsleep", "read")
        ELSE w' = w /\ pc' = pc
     /\ r' = r
  \/ c \notin {None, "kill", "bs"} /\ U(e - r) >= INPUT_BUF /\ UNCHANGED <<input, pc>>
\* trap calls kbdintr or uartintr, which calls consoleintr: input.lock is free, and
\* a byte has come.  A handler that takes several is as many steps.  Bytes that
\* nobody will ever read are left out.
Consoleintr ==
  /\ lock = "free" /\ \E p \in Procs : "read" \in calls[p]
  /\ \E x \in {<<c, shift>> : c \in Chars} \cup {<<Charcode(c), Shift(c)>> : c \in Codes} :
       Edit(x[1]) /\ shift' = x[2]
  /\ UNCHANGED <<lock, calls, sleepers, n, got, killed>>

\* The timer of cpu 0: ticks++ and wakeup(&ticks).  Ticks that nobody will ever
\* look at are left out.
Tick ==
  /\ \E p \in Procs : "sleep" \in calls[p]
  /\ ticks' = U(ticks + 1)
  /\ pc' = Woken("tsleep", "ticking")
  /\ since' = [p \in Procs |->
       IF pc[p] \in {"ticking", "tsleep"} /\ since[p] < UINT
       THEN since[p] + 1 ELSE since[p]]
  /\ UNCHANGED <<input, lock, devices, n, got, ticks0, killed>>

-----------------------------------------------------------------------------
(* Processes *)

\* trap: a killed process exits before and after a system call, and at any
\* interrupt that finds it in user space; a fault there kills it.
Goto(p, where) == pc' = [pc EXCEPT ![p] = where]
Return(p) ==                   \* the locals of the call are gone
  /\ Goto(p, IF killed[p] THEN "dead" ELSE "user")
  /\ n' = [n EXCEPT ![p] = 0] /\ got' = [got EXCEPT ![p] = 0]
UserTrap(p) ==
  /\ pc[p] = "user" /\ killed[p] /\ Goto(p, "dead")
  /\ UNCHANGED <<input, lock, devices, sleepers, n, got, killed>>
Fault(p) ==
  /\ pc[p] = "user" /\ ~killed[p]
  /\ killed' = [killed EXCEPT ![p] = TRUE] /\ Goto(p, "dead")
  /\ UNCHANGED <<input, lock, devices, sleepers, n, got>>
\* kill(): a sleeping process is made runnable.
KillQuiet(p) ==                    \* mutant: a sleeping process sleeps on
  /\ pc[p] # "dead" /\ ~killed[p]
  /\ killed' = [killed EXCEPT ![p] = TRUE]
  /\ UNCHANGED <<input, lock, devices, sleepers, pc, n, got>>
Kill(p) ==
  /\ pc[p] # "dead" /\ ~killed[p]
  /\ killed' = [killed EXCEPT ![p] = TRUE]
  /\ Goto(p, CASE pc[p] = "rsleep" -> "read" [] pc[p] = "tsleep" -> "ticking" [] OTHER -> pc[p])
  /\ UNCHANGED <<input, lock, devices, sleepers, n, got>>

Read(p) ==
  /\ pc[p] = "user" /\ ~killed[p] /\ "read" \in calls[p]
  /\ \E k \in Counts : n' = [n EXCEPT ![p] = k]
  /\ Goto(p, "read")
  /\ UNCHANGED <<input, lock, devices, sleepers, got, killed>>
\* acquire(&input.lock), at the start of consoleread or in sleep().
ReadLock(p) ==
  /\ pc[p] = "read" /\ lock = "free"
  /\ lock' = p /\ Goto(p, "reading")
  /\ UNCHANGED <<input, devices, sleepers, n, got, killed>>
ReadChar(p) ==
  LET c == buf[r % INPUT_BUF] IN
  /\ pc[p] = "reading" /\ r # w
  /\ r' = IF c = "eot" /\ got[p] > 0 THEN r ELSE U(r + 1)      \* save ^D for next time
  /\ IF c \in {"eot", "nl"} \/ n[p] = 1
     THEN lock' = "free" /\ Return(p)
     ELSE /\ n' = [n EXCEPT ![p] = @ - 1] /\ got' = [got EXCEPT ![p] = @ + 1]
          /\ UNCHANGED <<lock, pc>>
  /\ UNCHANGED <<buf, w, e, devices, sleepers, killed>>
ReadEmpty(p) ==
  /\ pc[p] = "reading" /\ r = w
  /\ lock' = "free"
  /\ IF killed[p] THEN Return(p) ELSE Goto(p, "rsleep") /\ UNCHANGED <<n, got>>
  /\ UNCHANGED <<input, devices, sleepers, killed>>

Sleep(p) ==
  /\ pc[p] = "user" /\ ~killed[p] /\ "sleep" \in calls[p]
  /\ \E k \in Naps : n' = [n EXCEPT ![p] = k]
  /\ ticks0' = [ticks0 EXCEPT ![p] = ticks] /\ since' = [since EXCEPT ![p] = 0]
  /\ Goto(p, "ticking")
  /\ UNCHANGED <<input, lock, devices, ticks, got, killed>>
\* The loop of sys_sleep: ticks - ticks0 < n compares as unsigned.
StillAsleepSum(p) == ticks < U(ticks0[p] + n[p])         \* mutant
StillAsleep(p) == U(ticks - ticks0[p]) < U(n[p])
SleepLoop(p) ==
  /\ pc[p] = "ticking"
  /\ IF ~StillAsleep(p) \/ killed[p]
     THEN /\ Return(p)
          /\ ticks0' = [ticks0 EXCEPT ![p] = 0] /\ since' = [since EXCEPT ![p] = 0]
     ELSE Goto(p, "tsleep") /\ UNCHANGED <<n, got, ticks0, since>>
  /\ UNCHANGED <<input, lock, devices, ticks, killed>>

Proc(p) ==
  \/ UserTrap(p) \/ ReadLock(p) \/ ReadChar(p) \/ ReadEmpty(p) \/ SleepLoop(p)
Next ==
  \/ Consoleintr \/ Tick
  \/ \E p \in Procs :
       \/ UserTrap(p) \/ Fault(p) \/ Kill(p) \/ Read(p) \/ ReadLock(p) \/ ReadChar(p)
       \/ ReadEmpty(p) \/ Sleep(p) \/ SleepLoop(p)

\* Processes that can run do (Proc), and the clock ticks.
\* A process that spins on input.lock gets it if it is free again and again: keys
\* come far more slowly than it spins.  Keys, kills and calls may never come.
Fairness ==
  /\ \A p \in Procs : WF_vars(Proc(p)) /\ SF_vars(ReadLock(p))
  /\ WF_vars(Tick)
Spec == Init /\ [][Next]_vars /\ Fairness

-----------------------------------------------------------------------------
(* Properties *)

\* The unsigned indices, which wrap around, keep r, w, e in this order and at
\* most INPUT_BUF apart, although consoleread moves r back to save a ^D and
\* consoleintr moves e back to w; and a buffer that is full has been handed over,
\* or every later character would be dropped while the readers sleep.
RingOrdered ==
  /\ U(w - r) <= U(e - r) /\ U(e - r) <= INPUT_BUF
  /\ U(e - r) = INPUT_BUF => w = e

\* No reader sleeps while there is input for it, nor anyone in sys_sleep beyond
\* its time: wakeup in consoleintr and in trap comes with every change that ends
\* their waiting, also when several wait and one leaves a ^D to the next.
SleepersHaveReason ==
  \A p \in Procs :
    /\ pc[p] = "rsleep" => r = w
    /\ pc[p] = "tsleep" => StillAsleep(p) /\ ~killed[p]

\* sys_sleep(n) that is not interrupted lasts n ticks, or more: the difference of
\* the unsigned counters is right across a wraparound.
SleptEnough ==
  [][\A p \in Procs : pc[p] = "ticking" /\ pc'[p] = "user" /\ n[p] >= 0 => since[p] >= n[p]]_vars

\* consoleintr and consoleread together are a line editor in front of a queue.
Ring(a, b) == [k \in 1..U(b - a) |-> buf[U(a + k - 1) % INPUT_BUF]]
Cooked == INSTANCE CookedInput WITH Limit <- INPUT_BUF, Ends <- {"nl", "eot"},
                                    ready <- Ring(r, w), line <- Ring(w, e)
LinesInOrder == Cooked!Spec

\* A process that is killed exits, wherever it is: in user space, waiting for
\* input that never comes, or in the middle of a long sleep.
KilledExits == \A p \in Procs : killed[p] ~> pc[p] = "dead"
=============================================================================
