----------------------------- MODULE CookedInput -----------------------------
(***************************************************************************)
(* What the console promises to those who read from it: a line that is     *)
(* being edited, and the lines (or full buffers) that have been handed     *)
(* over.  A line is handed over whole, once, and only its owner, the       *)
(* keyboard, edits it before; readers take from the front of what has been *)
(* handed over.                                                            *)
(***************************************************************************)
EXTENDS Integers, Sequences

CONSTANTS Limit,       \* characters kept
          Ends         \* characters that end a line

VARIABLES ready, line
vars == <<ready, line>>

Init == ready = <<>> /\ line = <<>>
\* These relate the line before and after, so that no character is named.
Type ==
  /\ Len(ready) + Len(line) < Limit - 1 /\ ready' = ready
  /\ Len(line') = Len(line) + 1 /\ SubSeq(line', 1, Len(line)) = line
  /\ line'[Len(line')] \notin Ends
HandOver ==
  LET new == Len(ready) + Len(line) + 1 IN
  /\ line' = <<>> /\ Len(ready') = new
  /\ SubSeq(ready', 1, new - 1) = ready \o line
  /\ ready'[new] \in Ends \/ new = Limit
Erase == line # <<>> /\ line' = SubSeq(line, 1, Len(line) - 1) /\ ready' = ready
Kill == line' = <<>> /\ ready' = ready
Take == ready # <<>> /\ ready' = Tail(ready) /\ line' = line

Spec == Init /\ [][Type \/ HandOver \/ Erase \/ Kill \/ Take]_vars
=============================================================================
