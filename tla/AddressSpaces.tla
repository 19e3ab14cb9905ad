--------------------------- MODULE AddressSpaces ----------------------------
(***************************************************************************)
(* What processes are promised of their memory: each has an image of its   *)
(* own, which only its own calls and stores change.                        *)
(***************************************************************************)
CONSTANTS Procs, None,   \* processes, and the image of an unused slot
          Zero, Values,  \* contents of a fresh page, and what a store leaves
          Images         \* what the programs put into memory: page -> contents

VARIABLE img             \* process -> page number -> contents

Agree(f, g) == \A n \in DOMAIN f \cap DOMAIN g : f[n] = g[n]

\* A store into one page, or what a system call stores into a buffer.
Store(old, new) ==
  /\ DOMAIN new = DOMAIN old
  /\ \E v \in Values : \A n \in DOMAIN old : new[n] \in {old[n], v}
\* sbrk: pages of zeros appear, or pages go away.
Grow(old, new) ==
  /\ DOMAIN old \subseteq DOMAIN new /\ Agree(old, new)
  /\ \A n \in DOMAIN new \ DOMAIN old : new[n] = Zero
Shrink(old, new) == DOMAIN new \subseteq DOMAIN old /\ Agree(old, new)
\* A program's image; pages are missing only if memory ran out.
Exec(new) == \E i \in Images : DOMAIN new \subseteq DOMAIN i /\ Agree(new, i)
\* A child has the same memory as its parent, but not the parent's memory.
Fork(new) == \E q \in Procs : img[q] # None /\ new = img[q]

Init == img = [p \in Procs |-> None]
\* The first process starts with a program, every other one as a copy.
Born(new) == IF \A q \in Procs : img[q] = None THEN new \in Images ELSE Fork(new)
Next ==
  \E p \in Procs : LET old == img[p]
                       new == img'[p] IN
    /\ \A q \in Procs \ {p} : img'[q] = img[q]
    /\ IF old = None THEN Born(new)
       ELSE Store(old, new) \/ Grow(old, new) \/ Shrink(old, new) \/ Exec(new) \/ new = None
Spec == Init /\ [][Next]_img
=============================================================================
