----------------------------- MODULE ByteStream -----------------------------
(***************************************************************************)
(* What a pipe promises its users: a bounded first-in first-out stream of  *)
(* bytes that nobody writes to once its write end is closed.  Pipe.tla is  *)
(* shown to implement it.                                                  *)
(***************************************************************************)
EXTENDS Naturals, Sequences

CONSTANTS Bytes,      \* the values of a byte
          NoByte,     \* what the reader's buffer holds before the first read
          Capacity    \* bytes the stream can hold

VARIABLES q,          \* the bytes sent and not yet delivered, oldest first
          got,        \* the byte delivered last
          sending,    \* the write end is open
          receiving   \* the read end is open

vars == <<q, got, sending, receiving>>

Init == /\ q = <<>>
        /\ got = NoByte
        /\ sending = TRUE
        /\ receiving = TRUE

Send(b) == /\ sending
           /\ Len(q) < Capacity
           /\ q' = Append(q, b)
           /\ UNCHANGED <<got, sending, receiving>>

Deliver == /\ receiving
           /\ q # <<>>
           /\ got' = Head(q)
           /\ q' = Tail(q)
           /\ UNCHANGED <<sending, receiving>>

CloseSend == /\ sending
             /\ sending' = FALSE
             /\ UNCHANGED <<q, got, receiving>>

CloseReceive == /\ receiving
                /\ receiving' = FALSE
                /\ UNCHANGED <<q, got, sending>>

Next == \/ \E b \in Bytes : Send(b)
        \/ Deliver
        \/ CloseSend
        \/ CloseReceive

Spec == Init /\ [][Next]_vars
=============================================================================
