------------------------------- MODULE Stream -------------------------------
(***************************************************************************)
(* What one direction of a connection promises (stream_socket.h): a byte   *)
(* stream through a buffer of bounded size.  Bytes go in at one end and    *)
(* come out at the other in the same order, each once, and never more of   *)
(* them are inside than Capacity.  Both halves of a socket implement it:   *)
(* the receive half between the acknowledgement of a byte and recv(), the  *)
(* send half between send() and the peer.                                  *)
(*                                                                         *)
(* A byte is its position, 1, 2, 3, ...  Once broken is set the stream     *)
(* promises nothing.                                                       *)
(***************************************************************************)
EXTENDS Integers, Sequences

CONSTANT Capacity

VARIABLES taken,    \* how many bytes went in
          out,      \* the bytes that came out
          broken

streamVars == <<taken, out, broken>>

Init == taken = 0 /\ out = << >> /\ broken = FALSE

Take(n) ==
    /\ taken + n - Len(out) <= Capacity
    /\ taken' = taken + n
    /\ UNCHANGED <<out, broken>>

Give(n) ==
    /\ Len(out) + n <= taken
    /\ out' = out \o [i \in 1 .. n |-> Len(out) + i]
    /\ UNCHANGED <<taken, broken>>

Break == broken' = TRUE

Next ==
    \/ Break
    \/ ~broken /\ \E n \in 1 .. Capacity : Take(n) \/ Give(n)

Spec == Init /\ [][Next]_streamVars
=============================================================================
