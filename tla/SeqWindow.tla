------------------------------ MODULE SeqWindow ------------------------------
(***************************************************************************)
(* The window arithmetic of src/src/tcp_proto_internal.h: receiver_window  *)
(* and its subclass send_window.                                           *)
(*                                                                         *)
(* A window is a record: start and off place it in the sequence space, sz  *)
(* is its size, and sent_off (send_window only) is the end of what was     *)
(* handed to the network.  start, off and sz are 64-bit in the code and    *)
(* are never reduced: only the 32-bit fields of a segment are.  So start,  *)
(* begin and end are plain naturals here and tcp_seq is the truncation.    *)
(***************************************************************************)
EXTENDS Integers

CONSTANT Modulo        \* receiver_window::modulo, 2^32 in the code

ASSUME ModuloAssumption == Modulo \in Nat \ {0}

(* The values of a tcp_seq (uint32_t), and the cast to it. *)
Seqs == 0 .. Modulo - 1

tcp_seq(n) == n % Modulo

receiver_window(start, sz) == [start |-> start, off |-> 0, sz |-> sz]

SINGLE_WINDOW(start) == receiver_window(start, 1)

begin(w) == w.start + w.off

end(w) == w.start + w.sz

before_begin(w) == IF begin(w) = 0 THEN Modulo - 1 ELSE begin(w) - 1

get_sz(w) == w.sz - w.off

inc(w, n) == [w EXCEPT !.off = @ + n]

next_window(w) == [start |-> w.start + w.sz, off |-> 0, sz |-> w.sz]

(* Mutant: the lower edge is not compared. *)
contains_NoLowerEdge(w, v) == end(w) >= end(v)

(* Mutant: the upper edge is excluded. *)
contains_OpenEnd(w, v) == begin(w) <= begin(v) /\ end(w) > end(v)

(* Does window w hold the whole of window v?  The code lifts v by one lap  *)
(* when w itself runs past the end of the sequence space.                  *)
contains(w, v) ==
    LET lifted   == /\ tcp_seq(end(w)) < begin(w)
                    /\ end(v) < tcp_seq(end(w))
        startWin == IF lifted /\ tcp_seq(end(v)) > begin(v)
                      THEN begin(v) + Modulo ELSE begin(v)
        endWin   == IF lifted THEN end(v) + Modulo ELSE end(v)
    IN  begin(w) <= startWin /\ end(w) >= endWin

-----------------------------------------------------------------------------
(* send_window *)

(* Mutant: the byte after the next one to be sent. *)
sent_begin_NextByte(w) == w.start + w.sent_off + 1

sent_begin(w) == w.start + w.sent_off

sent_sz(w) == w.sz - w.sent_off

(* Mutant: the lap is forgotten. *)
get_in_msg_off_NoLap(w, seq) ==
    LET startModulo == tcp_seq(begin(w))
    IN  IF startModulo <= seq THEN seq - startModulo ELSE startModulo - seq

(* Distance of a sequence number from the first unacknowledged byte. *)
get_in_msg_off(w, seq) ==
    LET startModulo == tcp_seq(begin(w))
    IN  IF startModulo <= seq THEN seq - startModulo
                              ELSE Modulo - startModulo + seq

(* Mutant: one byte more than was acknowledged. *)
set_off_from_seq_OneMore(w, seq) == inc(w, get_in_msg_off(w, seq) + 2)

set_off_from_seq(w, seq) == inc(w, get_in_msg_off(w, seq) + 1)

next_send_window(w) ==
    [w EXCEPT !.start = w.start + w.sz, !.off = 0, !.sent_off = 0]
=============================================================================
