----------------------------- MODULE WindowArith -----------------------------
(***************************************************************************)
(* The life of one send_window (src/src/tcp_proto_internal.h) under the    *)
(* two operations of send_cumulative_window_processing that change it:     *)
(* send() hands bytes out and on_ack() takes an acknowledgement in.  All   *)
(* else of the sender is left to module Sender; here the window starts     *)
(* anywhere in the sequence space and meets the end of it.                 *)
(***************************************************************************)
EXTENDS SeqWindow

CONSTANTS WinSz,       \* OUTPUT_WINDOW_SZ
          StartSeqs    \* where a handshake may put the window

ASSUME WindowAssumption ==
    /\ WinSz \in Nat \ {0} /\ WinSz < Modulo
    /\ StartSeqs \subseteq Seqs

VARIABLE win

(* force_move_start after the handshake. *)
WindowInit ==
    \E s \in StartSeqs : win = [start |-> s, off |-> 0, sent_off |-> 0, sz |-> WinSz]

(* send: a message of n bytes that fits. *)
Send(n) ==
    /\ n <= sent_sz(win)
    /\ win' = [win EXCEPT !.sent_off = @ + n]

(* on_ack of the acknowledgement of the byte at position p, which was sent. *)
OnAck(p) ==
    /\ begin(win) <= p /\ p < sent_begin(win)
    /\ contains(win, SINGLE_WINDOW(tcp_seq(p)))
    /\ LET w == set_off_from_seq(win, tcp_seq(p))
       IN  win' = IF get_sz(w) = 0 THEN next_send_window(w) ELSE w

WindowNext ==
    \/ \E n \in 1 .. WinSz : Send(n)
    \/ \E p \in win.start .. win.start + WinSz - 1 : OnAck(p)

WindowSpec == WindowInit /\ [][WindowNext]_win

(* 0 <= off <= sent_off <= sz, and a window that is used up has turned. *)
WindowTypeOK ==
    /\ win \in [start : Nat, off : 0 .. WinSz - 1, sent_off : 0 .. WinSz, sz : {WinSz}]
    /\ win.off <= win.sent_off

(* contains takes no acknowledgement from outside the window, wherever in  *)
(* the sequence space the window lies: on_ack never releases a message     *)
(* that was not acknowledged, nor moves off past the end of the window.    *)
ContainsIsSound ==
    \A s \in Seqs : contains(win, SINGLE_WINDOW(s)) =>
        \E p \in begin(win) .. end(win) - 1 : s = tcp_seq(p)

(* contains takes every acknowledgement from inside the window except, in  *)
(* a window that ends past the end of the sequence space, that of its last *)
(* byte.                                                                   *)
ContainsAllButTheEdge ==
    \A p \in begin(win) .. end(win) - 1 :
        contains(win, SINGLE_WINDOW(tcp_seq(p))) \/ (p = end(win) - 1 /\ end(win) > Modulo)

(* get_in_msg_off undoes the truncation to tcp_seq: off moves to the byte  *)
(* after the acknowledged one, across the end of the sequence space too.   *)
OffsetIsExact ==
    \A p \in begin(win) .. end(win) - 1 : get_in_msg_off(win, tcp_seq(p)) = p - begin(win)

(* A limit of the code: because of that edge no acknowledgement turns a    *)
(* window past the end of the sequence space, where send() stays, although  *)
(* the lift in contains is there to pass it.                               *)
NeverPastTheWrap == win.start <= Modulo
=============================================================================
