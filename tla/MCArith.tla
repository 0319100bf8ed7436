------------------------------ MODULE MCArith ------------------------------
(***************************************************************************)
(* The arithmetic of the engine for TLC: the send window, the retransmission *)
(* timeout and the checksum.  A behaviour is about the window or about the  *)
(* timeout; the other one stays where it is.  The checksum is taken over    *)
(* the segment the window would send next.                                  *)
(***************************************************************************)
EXTENDS WindowArith, Rto, Chsum

VARIABLE part   \* what this behaviour is about

ArithInit ==
    \/ part = "window" /\ WindowInit /\ RtoInit /\ rtt = MaxRtt
    \/ /\ part = "timeout" /\ RtoInit
       /\ win = [start |-> 0, off |-> 0, sent_off |-> 0, sz |-> WinSz]

ArithNext ==
    \/ part = "window" /\ WindowNext /\ UNCHANGED <<part, rtoVars>>
    \/ part = "timeout" /\ RtoNext /\ UNCHANGED <<part, win>>

ArithSpec == ArithInit /\ [][ArithNext]_<<part, win, rtoVars>>

(* Data that is sent is acknowledged in the end, and times a round trip.    *)
FairArithSpec ==
    ArithSpec /\ WF_<<part, win, rtoVars>>(part = "timeout" /\ Sample /\ UNCHANGED <<part, win>>)

(* The words of the next segment: its number, the window and two of data.   *)
Segment(d, e) ==
    LET seq == tcp_seq(sent_begin(win))
    IN  <<seq % Base, seq \div Base, sent_sz(win) % Base, d, e>>

(* chsum is the complement of the sum modulo 2^16 - 1: folding twice loses  *)
(* no carry.                                                               *)
ChecksumIsExact ==
    part = "window" => \A d, e \in Words :
        LET ws == Segment(d, e)
        IN  chsum(ws) \in Words /\ (chsum(ws) + WordSum(ws)) % (Base - 1) = 0

(* check_msg_corruption passes what was sent and sees every change of one    *)
(* word, the number, the window or the data, except that of 0 to 2^16 - 1    *)
(* or back, which a ones' complement sum cannot see.                        *)
CorruptionIsSeen ==
    part = "window" => \A d, e, w \in Words :
        LET ws == Segment(d, e) IN
        /\ ~check_msg_corruption(ws, chsum(ws))
        /\ \A i \in DOMAIN ws :
             w # ws[i] /\ {w, ws[i]} # {0, Base - 1} =>
                check_msg_corruption([ws EXCEPT ![i] = w], chsum(ws))

RtoSettles == part = "timeout" => TimeoutSettles
=============================================================================
