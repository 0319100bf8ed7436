-------------------------------- MODULE Rto --------------------------------
(***************************************************************************)
(* The retransmission timeout: timeout_computing (tcp_proto_output.h) and  *)
(* the samples output_refresh_on_msg_pair gives it.  The averages are of   *)
(* type size_t and the doubles in between are cut off when stored.  A      *)
(* sample is the time between two readings of the system clock, which may  *)
(* be set back: it is signed and is converted to size_t.                   *)
(***************************************************************************)
EXTENDS Integers

CONSTANTS Rtts,       \* round-trip times of the path, in milliseconds
          MaxRtt,     \* the largest of them
          Gkof,       \* 300 in the code
          SizeMod,    \* 2^64: size_t is reduced modulo this
          MaxChanges, \* bound: changes of the round-trip time
          MaxBack     \* bound: samples taken across a clock set back

K == 4

ASSUME RtoAssumption ==
    /\ MaxRtt \in Nat /\ Rtts \subseteq 0 .. MaxRtt
    /\ Gkof \in Nat /\ Gkof >= 28
    /\ SizeMod \in Nat /\ SizeMod > 2 * (K + 1) * MaxRtt + 2 * Gkof
    /\ MaxChanges \in Nat /\ MaxBack \in Nat

VARIABLES SRTT, RTTVAR, \* OUTPUT_TIMEOUT_COMPUTING area
          clean,        \* nm = 0
          rtt, changes, \* the path
          last,         \* history: the last sample
          back          \* history: samples across a clock set back

rtoVars == <<SRTT, RTTVAR, clean, rtt, changes, last, back>>

RtoInit ==
    /\ SRTT = 0 /\ RTTVAR = 0 /\ clean = TRUE
    /\ rtt \in Rtts /\ changes = 0 /\ last = 0 /\ back = 0

\* (ssize_t)x, and the conversion of a sample to size_t
ssize(x) == IF 2 * x >= SizeMod THEN x - SizeMod ELSE x
size(R) == R % SizeMod

Abs(x) == IF x < 0 THEN -x ELSE x

\* __noclean_compute with alpha = 1/8, beta = 1/4; RTTVAR comes first
smoothed_var(r) == (3 * RTTVAR + Abs(ssize(SRTT) - ssize(r))) \div 4
smoothed_rtt(r) == (7 * SRTT + r) \div 8

\* Mutant: SRTT is updated before RTTVAR
refresh_Swapped(R) ==
    /\ SRTT' = IF clean THEN size(R) ELSE smoothed_rtt(size(R))
    /\ RTTVAR' = IF clean THEN size(R) \div 2
                 ELSE (3 * RTTVAR + Abs(ssize(SRTT') - ssize(size(R)))) \div 4
    /\ clean' = FALSE
    /\ last' = R

\* Mutant: the number of measurements is not counted
refresh_StaysClean(R) ==
    /\ SRTT' = size(R) /\ RTTVAR' = size(R) \div 2
    /\ clean' = clean
    /\ last' = R

\* refresh and __compute_timeout
refresh(R) ==
    /\ IF clean
       THEN SRTT' = size(R) /\ RTTVAR' = size(R) \div 2
       ELSE RTTVAR' = smoothed_var(size(R)) /\ SRTT' = smoothed_rtt(size(R))
    /\ clean' = FALSE
    /\ last' = R

\* The acknowledgement of a message, timed
Sample ==
    /\ refresh(rtt)
    /\ UNCHANGED <<rtt, changes, back>>

\* The same, with the clock set back by more than the round-trip time
SampleBack ==
    /\ back < MaxBack /\ back' = back + 1
    /\ refresh(-1)
    /\ UNCHANGED <<rtt, changes>>

PathChanges ==
    /\ changes < MaxChanges /\ changes' = changes + 1
    /\ rtt' \in Rtts \ {rtt}
    /\ UNCHANGED <<SRTT, RTTVAR, clean, last, back>>

RtoNext == Sample \/ SampleBack \/ PathChanges

RtoSpec == RtoInit /\ [][RtoNext]_rtoVars

Larger(x, y) == IF x < y THEN y ELSE x

\* __get_rto
get_rto == (SRTT + Larger(Gkof, (K * RTTVAR) % SizeMod)) % SizeMod

----------------------------------------------------------------------------
(* Properties.                                                             *)

(* Whatever the order of the samples, the averages stay within them and no  *)
(* sum of __get_rto overflows, unless a clock was set back.                 *)
RtoBounds ==
    back = 0 => /\ SRTT \in 0 .. MaxRtt /\ RTTVAR \in 0 .. MaxRtt
                /\ get_rto >= SRTT + Gkof
                /\ get_rto <= MaxRtt + Larger(Gkof, K * MaxRtt)

(* The timeout covers the round trip just measured, however sudden the      *)
(* change: a path that stays as it is causes no retransmission that is not   *)
(* needed.  The cut-off halves and quarters are made up for by Gkof.         *)
TimeoutCoversSample == back = 0 /\ ~clean => get_rto >= last

(* When the path keeps its round-trip time the timeout settles close to it,  *)
(* whatever it was before, even after a sample that was cut to a huge        *)
(* number because a clock was set back.                                    *)
TimeoutSettles == <>[](get_rto \in rtt + Gkof - 7 .. rtt + Gkof)
=============================================================================
