------------------------------- MODULE Chsum -------------------------------
(***************************************************************************)
(* The checksum of a message: chsum (tcp_engine.cpp), the 16-bit ones'     *)
(* complement sum, and check_msg_corruption (newimpl.cpp), which compares. *)
(* A message is the sequence of its 16-bit words, without the checksum     *)
(* field, which is 0 while the sum is taken; an odd last byte is a word.   *)
(***************************************************************************)
EXTENDS Integers, Sequences, SequencesExt

CONSTANT Base   \* 2^16

Words == 0 .. Base - 1

\* Mutant: an odd last byte is forgotten
WordSum_DropsLast(ws) == FoldSeq(LAMBDA w, s : w + s, 0, Front(ws))

WordSum(ws) == FoldSeq(LAMBDA w, s : w + s, 0, ws)

\* The carries are added back twice, and the complement is cut to a word
fold(s) == (s \div Base) + (s % Base)

\* Mutant: the carry of the first folding is not added
chsum_FoldOnce(ws) == (Base - 1) - (fold(WordSum(ws)) % Base)

chsum(ws) ==
    LET s == fold(WordSum(ws))
    IN  (Base - 1) - ((s + s \div Base) % Base)

\* socket_sock_base::send puts the checksum in; the receiver compares
check_msg_corruption(ws, sum) == chsum(ws) # sum
=============================================================================
