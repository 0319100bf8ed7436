------------------------------ MODULE MCSender ------------------------------
(* Instances of Sender for TLC. *)
EXTENDS Sender

(* What happens after the first use of a reused message is undefined, and  *)
(* every property checked under this constraint speaks of what comes       *)
(* before: TLC need not go on from there.                                  *)
UntilStale == ~stale
=============================================================================
