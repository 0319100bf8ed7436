----------------------------- MODULE MCHandshake -----------------------------
(* Handshake for TLC: the ends are model values. *)
EXTENDS Handshake, TLC
=============================================================================
