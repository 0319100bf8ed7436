--------------------------- MODULE MCHostQueues ----------------------------
(* HostQueues for TLC: a client, a server that may accept it, six packets  *)
(* in both directions, the first a SYN and the last one corrupt.           *)
EXTENDS HostQueues, TLC

CONSTANTS cli, srv, tc, ts

MCSockOf == (tc :> cli) @@ (ts :> srv)
MCDests == <<srv, cli, srv, cli, cli, srv>>
=============================================================================
