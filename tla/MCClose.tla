------------------------------ MODULE MCClose ------------------------------
(* Close for TLC: A sends once and B reads once; A may destroy its socket  *)
(* with a close handshake, and either end may reset the connection.        *)
EXTENDS Close

MCCalls == {<<"send", A>>, <<"recv", B>>}
=============================================================================
