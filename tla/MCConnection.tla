---------------------------- MODULE MCConnection ----------------------------
(* Connection for TLC: three transports, one of which may be left behind.  *)
EXTENDS Connection
=============================================================================
