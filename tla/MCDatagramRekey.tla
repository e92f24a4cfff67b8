-------------------------- MODULE MCDatagramRekey ---------------------------
(* The datagram session on small instances. *)
EXTENDS DatagramRekey

CONSTANTS I, R

Nobody == {}
OnlyI == {I}
OnlyR == {R}
=============================================================================
