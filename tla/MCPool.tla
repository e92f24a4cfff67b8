------------------------------- MODULE MCPool -------------------------------
(* The connection pool with a few users. *)
EXTENDS Pool

CONSTANTS u1, u2, u3

ThreeUsers == {u1, u2, u3}
OneTrier == {u1}
=============================================================================
