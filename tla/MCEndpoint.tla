----------------------------- MODULE MCEndpoint -----------------------------
(* Two receive goroutines and a source that redials.                       *)
EXTENDS Endpoint

CONSTANTS a, r1, r2

OneSource == {a}
TwoReceivers == {r1, r2}
FirstSession == {1}
=============================================================================
