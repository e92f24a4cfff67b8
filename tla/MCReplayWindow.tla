--------------------------- MODULE MCReplayWindow ---------------------------
(* Two words of three bits, so that shifts stay inside a word, cross a word *)
(* boundary and clear the window; sequence numbers reach beyond it.         *)
EXTENDS ReplayWindow, TLC

CONSTANTS g1, g2

MCGoroutines == {g1, g2}
MCSeqs == 0 .. 9
MCSymmetry == Permutations(MCGoroutines)
=============================================================================
