--------------------------- MODULE MCStreamTunnel ---------------------------
(* Small instances of an established stream tunnel. *)
EXTENDS StreamTunnel, TLC

CONSTANTS s1, s2, r1

TwoSenders == {s1, s2}
OneSender  == {s1}
OnePeerSender == {r1}
NoSenders  == {}
NoClosers  == {}
BothClose  == Peers
ResponderCloses == {Responder}

MCSymmetry == Permutations(InitiatorSenders)
=============================================================================
