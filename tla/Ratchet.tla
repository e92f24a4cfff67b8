------------------------------ MODULE Ratchet -------------------------------
(***************************************************************************)
(* What a rekey promises on either transport: there is one chain of        *)
(* secrets, it is extended only when both peers hold all of it, and each   *)
(* peer moves along it one secret at a time.  The peers therefore hold the *)
(* same secret, or one of them is a single step behind on the same chain.  *)
(***************************************************************************)
EXTENDS Naturals, Sequences

CONSTANT Peers

VARIABLES chain,   \* every secret ratcheted so far
          secret   \* the part of the chain each peer has adopted

vars == <<chain, secret>>

Init == chain = <<0>> /\ secret = [p \in Peers |-> chain]

\* A fresh KEM secret is added; the peer that generates it may adopt it at once.
Extend ==
    /\ \A p \in Peers : secret[p] = chain
    /\ Len(chain') = Len(chain) + 1
    /\ SubSeq(chain', 1, Len(chain)) = chain
    /\ \/ UNCHANGED secret
       \/ \E p \in Peers : secret' = [secret EXCEPT ![p] = chain']

Adopt(p) ==
    /\ Len(secret[p]) < Len(chain)
    /\ secret' = [secret EXCEPT ![p] = SubSeq(chain, 1, Len(secret[p]) + 1)]
    /\ UNCHANGED chain

Next == Extend \/ \E p \in Peers : Adopt(p)

Spec == Init /\ [][Next]_vars
=============================================================================
