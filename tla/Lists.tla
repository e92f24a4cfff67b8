------------------------------- MODULE Lists --------------------------------
(***************************************************************************)
(* How the pool's code takes elements out of its slices.  Defined without  *)
(* recursion and without SequencesExt, so that the proof system can reason *)
(* about them.                                                             *)
(***************************************************************************)
EXTENDS Sequences, FiniteSets, FiniteSetsExt

\* A list without the first e in it (removeConnLocked, removeWaiter).
RemoveFirst(s, e) ==
    LET at == {i \in 1 .. Len(s) : s[i] = e} IN
    IF at = {} THEN s ELSE SubSeq(s, 1, Min(at) - 1) \o SubSeq(s, Min(at) + 1, Len(s))

\* The elements of s at the positions of keep, in their order.
ElementsAt(s, keep) ==
    [n \in 1 .. Cardinality(keep) |->
        s[CHOOSE i \in keep : Cardinality({j \in keep : j <= i}) = n]]
=============================================================================
