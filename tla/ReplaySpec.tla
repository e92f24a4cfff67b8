----------------------------- MODULE ReplaySpec -----------------------------
(***************************************************************************)
(* What a sliding replay filter promises, independently of how it stores   *)
(* its window: a sequence number is accepted exactly when it was never     *)
(* accepted before and is less than Size behind the highest accepted one.  *)
(***************************************************************************)
EXTENDS Naturals

CONSTANTS Seqs,    \* the sequence numbers a peer may present
          Size     \* the window width

VARIABLES accepted,   \* every sequence number accepted so far
          verdict     \* the last call and its answer

vars == <<accepted, verdict>>

Fresh(s) == /\ s \notin accepted
            /\ \A a \in accepted : a < s + Size

Init == accepted = {} /\ verdict = [seq |-> 0, ok |-> FALSE]

\* One call of the filter: the answer is determined by the history.
Call(s) == /\ verdict' = [seq |-> s, ok |-> Fresh(s)]
           /\ accepted' = IF Fresh(s) THEN accepted \cup {s} ELSE accepted

Next == \E s \in Seqs : Call(s)

Spec == Init /\ [][Next]_vars
=============================================================================
