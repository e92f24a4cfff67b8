------------------------------ MODULE Tickets -------------------------------
(***************************************************************************)
(* Session tickets and the manager that encrypts them                      *)
(* (pkg/tunnel/ticket.go), as operators on a manager record:               *)
(*   current, previous   numbers of the encryption keys (None: no key yet) *)
(*   horizon             tickets created up to this time have expired      *)
(* A ticket is what its ciphertext holds and the key it is encrypted with. *)
(* The manager that gets a ticket back is the one that made it, so the     *)
(* ticket's cipher suite is one the manager's build approves.              *)
(***************************************************************************)
EXTENDS Integers

CONSTANT None

NewTicketManager == [current |-> 1, previous |-> None, horizon |-> 0]

(* As if the demoted key were dropped at once. *)
RotateDropsKey(tm) == [tm EXCEPT !.current = @ + 1]

RotateKey(tm) == [tm EXCEPT !.previous = tm.current, !.current = @ + 1]

EncryptTicket(tm, secret, created) ==
    [key |-> tm.current, secret |-> secret, created |-> created]

DecryptTicket(tm, t) ==
    /\ t.key = tm.current \/ (tm.previous # None /\ t.key = tm.previous)
    /\ t.created > tm.horizon
=============================================================================
