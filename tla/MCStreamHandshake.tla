-------------------------- MODULE MCStreamHandshake -------------------------
(* The stream handshake between builds and configurations that differ in   *)
(* one or two respects.  "v1" and "xwing" are KEM suites, "aes" and        *)
(* "chacha" cipher suites, "K1" and "K2" static keys.                      *)
EXTENDS StreamHandshake

Psk(id, key) == [id |-> id, key |-> key]

Plain == [version |-> 1, suites |-> <<"v1", "xwing">>, kemSuite |-> "v1",
          ciphers |-> <<"aes", "chacha">>, pin |-> None, psk |-> None]

Initiators ==
    {[Plain EXCEPT !.pin = p, !.psk = k] : p \in {None, "K1"}, k \in {None, Psk("id1", "k1")}}
    \cup {[Plain EXCEPT !.suites = <<"v1">>], [Plain EXCEPT !.ciphers = <<"aes">>],
          [Plain EXCEPT !.version = 2]}

Responder0 == [version |-> 1, suites |-> <<"v1", "xwing">>, ciphers |-> <<"aes", "chacha">>,
               staticKey |-> None, requireStatic |-> FALSE,
               psk |-> None, requirePSK |-> FALSE, tickets |-> TRUE]

Auth ==
    {[Responder0 EXCEPT !.staticKey = s, !.psk = k] :
        s \in {None, "K1", "K2"}, k \in {None, Psk("id1", "k1")}}
    \cup {[Responder0 EXCEPT !.psk = k] : k \in {Psk("id1", "k2"), Psk("id2", "k1")}}

Responders ==
    Auth
    \cup {[c EXCEPT !.requireStatic = TRUE] : c \in {a \in Auth : a.staticKey # None}}
    \cup {[c EXCEPT !.requirePSK = TRUE] : c \in {a \in Auth : a.psk # None}}
    \cup {[Responder0 EXCEPT !.suites = <<"xwing">>, !.staticKey = s, !.tickets = t] :
             s \in {None, "K1"}, t \in BOOLEAN}
    \cup {[Responder0 EXCEPT !.ciphers = <<c>>] : c \in {"aes", "chacha"}}
=============================================================================
