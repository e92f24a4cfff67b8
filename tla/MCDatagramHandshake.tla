------------------------ MODULE MCDatagramHandshake -------------------------
(* Datagram handshakes between compatible endpoints with and without a     *)
(* HelloRetryRequest, and between endpoints that must not connect.         *)
EXTENDS DatagramHandshake

Plain == [version |-> 1, suites |-> <<"v1", "xwing">>, kemSuite |-> "v1",
          ciphers |-> <<"aes">>, pin |-> None, psk |-> None]

Listening == [version |-> 1, suites |-> <<"v1", "xwing">>, ciphers |-> <<"aes">>,
              staticKey |-> None, requireStatic |-> FALSE,
              psk |-> None, requirePSK |-> FALSE]

Key == [id |-> "id1", key |-> "k1"]

Dialers == {Plain, [Plain EXCEPT !.psk = Key], [Plain EXCEPT !.pin = "K1"],
            [Plain EXCEPT !.version = 2]}

Listeners == {Listening, [Listening EXCEPT !.suites = <<"xwing">>],
              [Listening EXCEPT !.psk = Key, !.requirePSK = TRUE],
              [Listening EXCEPT !.staticKey = "K1", !.requireStatic = TRUE]}
=============================================================================
