--------------------------- MODULE MCReassembler ----------------------------
(* Source a sends a hello, the hello of another length that a retry        *)
(* request asks for, and two rekeys under one key; b and c send a hello,   *)
(* c also one that is too long.                                            *)
EXTENDS Reassembler

CONSTANTS a, b, c

Hello(s, n) == [src |-> s, key |-> "hello", total |-> n, id |-> <<s, n>>]
Rekey(s, i) == [src |-> s, key |-> "rekey", total |-> 3, id |-> <<s, 10 + i>>]
Other(s) == [src |-> s, key |-> "hello2", total |-> 3, id |-> <<s, 20>>]

Sent == {Hello(a, 3), Hello(a, 5), Rekey(a, 1), Rekey(a, 2), Other(a),
         Hello(b, 3), Hello(c, 3), Hello(c, 6)}
Sizes == {2, 3}
=============================================================================
