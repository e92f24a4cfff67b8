----------------------------- MODULE MCListener -----------------------------
(* Three connections, two of them from one address.                        *)
EXTENDS Listener

CONSTANTS c1, c2, c3, a1, a2

Three == {c1, c2, c3}
Addresses == {"x", "y"}
Address == [c \in Three |-> IF c = c3 THEN "y" ELSE "x"]
TwoCallers == {a1, a2}
=============================================================================
