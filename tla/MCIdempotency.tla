--------------------------- MODULE MCIdempotency ---------------------------
(* Idempotency with two requests of one body and one of another, for TLC.  *)
EXTENDS Idempotency

CONSTANTS alice, bob, carol, b1, b2

ThreeClients == {alice, bob, carol}
TwoBodies == {b1, b2}
body3 == [c \in ThreeClients |-> IF c = carol THEN b2 ELSE b1]
=============================================================================
