-------------------------- MODULE MCEventDelivery --------------------------
(* EventDelivery with two of everything, for TLC.                          *)
EXTENDS EventDelivery, TLC

CONSTANTS pub1, pub2, h1, h2, m1

TwoPublishers == {pub1, pub2}
TwoHandlers == {h1, h2}
OneCopy == {m1}
=============================================================================
