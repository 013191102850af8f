---------------------------- MODULE MCTelemetry ----------------------------
(* Telemetry with a phone that is at the door, too far away to have come   *)
(* from there in one unit of time, or not sure where it is, and whose clock*)
(* may run ahead, by less or by more than is tolerated, for TLC.           *)
EXTENDS Telemetry, TLC

Home == [distance |-> 20, accuracy |-> 10, mock |-> FALSE, ahead |-> 0]
Away == [distance |-> 20000, accuracy |-> 30, mock |-> TRUE, ahead |-> 2]
Blurred == [distance |-> 900, accuracy |-> 300, mock |-> FALSE, ahead |-> 3]

ThreeFixes == {Home, Away, Blurred}
ThreeMoments == {0, 3, 10}
=============================================================================
