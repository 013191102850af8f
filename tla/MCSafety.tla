------------------------------ MODULE MCSafety ------------------------------
(* Safety with both participants, two evaluations at a time and a visit    *)
(* that is calm or in danger, for TLC.                                     *)
EXTENDS Safety, TLC

CONSTANTS provider, customer, e1, e2

BothParticipants == {provider, customer}
TwoEvaluators == {e1, e2}
OneEvaluator == {e1}

Late == [family |-> "ARRIVAL", severity |-> "WARNING"]
Silent == [family |-> "TELEMETRY", severity |-> "WARNING"]
Calm == [findings |-> {}, anomaly |-> NoAnomaly]
Danger == [findings |-> {Late, Silent}, anomaly |-> NoAnomaly]

ThreeLevels == {"NORMAL", "HIGH_RISK", "EMERGENCY"}
TwoSituations == {Calm, Danger}
=============================================================================
