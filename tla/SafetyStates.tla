---------------------------- MODULE SafetyStates ----------------------------
(***************************************************************************)
(* The tables of the safety module: the life of a session, what a booking  *)
(* status asks of it, the four risk levels, and how rule findings, the     *)
(* anomaly score and a panic make one level.  Pure definitions.            *)
(***************************************************************************)
EXTENDS Naturals, FiniteSets

SAFETY_SESSION_STATUSES ==
  {"NOT_STARTED", "PRE_SERVICE", "ARRIVAL_MONITORING", "ACTIVE", "CLOSED"}

acceptsTelemetry(status) == status \in {"ARRIVAL_MONITORING", "ACTIVE"}

(* The ladder that a session climbs; CLOSED is off it.                     *)
Rung(status) == CASE status = "NOT_STARTED"        -> 0
                  [] status = "PRE_SERVICE"        -> 1
                  [] status = "ARRIVAL_MONITORING" -> 2
                  [] status = "ACTIVE"             -> 3

isAllowedSafetyTransition(from, to) ==
  <<from, to>> \in {<<"NOT_STARTED", "PRE_SERVICE">>,
                    <<"PRE_SERVICE", "ARRIVAL_MONITORING">>,
                    <<"ARRIVAL_MONITORING", "ACTIVE">>,
                    <<"PRE_SERVICE", "CLOSED">>,
                    <<"ARRIVAL_MONITORING", "CLOSED">>,
                    <<"ACTIVE", "CLOSED">>}

(* Is there a way forward to the status?  The steps in between are taken   *)
(* in the same transaction, so the session ends at the target.             *)
forwardPath(from, to) ==
  \/ from = to
  \/ to = "CLOSED" /\ isAllowedSafetyTransition(from, "CLOSED")
  \/ from # "CLOSED" /\ to # "CLOSED" /\ Rung(from) < Rung(to)

(* The status a booking status asks of the session, and why it is closed;  *)
(* "NONE" where it asks nothing.                                           *)
safetyEffectForBooking(status) ==
  CASE status = "SCHEDULED"                   -> [target |-> "PRE_SERVICE", reason |-> "NONE"]
    [] status = "PROVIDER_ARRIVING"           -> [target |-> "ARRIVAL_MONITORING", reason |-> "NONE"]
    [] status \in {"CHECKED_IN", "IN_PROGRESS"} -> [target |-> "ACTIVE", reason |-> "NONE"]
    [] status \in {"CHECKED_OUT", "CUSTOMER_CONFIRMED", "COMPLETED", "SETTLED"}
         -> [target |-> "CLOSED", reason |-> "SERVICE_COMPLETED"]
    [] status = "CANCELLED"                   -> [target |-> "CLOSED", reason |-> "BOOKING_CANCELLED"]
    [] status = "DISPUTED"                    -> [target |-> "CLOSED", reason |-> "OPERATOR_CLOSED"]
    [] OTHER                                  -> [target |-> "NONE", reason |-> "NONE"]

SAFETY_CLOSURE_REASONS ==
  {"SERVICE_COMPLETED", "BOOKING_CANCELLED", "OPERATOR_CLOSED", "EXPIRED"}
-----------------------------------------------------------------------------
RISK_LEVELS == {"NORMAL", "WARNING", "HIGH_RISK", "EMERGENCY"}

riskRank(level) == CASE level = "NORMAL"    -> 0
                     [] level = "WARNING"   -> 1
                     [] level = "HIGH_RISK" -> 2
                     [] level = "EMERGENCY" -> 3

maxRisk(a, b) == IF riskRank(a) >= riskRank(b) THEN a ELSE b

(* A rise to HIGH_RISK or above sends an alert.                            *)
Alarming(level) == level \in {"HIGH_RISK", "EMERGENCY"}

(* No answer of the anomaly service that flags the session.                *)
NoAnomaly == [flagged |-> FALSE, alone |-> {}]

(* The families of a set of findings.  Every finding is at least a warning.*)
Families(findings) == {f.family : f \in findings}

(* The level of the findings and of the anomaly answer without a panic.    *)
(* anomaly.alone holds the sets of families next to which the contributions*)
(* of the other families still reach the threshold of the flag.            *)
ObservedRisk(findings, anomaly) ==
  IF \/ \E f \in findings : f.severity = "HIGH_RISK"
     \/ Cardinality(Families(findings)) >= 2
     \/ anomaly.flagged /\ findings # {} /\ Families(findings) \in anomaly.alone
  THEN "HIGH_RISK"
  ELSE IF findings # {} \/ anomaly.flagged THEN "WARNING" ELSE "NORMAL"

(* Panic, and nothing else, is an emergency.                               *)
aggregateRisk(findings, anomaly, panicRaised) ==
  IF panicRaised THEN "EMERGENCY" ELSE ObservedRisk(findings, anomaly)

(* An emergency does not fall by itself; a floor holds the level up.       *)
resolveAppliedLevel(current, computed, floor) ==
  IF current = "EMERGENCY" THEN "EMERGENCY"
  ELSE IF floor = "NONE" THEN computed ELSE maxRisk(computed, floor)
=============================================================================
