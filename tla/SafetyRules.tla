---------------------------- MODULE SafetyRules ----------------------------
(***************************************************************************)
(* What an evaluation sees of a session, and the ten rules that it tries.  *)
(* Time is counted in units of five minutes, the unit in which all of the  *)
(* thresholds are whole numbers (R04's factor is three halves).  A signal  *)
(* that is not known is Unknown, and a rule that needs it is silent.       *)
(***************************************************************************)
EXTENDS Geofence, SafetyStates, SequencesExt

Unknown == -1

arrivalGrace == 3
geofenceExitWarning == 1
geofenceExitHighRisk == 4
telemetryGapWarning == 2
telemetryGapHighRisk == 6
durationOverrunMin == 6
integrityRejectionWarningCount == 3
stalledMaxMovementMeters == 50
stalledWindow == 6
stalledMinDistanceMeters == 1000
movingAwayMeters == 1000
movingAwayMinWindow == 2
geofenceEvidenceMaxAge == 1
checkInGrace == 1
movementWindow == 6
-----------------------------------------------------------------------------
(* The summary of a trace, which is in the order of capture.  Movement and *)
(* trend are of the last half hour; each step loses the larger of the two  *)
(* errors.  A provider moves along a line through the place of the visit.  *)

Larger(a, b) == IF a >= b THEN a ELSE b
Distance(a, b) == IF a.distance >= b.distance THEN a.distance - b.distance
                  ELSE b.distance - a.distance

lastConclusive(trace) ==
  LET proved == {i \in DOMAIN trace : Side(trace[i].fix) # "NONE"}
  IN  IF proved = {} THEN [side |-> "NONE", at |-> Unknown]
      ELSE LET last == CHOOSE i \in proved : \A j \in proved : j <= i
           IN  [side |-> Side(trace[last].fix), at |-> trace[last].at]

recentSamples(trace) ==
  SelectSeq(trace, LAMBDA s : s.at >= trace[Len(trace)].at - movementWindow)

movementMeters(samples) ==
  LET Step(a, b) == Larger(0, Distance(a.fix, b.fix) - Larger(a.fix.accuracy, b.fix.accuracy))
  IN  FoldLeftDomain(LAMBDA sum, i : IF i = 1 THEN sum ELSE sum + Step(samples[i - 1], samples[i]),
                     0, samples)

summarizeTrace(trace) ==
  LET last == trace[Len(trace)]
      recent == recentSamples(trace)
  IN  IF Len(trace) < 2
      THEN [movement |-> Unknown, window |-> Unknown, trend |-> Unknown,
            conclusive |-> [side |-> "NONE", at |-> Unknown]]
      ELSE [movement |-> movementMeters(recent),
            window |-> last.at - recent[1].at,
            trend |-> last.fix.distance - recent[1].fix.distance,
            conclusive |-> lastConclusive(trace)]

(* The signals of a session at a moment.  Silence is counted from the last *)
(* accepted sample, and before the first from the start of the monitoring. *)
buildSignals(session, trace, now) ==
  LET summary == summarizeTrace(trace)
      Since(at) == IF at = Unknown THEN Unknown ELSE Larger(0, now - at)
  IN  [session |-> session, now |-> now,
       fenceFor |-> Since(session.fenceSince),
       silence |-> IF session.heardAt # Unknown THEN Since(session.heardAt)
                   ELSE Since(session.monitoredFrom),
       activeFor |-> IF session.activatedAt = Unknown THEN Unknown
                     ELSE now - session.activatedAt,
       movement |-> summary.movement, window |-> summary.window, trend |-> summary.trend,
       evidenceSide |-> summary.conclusive.side,
       evidenceAge |-> Since(summary.conclusive.at),
       eta |-> Unknown]

withRoute(signals, eta) == [signals EXCEPT !.eta = eta]
-----------------------------------------------------------------------------
(* The rules.                                                              *)

Arriving(s) == s.session.status = "ARRIVAL_MONITORING"
InService(s) == s.session.status = "ACTIVE" /\ s.activeFor # Unknown

freshOutsideEvidence(s) ==
  s.evidenceSide = "OUTSIDE" /\ s.evidenceAge \in 0..geofenceEvidenceMaxAge

(* R01 *)
MissedArrival(s) == Arriving(s) /\ s.now - s.session.start > arrivalGrace

(* R02: outside the fence since the check-in at the earliest.              *)
Outside(s) == IF s.fenceFor <= s.activeFor THEN s.fenceFor ELSE Larger(0, s.activeFor)
UnexpectedExit(s) ==
  /\ InService(s)
  /\ s.session.fence.current = "OUTSIDE" /\ s.fenceFor # Unknown
  /\ freshOutsideEvidence(s)
  /\ Outside(s) > geofenceExitWarning

(* R03 *)
TelemetryGap(s) == (Arriving(s) \/ s.session.status = "ACTIVE") /\ s.silence >= telemetryGapWarning

(* R04 *)
DurationOverrun(s) ==
  LET planned == Larger(1, s.session.end - s.session.start)
  IN  InService(s) /\ s.activeFor > planned + Larger(planned \div 2, durationOverrunMin)

(* R05 and R06 *)
TelemetryIntegrity(s) == s.session.integrity >= integrityRejectionWarningCount
MockLocation(s) == s.session.mocks > 0

(* R07: far away, and hardly moved in (nearly) half an hour.               *)
StalledEnRoute(s) ==
  /\ Arriving(s) /\ s.movement # Unknown /\ 10 * s.window >= 9 * stalledWindow
  /\ s.session.last.fix.distance >= stalledMinDistanceMeters
  /\ s.movement < stalledMaxMovementMeters

(* R08: in time as yet, and late by the estimate of the route.             *)
ProjectedLateArrival(s) ==
  LET deadline == s.session.start + arrivalGrace
  IN  Arriving(s) /\ s.eta # Unknown /\ s.now <= deadline /\ s.now + s.eta > deadline

(* R09 *)
MovingAway(s) ==
  Arriving(s) /\ s.window >= movingAwayMinWindow /\ s.trend >= movingAwayMeters

(* R10: checked in where the provider has never been seen since.           *)
CheckinOutsideGeofence(s) ==
  /\ InService(s)
  /\ s.session.activationFence = "OUTSIDE" /\ s.session.fence.current # "INSIDE"
  /\ s.activeFor >= checkInGrace
  /\ freshOutsideEvidence(s)

Found(rule, family, severity, found) ==
  IF found THEN {[rule |-> rule, family |-> family, severity |-> severity]} ELSE {}

Graded(high) == IF high THEN "HIGH_RISK" ELSE "WARNING"

evaluateRules(s) ==
  UNION {Found("R01", "ARRIVAL", "WARNING", MissedArrival(s)),
         Found("R02", "LOCATION", Graded(Outside(s) > geofenceExitHighRisk), UnexpectedExit(s)),
         Found("R03", "TELEMETRY", Graded(s.silence >= telemetryGapHighRisk), TelemetryGap(s)),
         Found("R04", "DURATION", "WARNING", DurationOverrun(s)),
         Found("R05", "INTEGRITY", "WARNING", TelemetryIntegrity(s)),
         Found("R06", "INTEGRITY", "WARNING", MockLocation(s)),
         Found("R07", "ACTIVITY", "WARNING", StalledEnRoute(s)),
         Found("R08", "ARRIVAL", "WARNING", ProjectedLateArrival(s)),
         Found("R09", "ARRIVAL", "WARNING", MovingAway(s)),
         Found("R10", "LOCATION", "WARNING", CheckinOutsideGeofence(s))}
=============================================================================
