------------------------------ MODULE Geofence ------------------------------
(***************************************************************************)
(* Where a sample says the provider is, and when the session believes it.  *)
(* A fix has a distance to the place of the visit and an accuracy, both in *)
(* metres.  Pure definitions.                                              *)
(***************************************************************************)
EXTENDS Integers

CONSTANTS
  Radius,         \* of the geofence
  AccuracyLimit,  \* beyond which a fix does not tell a side
  DebounceSamples \* equal observations in a row that move the fence

ASSUME GeofenceAssumption ==
  Radius \in Nat /\ AccuracyLimit \in Nat /\ DebounceSamples \in Nat \ {0}

(* A tenth of the radius, rounded, and ten metres at least.                *)
hysteresisMeters(radius) ==
  IF (radius + 5) \div 10 > 10 THEN (radius + 5) \div 10 ELSE 10

(* The side that a fix proves whatever its error, "NONE" if neither.       *)
Side(fix) ==
  IF fix.distance + fix.accuracy <= Radius - hysteresisMeters(Radius) THEN "INSIDE"
  ELSE IF fix.distance - fix.accuracy > Radius + hysteresisMeters(Radius) THEN "OUTSIDE"
  ELSE "NONE"

evaluateGeofence(fix) ==
  IF fix.accuracy > AccuracyLimit THEN "INSUFFICIENT_ACCURACY"
  ELSE IF Side(fix) = "NONE" THEN "BOUNDARY" ELSE Side(fix)

NoFence == [current |-> "UNKNOWN", candidate |-> "NONE", count |-> 0]

(* mutation: what is not known does not interrupt a candidate              *)
ForgivingDebounce(fence, observation) ==
  LET count == IF fence.candidate = observation THEN fence.count + 1 ELSE 1
  IN  IF observation \in {"BOUNDARY", "INSUFFICIENT_ACCURACY"} THEN fence
      ELSE IF observation = fence.current
      THEN [fence EXCEPT !.candidate = "NONE", !.count = 0]
      ELSE IF count >= DebounceSamples
      THEN [current |-> observation, candidate |-> "NONE", count |-> 0]
      ELSE [fence EXCEPT !.candidate = observation, !.count = count]

(* What is not known never moves the fence, and interrupts a candidate.    *)
applyDebounce(fence, observation) ==
  LET count == IF fence.candidate = observation THEN fence.count + 1 ELSE 1
  IN  IF observation \in {"BOUNDARY", "INSUFFICIENT_ACCURACY", fence.current}
      THEN [fence EXCEPT !.candidate = "NONE", !.count = 0]
      ELSE IF count >= DebounceSamples
      THEN [current |-> observation, candidate |-> "NONE", count |-> 0]
      ELSE [fence EXCEPT !.candidate = observation, !.count = count]
=============================================================================
