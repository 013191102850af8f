---------------------------- MODULE SafetyProofs ----------------------------
(* SafetyInv is inductive, for every number of evaluations and emergencies *)
(* and whatever can be observed; Safety keeps the promise of Alarm.        *)
EXTENDS Safety, TLAPS

(* What the rules make of a visit is never an emergency; with a panic it is*)
LEMMA RiskIsLevel ==
  ASSUME NEW s \in Situations, NEW panic \in BOOLEAN
  PROVE  /\ aggregateRisk(s.findings, s.anomaly, panic) \in RISK_LEVELS
         /\ aggregateRisk(s.findings, s.anomaly, panic) = "EMERGENCY" => panic
  BY SituationsAssumption DEF aggregateRisk, RISK_LEVELS

LEMMA AppliedIsLevel ==
  ASSUME NEW current \in RISK_LEVELS, NEW computed \in RISK_LEVELS,
         NEW floor \in RISK_LEVELS \cup {"NONE"}
  PROVE  LET applied == resolveAppliedLevel(current, computed, floor)
         IN  /\ applied \in RISK_LEVELS
             /\ current = "EMERGENCY" => applied = "EMERGENCY"
             /\ floor # "NONE" /\ riskRank(current) >= riskRank(floor) =>
                  riskRank(applied) >= riskRank(floor)
             /\ Alarming(applied) /\ applied # current =>
                  riskRank(applied) > riskRank(current)
  BY DEF resolveAppliedLevel, maxRisk, riskRank, RISK_LEVELS, Alarming

LEMMA InitInv == Init => SafetyInv
<1> SUFFICES ASSUME Init PROVE SafetyInv
    OBVIOUS
<1>1. NoSession \in Sessions
  BY DEF NoSession, Sessions, Statuses, RISK_LEVELS
<1>2. TypeOK
  BY <1>1 DEF Init, TypeOK, Resting, RISK_LEVELS
<1> QED BY <1>2
        DEF Init, SafetyInv, LogIsPast, ClosureHasReason, PanicIsEmergency,
            SessionFollowsBooking, FloorHolds, AlarmingIsKnown, ExpiredWasCalm,
            isPanicActive, IsOpen, NoSession, Alarming, Running, Ended

(* What a booking status asks of the session.                              *)
LEMMA EffectCases ==
  ASSUME NEW to
  PROVE  LET effect == safetyEffectForBooking(to)
         IN  /\ to = "SCHEDULED" =>
                  effect.target = "PRE_SERVICE"
             /\ to = "PROVIDER_ARRIVING" =>
                  effect.target = "ARRIVAL_MONITORING"
             /\ to \in {"CHECKED_IN", "IN_PROGRESS"} =>
                  effect.target = "ACTIVE"
             /\ to \in Ended =>
                  /\ effect.target = "CLOSED"
                  /\ effect.reason \in {"SERVICE_COMPLETED", "BOOKING_CANCELLED",
                                        "OPERATOR_CLOSED"}
                  /\ effect.reason = "BOOKING_CANCELLED" => to = "CANCELLED"
             /\ to \in {"CHECKED_OUT", "COMPLETED", "CUSTOMER_CONFIRMED", "SETTLED"} =>
                  effect.reason = "SERVICE_COMPLETED"
             /\ to \notin Running \cup Ended \cup {"SCHEDULED"} =>
                  effect.target = "NONE"
  BY DEF safetyEffectForBooking, SAFETY_CLOSURE_REASONS, Ended, Running

(* Where there is no way forward the session is ahead.                     *)
LEMMA PathCases ==
  ASSUME NEW from \in {"PRE_SERVICE", "ARRIVAL_MONITORING", "ACTIVE"},
         NEW to \in {"PRE_SERVICE", "ARRIVAL_MONITORING", "ACTIVE", "CLOSED"}
  PROVE  /\ to = "CLOSED" \/ from = "PRE_SERVICE" => forwardPath(from, to)
         /\ ~forwardPath(from, to) => Rung(from) > Rung(to)
  BY DEF forwardPath, isAllowedSafetyTransition, Rung

(* A step of the booking touches the status, the schedule and the closure  *)
(* of the session: it leaves it as it is, or moves it to the target.       *)
LEMMA BookingTouches ==
  ASSUME TypeOK, NEW to
  PROVE  LET new == onBookingTransition(session, to).session
             effect == safetyEffectForBooking(to)
         IN  /\ new \in Sessions
             /\ new.risk = session.risk /\ new.floor = session.floor
             /\ new.panic = session.panic /\ new.episode = session.episode
             /\ new.panicCount = session.panicCount
             /\ session.status = "CLOSED" \/ effect.target = "NONE" => new = session
             /\ session.status = "NONE" /\ effect.target = "CLOSED" => new = session
             /\ IsOpen /\ effect.target = "CLOSED" =>
                  new.status = "CLOSED" /\ new.closure = effect.reason
             /\ session.status # "CLOSED" /\ effect.target \notin {"NONE", "CLOSED"} =>
                  /\ new.closure = session.closure
                  /\ new.status = effect.target
                       \/ (IsOpen /\ new.status = session.status
                            /\ Rung(session.status) > Rung(effect.target))
<1> DEFINE effect == safetyEffectForBooking(to)
           opened == IF session.status = "NONE"
                     THEN [session EXCEPT !.status = "PRE_SERVICE"] ELSE session
           moved == transitionSession(opened, effect.target, effect.reason)
           new == onBookingTransition(session, to).session
<1>1. /\ effect.target \in {"NONE", "PRE_SERVICE", "ARRIVAL_MONITORING", "ACTIVE", "CLOSED"}
      /\ effect.target = "CLOSED" => effect.reason \in SAFETY_CLOSURE_REASONS
  BY EffectCases DEF Running, Ended, SAFETY_CLOSURE_REASONS
<1>2. session \in Sessions
  BY DEF TypeOK
<1>3. /\ opened \in Sessions /\ opened.status # "NONE"
      /\ opened.risk = session.risk /\ opened.floor = session.floor
      /\ opened.panic = session.panic /\ opened.episode = session.episode
      /\ opened.panicCount = session.panicCount /\ opened.closure = session.closure
      /\ opened.status = IF session.status = "NONE" THEN "PRE_SERVICE" ELSE session.status
  BY <1>2 DEF Sessions, Statuses, SAFETY_SESSION_STATUSES
<1>4. CASE effect.target = "NONE" \/ session.status = "CLOSED"
           \/ (session.status = "NONE" /\ effect.target = "CLOSED")
  <2>1. new = session
    BY <1>4 DEF onBookingTransition
  <2> QED BY <1>2, <1>4, <2>1 DEF IsOpen
<1>5. CASE ~(effect.target = "NONE" \/ session.status = "CLOSED"
             \/ (session.status = "NONE" /\ effect.target = "CLOSED"))
  <2>1. new = IF forwardPath(opened.status, effect.target) /\ opened.status # effect.target
              THEN moved ELSE opened
    <3>1. onBookingTransition(session, to) =
            [allowed |-> ~(effect.target = "CLOSED" /\ session.panic = "ACTIVE"),
             session |-> IF forwardPath(opened.status, effect.target)
                              /\ opened.status # effect.target
                         THEN moved ELSE opened]
      BY <1>5 DEF onBookingTransition
    <3> HIDE DEF opened, moved, effect
    <3> QED BY <3>1
  <2>2. /\ moved \in Sessions
        /\ moved.risk = opened.risk /\ moved.floor = opened.floor
        /\ moved.panic = opened.panic /\ moved.episode = opened.episode
        /\ moved.panicCount = opened.panicCount
        /\ moved.status = effect.target
        /\ moved.closure = IF effect.target = "CLOSED" THEN effect.reason ELSE opened.closure
    <3> HIDE DEF opened, effect, new
    <3>1. effect.target \in Statuses
      BY <1>1, <1>5 DEF Statuses, SAFETY_SESSION_STATUSES
    <3> QED BY <1>1, <1>3, <1>5, <3>1 DEF transitionSession, Sessions, acceptsTelemetry
  <2> HIDE DEF opened, effect, new, moved
  <2>3. opened.status \in {"PRE_SERVICE", "ARRIVAL_MONITORING", "ACTIVE"}
    BY <1>3, <1>5, <1>2 DEF Sessions, Statuses, SAFETY_SESSION_STATUSES
  <2>4. /\ effect.target = "CLOSED" \/ opened.status = "PRE_SERVICE" =>
             forwardPath(opened.status, effect.target)
        /\ ~forwardPath(opened.status, effect.target) =>
             Rung(opened.status) > Rung(effect.target)
    BY <1>1, <1>5, <2>3, PathCases
  <2>5. new \in {moved, opened} /\ new \in Sessions
    BY <1>3, <2>1, <2>2
  <2>6. /\ new.risk = session.risk /\ new.floor = session.floor
        /\ new.panic = session.panic /\ new.episode = session.episode
        /\ new.panicCount = session.panicCount
    BY <1>3, <2>2, <2>5
  <2>7. effect.target = "CLOSED" => new.status = "CLOSED" /\ new.closure = effect.reason
    BY <2>1, <2>2, <2>3, <2>4
  <2>8. effect.target # "CLOSED" =>
          /\ new.closure = session.closure
          /\ new.status = effect.target
               \/ (IsOpen /\ new.status = session.status
                    /\ Rung(session.status) > Rung(effect.target))
    BY <1>3, <1>5, <2>1, <2>2, <2>4 DEF IsOpen
  <2> QED BY <1>5, <2>5, <2>6, <2>7, <2>8 DEF new, effect
<1> QED BY <1>4, <1>5

(* What the start of an emergency does to the row.                         *)
LEMMA MarkPanicFacts ==
  ASSUME NEW s \in Sessions
  PROVE  /\ markPanic(s) \in Sessions /\ markPanic(s).episode = s.episode + 1
         /\ markPanic(s).status = s.status /\ markPanic(s).closure = s.closure
         /\ markPanic(s).risk = "EMERGENCY" /\ markPanic(s).floor = s.floor
         /\ markPanic(s).panic = "ACTIVE" /\ markPanic(s).panicCount = s.panicCount + 1
<1>1. s.episode + 1 \in Nat /\ s.panicCount + 1 \in Nat /\ "EMERGENCY" \in RISK_LEVELS
  BY DEF Sessions, RISK_LEVELS
<1>2. markPanic(s) \in Sessions
  BY <1>1 DEF markPanic, Sessions
<1> QED BY <1>2 DEF markPanic, Sessions

(* SafetyInv is kept by every step, and so by any run of them.             *)
THEOREM StepInv == SafetyInv /\ [Next]_vars => SafetyInv'
<1> SUFFICES ASSUME SafetyInv, [Next]_vars PROVE SafetyInv'
    OBVIOUS
<1> USE DEF SafetyInv
<1>1. CASE BookingStep
  <2>1. PICK to \in BOOKING_STATUSES, actor \in Actors :
          /\ TransitionAllowed(booking, to, actor)
          /\ onBookingTransition(session, to).allowed
          /\ booking' = to
          /\ session' = onBookingTransition(session, to).session
    BY <1>1 DEF BookingStep
  <2>2. /\ session' \in Sessions
        /\ session'.risk = session.risk /\ session'.floor = session.floor
        /\ session'.panic = session.panic /\ session'.episode = session.episode
    BY <2>1, BookingTouches
  <2>3. /\ panics' = panics /\ evaluator' = evaluator /\ situation' = situation
        /\ expiring' = expiring /\ alerted' = alerted /\ ordered' = ordered
    BY <1>1 DEF BookingStep
  <2>4. TypeOK' /\ LogIsPast' /\ FloorHolds' /\ AlarmingIsKnown'
    BY <2>1, <2>2, <2>3
       DEF TypeOK, LogIsPast, FloorHolds, AlarmingIsKnown, TransitionAllowed,
           BeforeService, BOOKING_STATUSES, Running, Ended
  <2> DEFINE effect == safetyEffectForBooking(to)
  <2>5. /\ session.status = "CLOSED" \/ effect.target = "NONE" => session' = session
        /\ session.status = "NONE" /\ effect.target = "CLOSED" => session' = session
        /\ IsOpen /\ effect.target = "CLOSED" =>
             session'.status = "CLOSED" /\ session'.closure = effect.reason
        /\ session.status # "CLOSED" /\ effect.target \notin {"NONE", "CLOSED"} =>
             /\ session'.closure = session.closure
             /\ session'.status = effect.target
                  \/ (IsOpen /\ session'.status = session.status
                       /\ Rung(session.status) > Rung(effect.target))
    BY <2>1, BookingTouches
  <2>6. /\ to = "SCHEDULED" => effect.target = "PRE_SERVICE"
        /\ to = "PROVIDER_ARRIVING" => effect.target = "ARRIVAL_MONITORING"
        /\ to \in {"CHECKED_IN", "IN_PROGRESS"} => effect.target = "ACTIVE"
        /\ to \in Ended => effect.target = "CLOSED"
        /\ to \notin Running \cup Ended \cup {"SCHEDULED"} => effect.target = "NONE"
    BY EffectCases
  <2>7. /\ to \in Ended => effect.reason \in {"SERVICE_COMPLETED", "BOOKING_CANCELLED",
                                             "OPERATOR_CLOSED"}
        /\ to \in Ended /\ effect.reason = "BOOKING_CANCELLED" => to = "CANCELLED"
    BY EffectCases
  <2>8. effect.target = "CLOSED" /\ IsOpen => ~isPanicActive
    BY <2>1 DEF onBookingTransition, isPanicActive, IsOpen
  <2>9. /\ to \in Running \cup Ended \cup {"SCHEDULED", "SAFETY_HOLD"}
        /\ to \in {"SCHEDULED"} => booking = "PAYMENT_AUTHORIZED"
        /\ to = "PROVIDER_ARRIVING" => booking = "SCHEDULED"
        /\ to = "CHECKED_IN" => booking = "PROVIDER_ARRIVING"
        /\ to = "IN_PROGRESS" => booking \in {"CHECKED_IN", "SAFETY_HOLD"}
        /\ booking = "CANCELLED" => FALSE
    BY <2>1, <2>4 DEF TypeOK, TransitionAllowed, BeforeService, Running, Ended
  <2> HIDE DEF effect
  <2>10. /\ effect.target = "CLOSED" <=> to \in Ended
         /\ effect.target \notin {"NONE", "CLOSED"} <=> to \in Running \cup {"SCHEDULED"}
         /\ effect.target = "CLOSED" => effect.reason \notin {"NONE", "EXPIRED"}
    BY <2>6, <2>7, <2>9 DEF Running, Ended
  <2>11. /\ session.status \in Statuses
         /\ session.closure \in SAFETY_CLOSURE_REASONS \cup {"NONE"}
    BY DEF TypeOK, Sessions
  <2>12. (to \in Running \cup {"SCHEDULED"} /\ session.status # "CLOSED") =>
            session'.status = effect.target
    <3>1. /\ booking = "SCHEDULED" => safetyEffectForBooking(booking).target = "PRE_SERVICE"
          /\ booking = "PROVIDER_ARRIVING" =>
               safetyEffectForBooking(booking).target = "ARRIVAL_MONITORING"
          /\ booking = "CHECKED_IN" => safetyEffectForBooking(booking).target = "ACTIVE"
      BY EffectCases
    <3>2. /\ to = "PROVIDER_ARRIVING" /\ session.status # "CLOSED" =>
               session.status = "PRE_SERVICE"
          /\ to = "CHECKED_IN" /\ session.status # "CLOSED" =>
               session.status = "ARRIVAL_MONITORING"
          /\ to = "SCHEDULED" => session.status = "NONE"
      BY <2>9, <3>1 DEF SessionFollowsBooking, Running
    <3>3. IsOpen => ~(Rung(session.status) > Rung("ACTIVE"))
      BY <2>11 DEF Rung, IsOpen, Statuses, SAFETY_SESSION_STATUSES
    <3>4. ~(Rung("PRE_SERVICE") > Rung("ARRIVAL_MONITORING"))
      BY DEF Rung
    <3> QED BY <2>5, <2>6, <2>10, <3>2, <3>3, <3>4 DEF IsOpen, Running
  <2>13. ClosureHasReason' /\ ExpiredWasCalm'
    <3>1. CASE session' = session
      BY <2>1, <2>9, <3>1 DEF ClosureHasReason, ExpiredWasCalm
    <3>2. CASE /\ IsOpen /\ effect.target = "CLOSED"
               /\ session'.status = "CLOSED" /\ session'.closure = effect.reason
      BY <2>1, <2>7, <2>10, <3>2 DEF ClosureHasReason, ExpiredWasCalm
    <3>3. CASE session.status # "CLOSED" /\ effect.target \notin {"NONE", "CLOSED"}
      BY <2>1, <2>2, <2>5, <2>9, <2>10, <2>12, <3>3 DEF ClosureHasReason, ExpiredWasCalm
    <3> QED BY <2>5, <3>1, <3>2, <3>3 DEF IsOpen
  <2>14. PanicIsEmergency'
    <3>1. SUFFICES ASSUME isPanicActive' PROVE PanicIsEmergency'
      BY DEF PanicIsEmergency
    <3>2. isPanicActive /\ IsOpen /\ to \notin Ended
      BY <2>2, <2>8, <2>10, <3>1
         DEF isPanicActive, PanicIsEmergency, acceptsTelemetry, IsOpen
    <3>3. to # "SCHEDULED"
      BY <2>9, <3>2 DEF SessionFollowsBooking, IsOpen
    <3>4. acceptsTelemetry(session'.status)
      <4>1. acceptsTelemetry(session.status) /\ session.status # "CLOSED"
        BY <3>2 DEF PanicIsEmergency, acceptsTelemetry
      <4>2. CASE to = "SAFETY_HOLD"
        BY <2>5, <2>10, <4>1, <4>2 DEF Running, Ended, IsOpen
      <4>3. CASE to \in Running
        BY <2>6, <2>12, <4>1, <4>3 DEF Running, acceptsTelemetry
      <4> QED BY <2>9, <3>2, <3>3, <4>2, <4>3
    <3> QED BY <2>1, <2>2, <2>9, <3>2, <3>3, <3>4 DEF PanicIsEmergency
  <2>15. SessionFollowsBooking'
    <3>1. to \in Ended => ~IsOpen'
      BY <2>5, <2>10 DEF IsOpen
    <3>2. (session.status = "CLOSED" /\ to \in Running \cup {"SCHEDULED"}) =>
             \/ session.closure \in {"OPERATOR_CLOSED", "EXPIRED"}
             \/ session.closure = "SERVICE_COMPLETED" /\ to = "IN_PROGRESS"
      <4> SUFFICES ASSUME session.status = "CLOSED", to \in Running \cup {"SCHEDULED"}
                   PROVE  \/ session.closure \in {"OPERATOR_CLOSED", "EXPIRED"}
                          \/ session.closure = "SERVICE_COMPLETED" /\ to = "IN_PROGRESS"
          OBVIOUS
      <4>1. session.closure \in SAFETY_CLOSURE_REASONS \ {"BOOKING_CANCELLED"}
        BY <2>9, <2>11 DEF ClosureHasReason
      <4>2. booking \in Running \cup {"SCHEDULED"} =>
              safetyEffectForBooking(booking).target # "CLOSED"
        BY EffectCases DEF Running, Ended
      <4>3. booking \in {"PROVIDER_ARRIVING", "SCHEDULED"} =>
              session.closure \in {"OPERATOR_CLOSED", "EXPIRED"}
        BY <4>2 DEF SessionFollowsBooking, Running
      <4>4. to = "IN_PROGRESS" \/ booking \in {"PROVIDER_ARRIVING", "SCHEDULED"}
        BY <2>9 DEF SessionFollowsBooking, Running
      <4> QED BY <4>1, <4>3, <4>4 DEF SAFETY_CLOSURE_REASONS
    <3> QED BY <2>1, <2>5, <2>9, <2>12, <3>1, <3>2
            DEF SessionFollowsBooking, Running, Ended, effect
  <2> QED BY <2>4, <2>13, <2>14, <2>15
<1>2. ASSUME NEW p \in Participants, raise(p) PROVE SafetyInv'
  <2>1. /\ acceptsTelemetry(session.status) /\ ~findOwnActivePanic(p)
        /\ session' = IF isPanicActive THEN addPanicRaiser(session) ELSE markPanic(session)
        /\ panics' = panics \cup {<<p, session'.episode>>}
        /\ booking' = booking \/ booking' = "SAFETY_HOLD"
        /\ alerted' = TRUE
        /\ evaluator' = evaluator /\ situation' = situation
        /\ expiring' = expiring /\ ordered' = ordered
    BY <1>2 DEF raise, MayRaise, applyBookingHold
  <2>2. /\ session' \in Sessions /\ session'.episode >= session.episode
        /\ session'.status = session.status /\ session'.closure = session.closure
        /\ session'.risk = "EMERGENCY" /\ session'.floor = session.floor
    <3>1. session \in Sessions /\ (isPanicActive => session.risk = "EMERGENCY")
      BY DEF TypeOK, PanicIsEmergency
    <3>2. CASE isPanicActive
      BY <2>1, <3>1, <3>2 DEF addPanicRaiser, Sessions
    <3>3. CASE ~isPanicActive
      BY <2>1, <3>1, <3>3, MarkPanicFacts DEF Sessions
    <3> QED BY <3>2, <3>3
  <2>3. booking \in Running \cup {"SAFETY_HOLD"}
    BY <2>1 DEF TypeOK, SessionFollowsBooking, acceptsTelemetry, IsOpen,
                safetyEffectForBooking, Running, Ended
  <2>4. TypeOK'
    BY <2>1, <2>2 DEF TypeOK, Sessions
  <2>5. LogIsPast'
    BY <2>1, <2>2 DEF TypeOK, LogIsPast, Sessions
  <2>6. PanicIsEmergency' /\ SessionFollowsBooking' /\ ClosureHasReason' /\ ExpiredWasCalm'
    BY <2>1, <2>2, <2>3
       DEF PanicIsEmergency, SessionFollowsBooking, ClosureHasReason, ExpiredWasCalm,
           isPanicActive, acceptsTelemetry, IsOpen, Running, Ended
  <2>7. FloorHolds' /\ AlarmingIsKnown'
    BY <2>1, <2>2 DEF FloorHolds, AlarmingIsKnown, riskRank, TypeOK, Sessions, RISK_LEVELS
  <2> QED BY <2>4, <2>5, <2>6, <2>7
<1>3. ASSUME NEW e \in Evaluators, evaluate(e) PROVE SafetyInv'
  <2>1. aggregateRisk(situation.findings, situation.anomaly, isPanicActive) \in RISK_LEVELS
    BY RiskIsLevel DEF TypeOK, isPanicActive
  <2>2. session' = [session EXCEPT !.due = FALSE]
    BY <1>3 DEF evaluate, claimDueSessions
  <2>3. TypeOK'
    BY <1>3, <2>1, <2>2 DEF evaluate, TypeOK, Sessions
  <2> QED BY <1>3, <2>2, <2>3
          DEF evaluate, TypeOK, Sessions, LogIsPast, ClosureHasReason, PanicIsEmergency,
              SessionFollowsBooking, FloorHolds, AlarmingIsKnown, ExpiredWasCalm,
              isPanicActive, IsOpen
<1>4. ASSUME NEW e \in Evaluators, persist(e) PROVE SafetyInv'
  <2> DEFINE computed == IF isPanicActive THEN "EMERGENCY" ELSE evaluator[e].level
             applied == AppliedLevel(evaluator[e].level)
  <2>1. computed \in RISK_LEVELS /\ session.risk \in RISK_LEVELS
        /\ session.floor \in RISK_LEVELS \cup {"NONE"}
    BY DEF TypeOK, RISK_LEVELS, Sessions
  <2>2. /\ applied \in RISK_LEVELS
        /\ session.risk = "EMERGENCY" => applied = "EMERGENCY"
        /\ session.floor # "NONE" /\ riskRank(session.risk) >= riskRank(session.floor) =>
             riskRank(applied) >= riskRank(session.floor)
        /\ Alarming(applied) /\ applied # session.risk =>
             riskRank(applied) > riskRank(session.risk)
    BY <2>1, AppliedIsLevel DEF AppliedLevel
  <2> HIDE DEF applied, computed
  <2>3. evaluator' = [evaluator EXCEPT ![e] = Resting]
        /\ UNCHANGED <<booking, panics, situation, expiring>>
    BY <1>4 DEF persist
  <2>4. CASE ~acceptsTelemetry(session.status)
    <3>1. UNCHANGED <<session, alerted, ordered>>
      BY <1>4, <2>4 DEF persist
    <3> QED BY <2>3, <3>1
            DEF TypeOK, Resting, RISK_LEVELS, LogIsPast, ClosureHasReason, PanicIsEmergency,
              SessionFollowsBooking, FloorHolds, AlarmingIsKnown, ExpiredWasCalm,
              isPanicActive, IsOpen
  <2>5. CASE acceptsTelemetry(session.status)
    <3>1. /\ session' = [session EXCEPT !.risk = applied, !.due = FALSE]
          /\ alerted' = (Alarming(applied) /\ (alerted \/ SendsAlert(session.risk, applied)))
          /\ ordered' = IF applied = session.risk THEN ordered ELSE "NONE"
      BY <1>4, <2>5 DEF persist, applied
    <3>2. TypeOK'
      BY <2>2, <2>3, <3>1 DEF TypeOK, Resting, RISK_LEVELS, Sessions
    <3>3. AlarmingIsKnown' /\ FloorHolds'
      BY <2>2, <3>1 DEF AlarmingIsKnown, FloorHolds, SendsAlert, TypeOK, Sessions, Alarming
    <3>4. LogIsPast' /\ ClosureHasReason' /\ PanicIsEmergency'
          /\ SessionFollowsBooking' /\ ExpiredWasCalm'
      BY <2>2, <2>3, <2>5, <3>1
         DEF TypeOK, Sessions, LogIsPast, ClosureHasReason, PanicIsEmergency,
             SessionFollowsBooking, ExpiredWasCalm, isPanicActive, IsOpen, acceptsTelemetry
    <3> QED BY <3>2, <3>3, <3>4
  <2> QED BY <2>4, <2>5
<1>5. ASSUME NEW e \in Evaluators, EvaluationFails(e) PROVE SafetyInv'
  BY <1>5 DEF EvaluationFails, TypeOK, Resting, RISK_LEVELS, LogIsPast, ClosureHasReason,
              PanicIsEmergency, SessionFollowsBooking, FloorHolds, AlarmingIsKnown,
              ExpiredWasCalm, isPanicActive, IsOpen
<1>6. CASE FallsDue
  <2>1. session' = [session EXCEPT !.due = TRUE]
        /\ UNCHANGED <<booking, panics, evaluator, situation, expiring, alerted, ordered>>
    BY <1>6 DEF FallsDue
  <2>2. TypeOK'
    BY <2>1 DEF TypeOK, Sessions
  <2> QED BY <2>1, <2>2
          DEF TypeOK, Sessions, LogIsPast, ClosureHasReason, PanicIsEmergency,
              SessionFollowsBooking, FloorHolds, AlarmingIsKnown, ExpiredWasCalm,
              isPanicActive, IsOpen
<1>7. CASE SituationChanges
  BY <1>7 DEF SituationChanges, TypeOK, LogIsPast, ClosureHasReason,
              PanicIsEmergency, SessionFollowsBooking, FloorHolds, AlarmingIsKnown,
              ExpiredWasCalm, isPanicActive, IsOpen
<1>8. CASE overrideRisk
  <2>1. PICK level \in OperatorLevels :
          /\ IsOpen
          /\ session' = [session EXCEPT
               !.risk = level,
               !.panic = IF level # "EMERGENCY" /\ isPanicActive THEN "RESOLVED" ELSE @,
               !.floor = IF level = "NORMAL" THEN "NONE" ELSE level]
          /\ ordered' = IF Alarming(level) THEN level ELSE "NONE"
          /\ alerted' = (alerted /\ Alarming(level))
          /\ UNCHANGED <<booking, panics, evaluator, situation, expiring>>
    BY <1>8 DEF overrideRisk
  <2>2. level \in RISK_LEVELS
    BY OperatorLevelsAssumption
  <2>3. TypeOK'
    BY <2>1, <2>2 DEF TypeOK, Sessions, RISK_LEVELS, Alarming
  <2> QED BY <2>1, <2>2, <2>3
          DEF TypeOK, Sessions, RISK_LEVELS, LogIsPast, ClosureHasReason,
              PanicIsEmergency, SessionFollowsBooking, FloorHolds, AlarmingIsKnown,
              ExpiredWasCalm, isPanicActive, IsOpen, riskRank, Alarming
<1>9. CASE FloorExpires
  BY <1>9 DEF FloorExpires, TypeOK, Sessions, LogIsPast, ClosureHasReason,
              PanicIsEmergency, SessionFollowsBooking, FloorHolds, AlarmingIsKnown,
              ExpiredWasCalm, isPanicActive, IsOpen
<1>10. CASE OperatorCloses
  BY <1>10 DEF OperatorCloses, transitionSession, TypeOK, Sessions, Statuses,
               SAFETY_SESSION_STATUSES, SAFETY_CLOSURE_REASONS, LogIsPast, ClosureHasReason,
               PanicIsEmergency, SessionFollowsBooking, FloorHolds, AlarmingIsKnown,
               ExpiredWasCalm, isPanicActive, IsOpen, acceptsTelemetry, Running, Ended
<1>11. CASE findExpiredOpenSessions
  BY <1>11 DEF findExpiredOpenSessions, TypeOK, LogIsPast, ClosureHasReason,
              PanicIsEmergency, SessionFollowsBooking, FloorHolds, AlarmingIsKnown,
              ExpiredWasCalm, isPanicActive, IsOpen
<1>12. CASE expireStaleSessions
  <2>1. /\ session' = IF ~IsOpen \/ Alarming(session.risk) THEN session
                      ELSE transitionSession(session, "CLOSED", "EXPIRED")
        /\ expiring' = FALSE
        /\ UNCHANGED <<booking, panics, evaluator, situation, alerted, ordered>>
    BY <1>12 DEF expireStaleSessions
  <2>2. CASE ~IsOpen \/ Alarming(session.risk)
    BY <2>1, <2>2
       DEF TypeOK, LogIsPast, ClosureHasReason, PanicIsEmergency,
           SessionFollowsBooking, FloorHolds, AlarmingIsKnown, ExpiredWasCalm,
           isPanicActive, IsOpen
  <2>3. CASE ~(~IsOpen \/ Alarming(session.risk))
    <3>1. session' = [session EXCEPT !.status = "CLOSED", !.due = FALSE, !.closure = "EXPIRED"]
      BY <2>1, <2>3 DEF transitionSession, acceptsTelemetry, TypeOK, Sessions
    <3>2. TypeOK' /\ LogIsPast' /\ ClosureHasReason'
      BY <2>1, <3>1
         DEF TypeOK, Sessions, Statuses, SAFETY_SESSION_STATUSES, SAFETY_CLOSURE_REASONS,
             LogIsPast, ClosureHasReason
    <3>3. ~isPanicActive'
      BY <2>3, <3>1 DEF PanicIsEmergency, isPanicActive, Alarming, TypeOK, Sessions
    <3> QED BY <2>1, <2>3, <3>1, <3>2, <3>3
            DEF PanicIsEmergency, SessionFollowsBooking, FloorHolds, AlarmingIsKnown,
                ExpiredWasCalm, IsOpen, TypeOK, Sessions, Running, Ended
  <2> QED BY <2>2, <2>3
<1>13. CASE UNCHANGED vars
  BY <1>13 DEF vars, TypeOK, LogIsPast, ClosureHasReason,
              PanicIsEmergency, SessionFollowsBooking, FloorHolds, AlarmingIsKnown,
              ExpiredWasCalm, isPanicActive, IsOpen
<1> QED BY <1>1, <1>2, <1>3, <1>4, <1>5, <1>6, <1>7, <1>8, <1>9, <1>10, <1>11,
           <1>12, <1>13 DEF Next

(* In every state of every run: an unresolved panic is an emergency of a   *)
(* visit that is under way or held; the session is where its booking is; no*)
(* alarming level is unknown; the clean-up closed no alarming session; and *)
(* the floor of an operator holds.                                         *)
THEOREM SafetyHolds == Spec => []SafetyInv
  BY InitInv, StepInv, PTL DEF Spec

(* An unresolved panic keeps the session running at EMERGENCY, whatever the*)
(* booking, the evaluators, the operator and the clean-up do.              *)
THEOREM PanicStaysEmergency == Spec => []PanicIsEmergency
<1>1. SafetyInv => PanicIsEmergency
  BY DEF SafetyInv
<1> QED BY <1>1, SafetyHolds, PTL

(* An open session is where its booking is.                                *)
THEOREM SessionIsWhereBookingIs == Spec => []SessionFollowsBooking
<1>1. SafetyInv => SessionFollowsBooking
  BY DEF SafetyInv
<1> QED BY <1>1, SafetyHolds, PTL

(* No alarming level without an alert or a decision of an operator.        *)
THEOREM AlarmingLevelsAreKnown == Spec => []AlarmingIsKnown
<1>1. SafetyInv => AlarmingIsKnown
  BY DEF SafetyInv
<1> QED BY <1>1, SafetyHolds, PTL

(* EMERGENCY ends by no step but the operator's.                           *)
THEOREM EmergencyEnds == Spec => EmergencyEndsByOperator
<1>1. SafetyInv /\ [Next]_vars =>
        [session.risk = "EMERGENCY" /\ session'.risk # "EMERGENCY" => overrideRisk]_vars
  <2> SUFFICES ASSUME SafetyInv, Next, session.risk = "EMERGENCY", ~overrideRisk
               PROVE  session'.risk = "EMERGENCY"
      BY DEF vars
  <2>1. session \in Sessions
    BY DEF SafetyInv, TypeOK
  <2>2. CASE BookingStep
    BY <2>2, BookingTouches DEF BookingStep, SafetyInv
  <2>3. ASSUME NEW p \in Participants, raise(p) PROVE session'.risk = "EMERGENCY"
    <3>1. addPanicRaiser(session).risk = session.risk
      BY <2>1 DEF addPanicRaiser, Sessions
    <3> QED BY <2>1, <2>3, <3>1, MarkPanicFacts DEF raise
  <2>4. ASSUME NEW e \in Evaluators, evaluate(e) \/ EvaluationFails(e)
        PROVE  session'.risk = "EMERGENCY"
    BY <2>1, <2>4 DEF evaluate, claimDueSessions, EvaluationFails, Sessions
  <2>5. ASSUME NEW e \in Evaluators, persist(e) PROVE session'.risk = "EMERGENCY"
    <3>1. AppliedLevel(evaluator[e].level) = "EMERGENCY"
      BY DEF AppliedLevel, resolveAppliedLevel
    <3> QED BY <2>1, <2>5, <3>1 DEF persist, Sessions
  <2>6. CASE FallsDue \/ FloorExpires
    BY <2>1, <2>6 DEF FallsDue, FloorExpires, Sessions
  <2>7. CASE OperatorCloses
    BY <2>1, <2>7 DEF OperatorCloses, transitionSession, Sessions
  <2>8. CASE expireStaleSessions
    BY <2>1, <2>8 DEF expireStaleSessions, transitionSession, Sessions
  <2>9. CASE SituationChanges \/ findExpiredOpenSessions
    BY <2>9 DEF SituationChanges, findExpiredOpenSessions
  <2> QED BY <2>2, <2>3, <2>4, <2>5, <2>6, <2>7, <2>8, <2>9 DEF Next
<1> QED BY <1>1, SafetyHolds, PTL DEF Spec, EmergencyEndsByOperator
-----------------------------------------------------------------------------
(* Alarm.                                                                  *)

Raisers == IF isPanicActive THEN {p \in Participants : findOwnActivePanic(p)} ELSE {}

LEMMA InitAlarm == Init => Alarm!Init
  BY DEF Init, Alarm!Init, NoSession, isPanicActive

(* A step that leaves the panic, its number and the log alone is a stutter *)
(* of Alarm.                                                               *)
LEMMA QuietStep ==
  ASSUME session'.panic = session.panic, session'.episode = session.episode,
         session'.panicCount = session.panicCount, panics' = panics
  PROVE  UNCHANGED <<isPanicActive, Raisers, session.panicCount>>
  BY DEF isPanicActive, Raisers, findOwnActivePanic

LEMMA StepAlarm ==
  SafetyInv /\ [Next]_vars =>
    [Alarm!Next]_<<isPanicActive, Raisers, session.panicCount>>
<1> SUFFICES ASSUME SafetyInv, [Next]_vars
             PROVE  [Alarm!Next]_<<isPanicActive, Raisers, session.panicCount>>
    OBVIOUS
<1>1. session \in Sessions
  BY DEF SafetyInv, TypeOK
<1>2. CASE BookingStep
  BY <1>2, BookingTouches, QuietStep DEF BookingStep, SafetyInv
<1>3. ASSUME NEW p \in Participants, raise(p) PROVE Alarm!Next
  <2>1. /\ ~findOwnActivePanic(p)
        /\ session' = IF isPanicActive THEN addPanicRaiser(session) ELSE markPanic(session)
        /\ panics' = panics \cup {<<p, session'.episode>>}
    BY <1>3 DEF raise, MayRaise
  <2>2. CASE isPanicActive
    <3>1. /\ session'.panic = session.panic /\ session'.episode = session.episode
          /\ session'.panicCount = session.panicCount + 1
      BY <1>1, <2>1, <2>2 DEF addPanicRaiser, Sessions
    <3>2. isPanicActive' /\ p \notin Raisers /\ Raisers' = Raisers \cup {p}
      BY <2>1, <2>2, <3>1 DEF isPanicActive, Raisers, findOwnActivePanic
    <3> QED BY <2>2, <3>1, <3>2 DEF Alarm!Next, Alarm!Corroborate, Raisers
  <2>3. CASE ~isPanicActive
    <3>1. /\ session'.panic = "ACTIVE" /\ session'.episode = session.episode + 1
          /\ session'.panicCount = session.panicCount + 1
      BY <1>1, <2>1, <2>3, MarkPanicFacts
    <3>2. \A q \in Participants : <<q, session'.episode>> \notin panics
      BY <1>1, <3>1 DEF SafetyInv, LogIsPast, Sessions
    <3>3. isPanicActive' /\ Raisers' = {p}
      BY <2>1, <3>1, <3>2 DEF isPanicActive, Raisers, findOwnActivePanic
    <3> QED BY <2>3, <3>1, <3>3 DEF Alarm!Next, Alarm!Raise, Raisers
  <2> QED BY <2>2, <2>3
<1>4. ASSUME NEW e \in Evaluators, evaluate(e) \/ persist(e) \/ EvaluationFails(e)
      PROVE  UNCHANGED <<isPanicActive, Raisers, session.panicCount>>
  BY <1>1, <1>4, QuietStep
     DEF evaluate, claimDueSessions, persist, EvaluationFails, Sessions
<1>5. CASE FallsDue \/ FloorExpires
  BY <1>1, <1>5, QuietStep DEF FallsDue, FloorExpires, Sessions
<1>6. CASE SituationChanges \/ findExpiredOpenSessions \/ UNCHANGED vars
  BY <1>6, QuietStep DEF SituationChanges, findExpiredOpenSessions, vars
<1>7. CASE OperatorCloses
  BY <1>1, <1>7, QuietStep DEF OperatorCloses, transitionSession, Sessions
<1>8. CASE expireStaleSessions
  BY <1>1, <1>8, QuietStep DEF expireStaleSessions, transitionSession, Sessions
<1>9. CASE overrideRisk
  <2>1. PICK level \in OperatorLevels :
          session' = [session EXCEPT
            !.risk = level,
            !.panic = IF level # "EMERGENCY" /\ isPanicActive THEN "RESOLVED" ELSE @,
            !.floor = IF level = "NORMAL" THEN "NONE" ELSE level]
    BY <1>9 DEF overrideRisk
  <2>2. /\ session'.episode = session.episode /\ session'.panicCount = session.panicCount
        /\ session'.panic = IF level # "EMERGENCY" /\ isPanicActive
                            THEN "RESOLVED" ELSE session.panic
        /\ panics' = panics
    BY <1>1, <1>9, <2>1 DEF overrideRisk, Sessions
  <2>3. CASE level # "EMERGENCY" /\ isPanicActive
    BY <2>2, <2>3
       DEF isPanicActive, Raisers, Alarm!Next, Alarm!OperatorResolves
  <2>4. CASE ~(level # "EMERGENCY" /\ isPanicActive)
    BY <2>2, <2>4, QuietStep
  <2> QED BY <2>3, <2>4
<1> QED BY <1>2, <1>3, <1>4, <1>5, <1>6, <1>7, <1>8, <1>9 DEF Next

(* The session, its log of panics and everything that runs beside them     *)
(* implement the panic button that Alarm promises.                         *)
THEOREM KeepsTheAlarm == Spec => ImplementsAlarm
<1>1. SafetyInv /\ [Next]_vars =>
        [Alarm!Next]_<<isPanicActive,
                       IF isPanicActive THEN {p \in Participants : findOwnActivePanic(p)} ELSE {},
                       session.panicCount>>
  BY StepAlarm DEF Raisers
<1> QED BY <1>1, InitAlarm, SafetyHolds, PTL DEF Spec, ImplementsAlarm, Alarm!Spec
=============================================================================
