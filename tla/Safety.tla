------------------------------- MODULE Safety -------------------------------
(***************************************************************************)
(* The safety session of one visit: what the booking does to it, the panic *)
(* button of both participants, the evaluators that assess its risk, the   *)
(* operator, and the clean-up of old sessions.                             *)
(*                                                                         *)
(* Every write locks the session's row, so a transaction is one step.  What*)
(* is read before the lock is a step of its own: the session an evaluator  *)
(* reads before it asks the anomaly service, and the sessions that the     *)
(* clean-up selects.                                                       *)
(***************************************************************************)
EXTENDS BookingStates, SafetyStates

CONSTANTS
  Participants,  \* the provider and the customer of the visit
  Evaluators,    \* evaluations under way at a time, over all instances
  Situations,    \* what the rules and the anomaly service may observe
  OperatorLevels,\* bound: the levels an operator sets
  MaxEpisodes    \* bound: emergencies of the session

ASSUME SituationsAssumption ==
  \A s \in Situations :
    /\ s.anomaly.flagged \in BOOLEAN
    /\ ObservedRisk(s.findings, s.anomaly) \in {"NORMAL", "WARNING", "HIGH_RISK"}
ASSUME OperatorLevelsAssumption == OperatorLevels \subseteq RISK_LEVELS
ASSUME MaxEpisodesAssumption == MaxEpisodes \in Nat

VARIABLES
  booking,     \* status of the booking
  session,     \* its row in safety_sessions
  panics,      \* PANIC_RAISED events: who, in which emergency
  evaluator,   \* progress of each evaluation and what it has read
  situation,   \* what can be observed of the visit at the moment
  expiring,    \* has the clean-up selected the session?
  alerted,     \* has an alert been sent since the risk became alarming?
  ordered      \* the alarming level an operator has set, until it changes

vars == <<booking, session, panics, evaluator, situation, expiring,
          alerted, ordered>>

(* "NONE" before there is a row; a session is inserted as PRE_SERVICE.     *)
Statuses == (SAFETY_SESSION_STATUSES \ {"NOT_STARTED"}) \cup {"NONE"}

(* floor is risk_floor while risk_floor_until lies ahead; due tells that   *)
(* next_evaluation_at is over.  The retention of the location trace, which *)
(* the same statements extend, is left out.                                *)
Sessions ==
  [status : Statuses, risk : RISK_LEVELS, floor : RISK_LEVELS \cup {"NONE"},
   panic : {"NONE", "ACTIVE", "RESOLVED"}, episode : Nat, panicCount : Nat,
   due : BOOLEAN, closure : SAFETY_CLOSURE_REASONS \cup {"NONE"}]

NoSession ==
  [status |-> "NONE", risk |-> "NORMAL", floor |-> "NONE", panic |-> "NONE",
   episode |-> 0, panicCount |-> 0, due |-> FALSE, closure |-> "NONE"]

isPanicActive == session.panic = "ACTIVE"
IsOpen == session.status \notin {"NONE", "CLOSED"}

Resting == [pc |-> "idle", level |-> "NORMAL"]

Init ==
  /\ booking = "PAYMENT_AUTHORIZED"
  /\ session = NoSession
  /\ panics = {}
  /\ situation \in Situations
  /\ evaluator = [e \in Evaluators |-> Resting]
  /\ expiring = FALSE /\ alerted = FALSE /\ ordered = "NONE"
-----------------------------------------------------------------------------
(* The row.                                                                *)

(* The first evaluation is due at once; a closed session is not evaluated. *)
transitionSession(s, to, reason) ==
  [s EXCEPT !.status = to,
            !.due = IF acceptsTelemetry(to) THEN TRUE
                    ELSE IF to = "CLOSED" THEN FALSE ELSE @,
            !.closure = IF to = "CLOSED" THEN reason ELSE @]

(* The session after a step of the booking, and whether it lets the step   *)
(* pass: a visit in an emergency may not end.  A closed session is never   *)
(* opened again, and one that is ahead of the booking stays where it is.   *)
onBookingTransition(s, to) ==
  LET effect == safetyEffectForBooking(to)
      opened == IF s.status = "NONE" THEN [s EXCEPT !.status = "PRE_SERVICE"] ELSE s
  IN  IF \/ effect.target = "NONE" \/ s.status = "CLOSED"
         \/ s.status = "NONE" /\ effect.target = "CLOSED"
      THEN [allowed |-> TRUE, session |-> s]
      ELSE [allowed |-> ~(effect.target = "CLOSED" /\ s.panic = "ACTIVE"),
            session |-> IF forwardPath(opened.status, effect.target) /\ opened.status # effect.target
                        THEN transitionSession(opened, effect.target, effect.reason)
                        ELSE opened]

(* A party, the system or an operator moves the booking.                   *)
BookingStep ==
  /\ \E to \in BOOKING_STATUSES, actor \in Actors :
       /\ TransitionAllowed(booking, to, actor)
       /\ onBookingTransition(session, to).allowed
       /\ booking' = to
       /\ session' = onBookingTransition(session, to).session
  /\ UNCHANGED <<panics, evaluator, situation, expiring, alerted, ordered>>
-----------------------------------------------------------------------------
(* The panic button.                                                       *)

findOwnActivePanic(p) == isPanicActive /\ <<p, session.episode>> \in panics

(* mutation: whether it is a repetition is not looked up under the lock    *)
TrustPreview(p) == acceptsTelemetry(session.status)

(* Both checks of the preview, which reads without a lock, are made again  *)
(* under the locks of the booking and the session.  A request that the     *)
(* preview answers or refuses has changed nothing, and neither has one     *)
(* that is rolled back by a deadlock and tried again.                      *)
MayRaise(p) == ~findOwnActivePanic(p) /\ acceptsTelemetry(session.status)

(* mutation: a new emergency leaves the level to the next evaluation       *)
markPanicQuietly(s) ==
  [s EXCEPT !.panic = "ACTIVE", !.episode = @ + 1, !.panicCount = @ + 1]

(* markPanic begins an emergency.                                          *)
markPanic(s) ==
  [s EXCEPT !.panic = "ACTIVE", !.episode = @ + 1, !.panicCount = @ + 1,
            !.risk = "EMERGENCY"]

addPanicRaiser(s) == [s EXCEPT !.panicCount = @ + 1]

(* SYSTEM puts the booking on hold under a savepoint: whatever fails there *)
(* undoes the hold and nothing else.                                       *)
applyBookingHold ==
  \/ UNCHANGED booking
  \/ /\ TransitionAllowed(booking, "SAFETY_HOLD", "SYSTEM")
     /\ booking' = "SAFETY_HOLD"

raise(p) ==
  /\ MayRaise(p)
  /\ isPanicActive \/ session.episode < MaxEpisodes
  /\ session' = IF isPanicActive THEN addPanicRaiser(session) ELSE markPanic(session)
  /\ panics' = panics \cup {<<p, session'.episode>>}
  /\ applyBookingHold
  /\ alerted' = TRUE
  /\ UNCHANGED <<evaluator, situation, expiring, ordered>>
-----------------------------------------------------------------------------
(* The evaluators.                                                         *)

(* An evaluator claims a due session for the length of an interval, in a   *)
(* statement that skips locked rows.                                       *)
claimDueSessions ==
  /\ acceptsTelemetry(session.status) /\ session.due
  /\ session' = [session EXCEPT !.due = FALSE]

(* It reads the session and the signals, asks the anomaly service, and     *)
(* computes the outcome from what it has read.  Nothing is locked; that it *)
(* reads right after its claim leaves out no outcome, for whatever happens *)
(* in between may as well happen before the claim.                         *)
evaluate(e) ==
  /\ evaluator[e].pc = "idle"
  /\ claimDueSessions
  /\ evaluator' = [evaluator EXCEPT ![e] =
       [pc |-> "assessing",
        level |-> aggregateRisk(situation.findings, situation.anomaly, isPanicActive)]]
  /\ UNCHANGED <<booking, panics, situation, expiring, alerted, ordered>>

(* The level that persist applies: the outcome was computed before, the    *)
(* panic and the floor are those under the lock.                           *)
AppliedLevel(level) ==
  resolveAppliedLevel(session.risk, IF isPanicActive THEN "EMERGENCY" ELSE level,
                      session.floor)

(* An alert goes to the outbox when the level rises to an alarming one.    *)
SendsAlert(previous, applied) ==
  riskRank(applied) > riskRank(previous) /\ Alarming(applied)

(* Under the lock: nothing for a session that no longer runs.              *)
persist(e) ==
  LET previous == session.risk
      applied == AppliedLevel(evaluator[e].level)
  IN  /\ evaluator[e].pc = "assessing"
      /\ IF acceptsTelemetry(session.status)
         THEN /\ session' = [session EXCEPT !.risk = applied, !.due = FALSE]
              /\ alerted' = (Alarming(applied) /\ (alerted \/ SendsAlert(previous, applied)))
              /\ ordered' = IF applied = previous THEN ordered ELSE "NONE"
         ELSE UNCHANGED <<session, alerted, ordered>>
      /\ evaluator' = [evaluator EXCEPT ![e] = Resting]
      /\ UNCHANGED <<booking, panics, situation, expiring>>

EvaluationFails(e) ==
  /\ evaluator[e].pc # "idle"
  /\ evaluator' = [evaluator EXCEPT ![e] = Resting]
  /\ UNCHANGED <<booking, session, panics, situation, expiring, alerted, ordered>>

NeverDue == FALSE /\ UNCHANGED vars  \* mutation: an evaluation plans no other

(* The interval since the last claim or evaluation is over.                *)
FallsDue ==
  /\ acceptsTelemetry(session.status) /\ ~session.due
  /\ session' = [session EXCEPT !.due = TRUE]
  /\ UNCHANGED <<booking, panics, evaluator, situation, expiring, alerted, ordered>>

(* The visit goes on: what can be observed of it changes.                  *)
SituationChanges ==
  /\ \E s \in Situations \ {situation} : situation' = s
  /\ UNCHANGED <<booking, session, panics, evaluator, expiring, alerted, ordered>>
-----------------------------------------------------------------------------
(* The operator.                                                           *)

(* Any level but EMERGENCY resolves the emergency; NORMAL lifts the floor. *)
overrideRisk ==
  \E level \in OperatorLevels :
    /\ IsOpen
    /\ session' = [session EXCEPT
         !.risk = level,
         !.panic = IF level # "EMERGENCY" /\ isPanicActive THEN "RESOLVED" ELSE @,
         !.floor = IF level = "NORMAL" THEN "NONE" ELSE level]
    /\ ordered' = IF Alarming(level) THEN level ELSE "NONE"
    /\ alerted' = (alerted /\ Alarming(level))
    /\ UNCHANGED <<booking, panics, evaluator, situation, expiring>>

FloorExpires ==
  /\ session.floor # "NONE"
  /\ session' = [session EXCEPT !.floor = "NONE"]
  /\ UNCHANGED <<booking, panics, evaluator, situation, expiring, alerted, ordered>>

OperatorCloses ==
  /\ IsOpen /\ ~isPanicActive
  /\ session' = transitionSession(session, "CLOSED", "OPERATOR_CLOSED")
  /\ UNCHANGED <<booking, panics, evaluator, situation, expiring, alerted, ordered>>
-----------------------------------------------------------------------------
(* The clean-up.                                                           *)

(* The visit should have ended twelve hours ago, and no one worries.       *)
findExpiredOpenSessions ==
  /\ ~expiring
  /\ IsOpen /\ ~Alarming(session.risk)
  /\ expiring' = TRUE
  /\ UNCHANGED <<booking, session, panics, evaluator, situation, alerted, ordered>>

expireStaleSessions ==
  /\ expiring
  /\ session' = IF ~IsOpen \/ Alarming(session.risk) THEN session
                ELSE transitionSession(session, "CLOSED", "EXPIRED")
  /\ expiring' = FALSE
  /\ UNCHANGED <<booking, panics, evaluator, situation, alerted, ordered>>
-----------------------------------------------------------------------------
Next ==
  \/ BookingStep
  \/ \E p \in Participants : raise(p)
  \/ \E e \in Evaluators : evaluate(e) \/ persist(e) \/ EvaluationFails(e)
  \/ FallsDue \/ SituationChanges
  \/ overrideRisk \/ FloorExpires \/ OperatorCloses
  \/ findExpiredOpenSessions \/ expireStaleSessions

Spec == Init /\ [][Next]_vars

(* The monitor's timer goes on, and evaluations fail finitely often.       *)
Fairness ==
  /\ WF_vars(\E e \in Evaluators : evaluate(e))
  /\ \A e \in Evaluators : WF_vars(persist(e))
  /\ WF_vars(FallsDue)
  /\ <>[][\A e \in Evaluators : ~EvaluationFails(e)]_vars

FairSpec == Spec /\ Fairness
-----------------------------------------------------------------------------
(* Properties.                                                             *)

Running == {"PROVIDER_ARRIVING", "CHECKED_IN", "IN_PROGRESS"}
Ended == {"CHECKED_OUT", "CUSTOMER_CONFIRMED", "COMPLETED", "SETTLED",
          "CANCELLED", "DISPUTED"}

TypeOK ==
  /\ booking \in Running \cup Ended \cup
                 {"PAYMENT_AUTHORIZED", "SCHEDULED", "SAFETY_HOLD"}
  /\ session \in Sessions
  /\ panics \subseteq Participants \X Nat
  /\ evaluator \in [Evaluators -> [pc : {"idle", "assessing"},
                                   level : RISK_LEVELS]]
  /\ situation \in Situations
  /\ expiring \in BOOLEAN /\ alerted \in BOOLEAN
  /\ ordered \in {"NONE", "HIGH_RISK", "EMERGENCY"}

(* The log holds no event of an emergency that has not begun.              *)
LogIsPast == \A entry \in panics : entry[2] <= session.episode

(* A closed session has a reason, and no other has.                        *)
ClosureHasReason ==
  /\ session.closure # "NONE" <=> session.status = "CLOSED"
  /\ session.closure = "BOOKING_CANCELLED" => booking = "CANCELLED"

(* As long as a panic is not resolved the session runs at EMERGENCY, and   *)
(* the visit is under way or on hold: no evaluation that began before it,  *)
(* no clean-up, no check-out and no cancellation gets past it.             *)
PanicIsEmergency ==
  isPanicActive =>
    /\ acceptsTelemetry(session.status)
    /\ session.risk = "EMERGENCY"
    /\ booking \in Running \cup {"SAFETY_HOLD"}

(* An open session is where its booking is, and a visit that has ended has *)
(* no open session.  Behind the booking is only a session that an operator *)
(* or the clean-up has closed, and that of a visit which was put on hold   *)
(* after its check-out and goes on.                                        *)
SessionFollowsBooking ==
  /\ booking = "PAYMENT_AUTHORIZED" => session.status = "NONE"
  /\ booking \in Ended => ~IsOpen
  /\ booking \in Running \cup {"SCHEDULED"} =>
       \/ session.status = safetyEffectForBooking(booking).target
       \/ /\ session.status = "CLOSED"
          /\ \/ session.closure \in {"OPERATOR_CLOSED", "EXPIRED"}
             \/ session.closure = "SERVICE_COMPLETED" /\ booking = "IN_PROGRESS"

(* A visit that is under way is monitored, whatever was held before, as    *)
(* long as neither an operator nor the clean-up has closed its session.    *)
WorkIsMonitored ==
  booking = "IN_PROGRESS" =>
    \/ session.status = "ACTIVE"
    \/ session.closure \in {"OPERATOR_CLOSED", "EXPIRED"}

(* No evaluation takes the level below what an operator has set, as long as*)
(* the decision stands.                                                    *)
FloorHolds == session.floor # "NONE" => riskRank(session.risk) >= riskRank(session.floor)

(* Someone knows of every alarming level: an alert has left with it, or an *)
(* operator has set it.                                                    *)
AlarmingIsKnown ==
  Alarming(session.risk) => alerted \/ Alarming(ordered)

(* The clean-up has closed no session that was at an alarming level.       *)
ExpiredWasCalm == session.closure = "EXPIRED" => ~Alarming(session.risk)

(* EMERGENCY falls only by an operator's decision.                         *)
EmergencyEndsByOperator ==
  [][session.risk = "EMERGENCY" /\ session'.risk # "EMERGENCY" => overrideRisk]_vars

(* EMERGENCY has a cause at hand: a panic that is not resolved, or the     *)
(* decision of an operator.                                                *)
EmergencyHasACause ==
  session.risk = "EMERGENCY" => isPanicActive \/ ordered = "EMERGENCY"

SafetyInv ==
  /\ TypeOK /\ LogIsPast /\ ClosureHasReason /\ PanicIsEmergency
  /\ SessionFollowsBooking /\ FloorHolds /\ AlarmingIsKnown /\ ExpiredWasCalm

OperatorIsDone == <>[][~overrideRisk]_vars

(* A danger that lasts is seen: when the rules go on finding a high risk   *)
(* in a session that runs on, and no operator speaks against it, the level *)
(* becomes alarming and stays so, whatever older evaluations still write.  *)
RiskCatchesUp ==
  /\ OperatorIsDone
  /\ <>[](/\ acceptsTelemetry(session.status)
          /\ ObservedRisk(situation.findings, situation.anomaly) = "HIGH_RISK")
  => <>[]Alarming(session.risk)
-----------------------------------------------------------------------------
Alarm == INSTANCE Alarm WITH
  on <- isPanicActive,
  raisers <- IF isPanicActive THEN {p \in Participants : findOwnActivePanic(p)} ELSE {},
  reports <- session.panicCount

(* The session, the log of panics, and everything that runs beside them    *)
(* keep the promise of the panic button.                                   *)
ImplementsAlarm == Alarm!Spec
=============================================================================
