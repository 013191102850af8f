---------------------------- MODULE MCBackground ----------------------------
(* What must go on, whatever goes wrong on the way: the circuit breaker,   *)
(* the verification of the audit log, the delivery of notifications, a     *)
(* visit in the hands of its two parties, and the upload of its evidence.  *)
(* They share no state and are checked side by side: `scene` names the one *)
(* that a behaviour is about, the others rest.                             *)
EXTENDS CircuitBreaker, AuditChain, NotificationDelivery, BookingScreens,
  Evidence, TLC

CONSTANTS p1, p2

VARIABLE scene  \* the component that runs

backgroundVars == <<scene, breakerVars, auditVars, notificationVars, screenVars, evidenceVars>>

ForTheFirstUser == [j \in {"j1"} |-> "u1"]

BackgroundInit ==
  /\ scene \in {"breaker", "audit", "notification", "screens", "evidence"}
  /\ BreakerInit /\ AuditInit /\ NotificationInit /\ ScreensInit /\ EvidenceInit
  /\ scene # "evidence" => client = "web" /\ picked = CHOOSE f \in Photos : TRUE
  /\ scene # "notification" => /\ \A j \in Jobs : channel[j] = "PUSH"
                               /\ \A d \in Devices : holder[d] = NoOwner

(* A step of one component leaves the others and the choice as they are.   *)
InBreaker ==
  scene = "breaker" /\ UNCHANGED <<scene, auditVars, notificationVars, screenVars, evidenceVars>>
InAudit ==
  scene = "audit" /\ UNCHANGED <<scene, breakerVars, notificationVars, screenVars, evidenceVars>>
InNotification ==
  scene = "notification" /\ UNCHANGED <<scene, breakerVars, auditVars, screenVars, evidenceVars>>
InScreens ==
  scene = "screens" /\ UNCHANGED <<scene, breakerVars, auditVars, notificationVars, evidenceVars>>
InEvidence ==
  scene = "evidence" /\ UNCHANGED <<scene, breakerVars, auditVars, notificationVars, screenVars>>

BackgroundNext ==
  \/ BreakerNext /\ InBreaker
  \/ AuditNext /\ InAudit
  \/ NotificationNext /\ InNotification
  \/ ScreensNext /\ InScreens
  \/ EvidenceNext /\ InEvidence

(* The fairness of the specifications of the components.                   *)
BackgroundSpec ==
  /\ BackgroundInit /\ [][BackgroundNext]_backgroundVars
  /\ \A c \in Callers : /\ WF_backgroundVars(InBreaker /\ asks(c))
                        /\ WF_backgroundVars(InBreaker /\ Answered(c))
  /\ WF_backgroundVars(InBreaker /\ BreakerTick)
  /\ \A v \in Verifiers : WF_backgroundVars(InAudit /\ Verifies(v))
  /\ \A p \in Processes : WF_backgroundVars(InNotification /\ Delivers(p))
  /\ \A j \in Jobs : WF_backgroundVars(InNotification /\ NextAttempt(j))
  /\ \A u \in Parties : /\ WF_backgroundVars(InScreens /\ Refreshes(u))
                        /\ WF_backgroundVars(InScreens /\ GoesOn(u))
  /\ WF_backgroundVars(InScreens /\ Decides)
  /\ WF_backgroundVars(InEvidence /\ Proceeds)

(* The parties who go on with what their screens offer bring the visit to  *)
(* an end: no lost answer, stale screen or spent key leaves them stuck.    *)
VisitEnds == scene = "screens" ~> visit \in {"COMPLETED", "SETTLED", "CANCELLED"}

(* In the web application, who tries again gets the photo through, whatever*)
(* answer was lost and although the signed URL has expired: no             *)
(* registration under way keeps it from a new one.                         *)
PhotoGetsThrough == (scene = "evidence" /\ client = "web") ~> stage = "done"
=============================================================================
