---------------------------- MODULE MCMarketplace ---------------------------
(* The services of the marketplace that share no state with each other:    *)
(* the intake of requests, matching, the solver behind it, identities, the *)
(* approval of providers and their service areas, the authorization of     *)
(* payments, their reconciliation and the export of events; and, with      *)
(* larger instances than MCBackground's, the audit log and the             *)
(* notifications.  They are checked side by side: `scene` names the one    *)
(* that a behaviour is about, the others rest.                             *)
EXTENDS Intake, Matching, MCSolver, Identity, AuditChain, NotificationDelivery,
        Analytics, Reconciliation, ServiceAreas, Onboarding, PaymentAuthorization, TLC

VARIABLE scene  \* the component that runs

serviceVars == <<intakeVars, matchingVars, solverVars, identityVars, auditVars, notificationVars>>
officeVars == <<analyticsVars, reconciliationVars, areaVars, onboardingVars, authorizationVars>>
marketplaceVars == <<scene, serviceVars, officeVars>>

-----------------------------------------------------------------------------
(* Intake: answers around every bound, and two forms.                      *)
TheAnswers == [parsed : BOOLEAN, confidence : {59, 60, 120}, minutes : {20, 90},
               start : {600, 1410}, end : {540, 660, 720, 1440}]
TheForms == {[from |-> 540, to |-> 600, minutes |-> m, confidence |-> 100] : m \in {60, 90}}

(* Matching: two requests that overlap, one of them past the end of its    *)
(* day; q provides, and asks for help.                                     *)
TheDemand ==
  <<[from |-> 0, to |-> 2, minutes |-> 1, customer |-> "c", skilled |-> {"p"}],
    [from |-> 1, to |-> 3, minutes |-> 1, customer |-> "q", skilled |-> {"p", "q"}]>>
TheDistance == ("p" :> 1) @@ ("q" :> 2)
TheWindows == {[provider |-> "p", from |-> 0, to |-> 3], [provider |-> "q", from |-> 1, to |-> 2]}
TheExceptions == {[provider |-> "p", from |-> 0, to |-> 1]}
TheProposals == {[provider |-> "p", from |-> i[1], to |-> i[2]] : i \in {<<0, 2>>, <<2, 3>>}}
TheWishes == {[provider |-> "p", from |-> 0, to |-> 2]}
TheCapacities == ("p" :> {1, 2}) @@ ("q" :> {1})

(* Identities: the owner of an account that lost its subject, the empty    *)
(* account registered instead, an operator, and one that comes late.       *)
TheAccounts == {"owner", "shell", "staff", "late"}
TheRegistered == TheAccounts \ {"late"}
TheSubjects == {"s1", "s2", "s3"}
TheFirstSubject == ("owner" :> "s1") @@ ("shell" :> "s2") @@ ("staff" :> "s3")

(* Notifications: one job for u1.                                          *)
ForTheFirstUser == [j \in {"j1"} |-> "u1"]
-----------------------------------------------------------------------------
(* Two of a kind that do the same may change places.                       *)
Twins == {Matchers, Callers, Writers, Verifiers, Processes, Exporters, Admins, Buyers}
Twin(x) == CHOOSE y \in UNION Twins : {x, y} \in Twins
TheSymmetry == {[x \in UNION Twins |-> IF swapped THEN Twin(x) ELSE x] : swapped \in BOOLEAN}
-----------------------------------------------------------------------------
(* The inputs of a component that rests are fixed.                         *)
MarketplaceInit ==
  /\ scene \in {"intake", "matching", "solver", "identity", "audit", "notification",
                 "analytics", "reconciliation", "areas", "onboarding",
                 "authorization"}
  /\ AnalyticsInit /\ ReconciliationInit /\ AreasInit /\ OnboardingInit
  /\ AuthorizationInit
  /\ IntakeInit /\ MatchingInit /\ SolverInit /\ IdentityInit /\ AuditInit /\ NotificationInit
  /\ scene # "intake" => rate = 0 /\ pricing = "HOURLY"
  /\ scene # "solver" => \A p \in Workers : /\ calendar[p] = {[from |-> 0, to |-> 12]}
                                            /\ room[p] = 1 /\ score[p] = 20
  /\ scene # "notification" => /\ \A j \in Jobs : channel[j] = "PUSH"
                               /\ \A d \in Devices : holder[d] = NoOwner

MarketplaceNext ==
  \/ /\ scene = "intake" /\ IntakeNext
     /\ UNCHANGED <<scene, officeVars, matchingVars, solverVars, identityVars, auditVars, notificationVars>>
  \/ /\ scene = "matching" /\ MatchingNext
     /\ UNCHANGED <<scene, officeVars, intakeVars, solverVars, identityVars, auditVars, notificationVars>>
  \/ /\ scene = "solver" /\ SolverNext
     /\ UNCHANGED <<scene, officeVars, intakeVars, matchingVars, identityVars, auditVars, notificationVars>>
  \/ /\ scene = "identity" /\ IdentityNext
     /\ UNCHANGED <<scene, officeVars, intakeVars, matchingVars, solverVars, auditVars, notificationVars>>
  \/ /\ scene = "audit" /\ AuditNext
     /\ UNCHANGED <<scene, officeVars, intakeVars, matchingVars, solverVars, identityVars, notificationVars>>
  \/ /\ scene = "notification" /\ NotificationNext
     /\ UNCHANGED <<scene, officeVars, intakeVars, matchingVars, solverVars, identityVars, auditVars>>
  \/ /\ scene = "analytics" /\ AnalyticsNext
     /\ UNCHANGED <<scene, serviceVars, reconciliationVars, areaVars, onboardingVars, authorizationVars>>
  \/ /\ scene = "reconciliation" /\ ReconciliationNext
     /\ UNCHANGED <<scene, serviceVars, analyticsVars, areaVars, onboardingVars, authorizationVars>>
  \/ /\ scene = "areas" /\ AreasNext
     /\ UNCHANGED <<scene, serviceVars, analyticsVars, reconciliationVars, onboardingVars, authorizationVars>>
  \/ /\ scene = "onboarding" /\ OnboardingNext
     /\ UNCHANGED <<scene, serviceVars, analyticsVars, reconciliationVars, areaVars, authorizationVars>>
  \/ /\ scene = "authorization" /\ AuthorizationNext
     /\ UNCHANGED <<scene, serviceVars, analyticsVars, reconciliationVars, areaVars, onboardingVars>>

MarketplaceSpec == MarketplaceInit /\ [][MarketplaceNext]_marketplaceVars
=============================================================================
