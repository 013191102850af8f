--------------------------- MODULE PaymentStates ---------------------------
(***************************************************************************)
(* The payment state machine of payments/state: the statuses of the        *)
(* payments.status column, the table of transitions with the sources that  *)
(* may trigger each, and the progress order that rejects late webhooks.    *)
(***************************************************************************)
EXTENDS Naturals

PAYMENT_STATUSES ==
  {"CREATED", "AUTHORIZED", "HELD", "SERVICE_COMPLETED", "RELEASE_PENDING",
   "RELEASED", "FAILED", "REFUNDED", "DISPUTED", "AUTHORIZATION_EXPIRED"}

(* Progress rank of the statuses of the happy path; 6 for a side status,   *)
(* which has no rank.                                                      *)
Unranked == 6
progressRank(status) ==
  CASE status = "CREATED"           -> 0
    [] status = "AUTHORIZED"        -> 1
    [] status = "HELD"              -> 2
    [] status = "SERVICE_COMPLETED" -> 3
    [] status = "RELEASE_PENDING"   -> 4
    [] status = "RELEASED"          -> 5
    [] OTHER                        -> Unranked

isBackwardProgress(from, to) ==
  /\ Unranked \notin {progressRank(from), progressRank(to)}
  /\ progressRank(to) < progressRank(from)

TERMINAL_PAYMENT_STATUSES ==
  {"RELEASED", "FAILED", "REFUNDED", "AUTHORIZATION_EXPIRED"}

AUTHORIZED_PAYMENT_STATUSES ==
  {"AUTHORIZED", "HELD", "SERVICE_COMPLETED", "RELEASE_PENDING"}

holdsAuthorization(status) == status \in AUTHORIZED_PAYMENT_STATUSES

(* What findLiveForBooking returns a row for.                              *)
IsLive(status) == status \notin {"FAILED", "AUTHORIZATION_EXPIRED", "REFUNDED"}

(* The table PAYMENT_TRANSITIONS with findPaymentTransition and            *)
(* isSourceAllowed folded in.                                              *)
PaymentTransition(from, to, source) ==
  \/ /\ source \in {"COMMAND", "WEBHOOK"}
     /\ <<from, to>> \in {<<"CREATED", "AUTHORIZED">>, <<"AUTHORIZED", "HELD">>,
                          <<"RELEASE_PENDING", "RELEASED">>,
                          <<"CREATED", "FAILED">>}
  \/ source = "SYSTEM"  /\ from = "HELD" /\ to = "SERVICE_COMPLETED"
  \/ source = "COMMAND" /\ from = "SERVICE_COMPLETED" /\ to = "RELEASE_PENDING"
  \/ /\ source \in {"SYSTEM", "WEBHOOK"}
     /\ from \in {"AUTHORIZED", "HELD", "SERVICE_COMPLETED"}
     /\ to = "AUTHORIZATION_EXPIRED"
  \/ /\ source \in {"COMMAND", "WEBHOOK"}
     /\ from \in AUTHORIZED_PAYMENT_STATUSES \cup {"RELEASED"}
     /\ to = "REFUNDED"
  \/ /\ source \in {"SYSTEM", "WEBHOOK"}
     /\ from \in AUTHORIZED_PAYMENT_STATUSES \cup {"RELEASED"}
     /\ to = "DISPUTED"
  \/ /\ source = "COMMAND" /\ from = "DISPUTED"
     /\ to \in AUTHORIZED_PAYMENT_STATUSES \cup {"REFUNDED"}
=============================================================================
