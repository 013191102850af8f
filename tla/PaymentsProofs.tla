--------------------------- MODULE PaymentsProofs ---------------------------
(***************************************************************************)
(* What Payments guarantees for every number of callers, every amount and  *)
(* every bound.                                                            *)
(***************************************************************************)
EXTENDS PaymentsEscrow, FiniteSetTheorems, TLAPS

(* Writing the payments row keeps it a row, with the status asked for.     *)
LEMMA UpdateStatusFacts ==
  ASSUME NEW row \in Payment, NEW status \in PAYMENT_STATUSES,
         NEW origin \in PAYMENT_STATUSES \cup {"NONE"}
  PROVE  /\ UpdateStatus(row, status, origin) \in Payment
         /\ UpdateStatus(row, status, origin).status = status
         /\ UpdateStatus(row, status, origin).refunded = row.refunded
         /\ status = "DISPUTED" /\ origin # "NONE" =>
              UpdateStatus(row, status, origin).frozenFrom = origin
  BY DEF UpdateStatus, Payment

(* The plans of freezeForDispute, unfreeze and markServiceCompleted are    *)
(* statuses of the table, and none of them is CREATED.                     *)
LEMMA WriteFacts ==
  ASSUME NEW row \in Payment, NEW stillOpen \in BOOLEAN
  PROVE  /\ \A w \in {markServiceCompleted(row), freezeForDispute(row),
                      unfreeze(row, stillOpen)} :
              /\ w \in [status : PAYMENT_STATUSES \cup {"NONE"},
                        origin : PAYMENT_STATUSES \cup {"NONE"}]
              /\ w.status # "CREATED"
         /\ row.status = "DISPUTED" => freezeForDispute(row) = NoWrite
         /\ stillOpen => unfreeze(row, stillOpen) = NoWrite
  BY DEF markServiceCompleted, freezeForDispute, unfreeze, NoWrite, Write,
         Payment, PAYMENT_STATUSES, PaymentTransition, AUTHORIZED_PAYMENT_STATUSES,
         IsLive

(* The keys of an operation are keys, and a claim only ever makes a row    *)
(* PENDING.                                                                *)
LEMMA ClaimFacts ==
  ASSUME command \in [Keys -> {"NONE", "PENDING", "SUCCEEDED", "FAILED"}],
         NEW keys \in SUBSET Keys, NEW key \in keys, ClaimCommand(keys, key)
  PROVE  /\ command' \in [Keys -> {"NONE", "PENDING", "SUCCEEDED", "FAILED"}]
         /\ command'[key] = "PENDING"
         /\ \A k \in Keys : k # key => command'[k] = command[k]
         /\ \/ command' = command
            \/ command[key] = "NONE" /\ \A k \in keys : command[k] # "PENDING"
  BY DEF ClaimCommand, Pending

LEMMA KeyFacts ==
  /\ CaptureKeys \subseteq Keys
  /\ RefundKeys \subseteq Keys
  /\ ReauthorizeKeys \subseteq Keys
  /\ CaptureKeys \cap RefundKeys = {}
  /\ CaptureKeys \cap ReauthorizeKeys = {}
  BY DEF Keys, CaptureKeys, RefundKeys, ReauthorizeKeys, AttemptKeys

LEMMA IdleType == Idle \in Call /\ Idle.pc = "idle"
  BY AmountAssumption DEF Idle, Call, NoKey

(* A claimed command and the request that follows it.                      *)
LEMMA SendType ==
  ASSUME TypeOK, NEW c \in Callers, NEW key \in Keys, NEW amount \in 0..Amount,
         NEW seen \in PAYMENT_STATUSES \cup {"NONE"}, Send(c, key, amount, seen),
         c \in Reauthorizers => seen # "NONE"
  PROVE  /\ call' \in [Callers -> Call]
         /\ \A d \in Reauthorizers : call'[d].pc = "sent" => call'[d].seen # "NONE"
         /\ requests' \subseteq [key : Keys, amount : 0..Amount]
  BY DEF Send, TypeOK, Call, Callers

LEMMA CompleteType ==
  ASSUME TypeOK, NEW c \in Callers, NEW status \in {"SUCCEEDED", "FAILED"},
         CompleteCommand(c, status)
  PROVE  /\ call' \in [Callers -> Call]
         /\ \A d \in Reauthorizers : call'[d].pc = "sent" => call'[d].seen # "NONE"
         /\ command' \in [Keys -> {"NONE", "PENDING", "SUCCEEDED", "FAILED"}]
  BY IdleType DEF CompleteCommand, TypeOK, Callers

(* A row whose authorization was renewed once more.                        *)
LEMMA RenewType ==
  ASSUME NEW row \in Payment
  PROVE  [row EXCEPT !.lapsed = FALSE, !.reauths = @ + 1] \in Payment
<1>1. row.reauths + 1 \in Nat
  BY DEF Payment
<1> DEFINE n == row.reauths + 1
<1> HIDE DEF n
<1>2. [row EXCEPT !.lapsed = FALSE, !.reauths = n] \in Payment
  BY <1>1 DEF Payment, n
<1> QED
  BY <1>2 DEF n

LEMMA InitTypeOK == Init => TypeOK
<1> SUFFICES ASSUME Init PROVE TypeOK
  OBVIOUS
<1>1. payment \in Payment
  BY AmountAssumption DEF Init, Payment, PAYMENT_STATUSES
<1>2. booking \in BOOKING_STATUSES /\ bookingTx \in BookingTx
  BY DEF Init, BOOKING_STATUSES, BookingTx
<1>3. call \in [Callers -> Call] /\ \A c \in Reauthorizers : call[c].pc # "sent"
  BY IdleType DEF Init, Callers
<1>4. /\ command \in [Keys -> {"NONE", "PENDING", "SUCCEEDED", "FAILED"}]
      /\ provider \in [Keys -> {"NONE", "EXECUTED", "DECLINED"}]
  BY DEF Init
<1>5. disputes \in Nat /\ providerRefunded \in 0..Amount
  BY AmountAssumption DEF Init
<1>6. /\ leaseOver \subseteq Keys
      /\ requests \subseteq [key : Keys, amount : 0..Amount]
      /\ webhooks \subseteq WebhookTypes
  BY DEF Init
<1>7. /\ disputeOpen \in BOOLEAN
      /\ resolution \in PAYMENT_STATUSES \cup {"NONE", "KEEP"}
  BY DEF Init
<1> QED
  BY <1>1, <1>2, <1>3, <1>4, <1>5, <1>6, <1>7 DEF TypeOK

LEMMA NextTypeOK == TypeOK /\ [Next]_vars => TypeOK'
<1> SUFFICES ASSUME TypeOK, [Next]_vars PROVE TypeOK'
  OBVIOUS
<1> USE DEF rows, txs, books, outside
<1>1. CASE UserTransition
  BY <1>1 DEF UserTransition, Transition, TypeOK, BOOKING_STATUSES
<1>2. ASSUME NEW to \in BOOKING_STATUSES, NEW opens \in BOOLEAN,
             NEW write \in [status : PAYMENT_STATUSES \cup {"NONE"},
                            origin : PAYMENT_STATUSES \cup {"NONE"}],
             BeginTx(to, write, opens)
      PROVE  TypeOK'
  BY <1>2 DEF BeginTx, TypeOK, BookingTx
<1>3. CASE Confirm \/ StartService \/ SafetyHold \/ OpenDispute
  <2>1. payment \in Payment /\ disputeOpen \in BOOLEAN
    BY DEF TypeOK
  <2>2. booking \in BOOKING_STATUSES
    BY DEF TypeOK
  <2>3. {"COMPLETED", "IN_PROGRESS", "SAFETY_HOLD", "DISPUTED"} \subseteq BOOKING_STATUSES
    BY DEF BOOKING_STATUSES
  <2> QED
    BY <1>2, <1>3, <2>1, <2>2, <2>3, WriteFacts
    DEF Confirm, StartService, SafetyHold, OpenDispute
<1>4. CASE CommitTx
  <2>1. payment' \in Payment
    BY <1>4, UpdateStatusFacts DEF CommitTx, Apply, TypeOK, BookingTx
  <2>2. booking' \in BOOKING_STATUSES
    BY <1>4 DEF CommitTx, TypeOK, BookingTx, NoTx
  <2> QED
    BY <1>4, <2>1, <2>2 DEF CommitTx, TypeOK, NoTx, NoWrite, BookingTx
<1>5. CASE RollbackTx
  BY <1>5 DEF RollbackTx, TypeOK, NoTx, NoWrite, BookingTx
<1>6. CASE BeginResolve
  BY <1>6, WriteFacts DEF BeginResolve, TypeOK, NoWrite, unfreeze, Write, Payment
<1>7. CASE CommitResolve
  <2>1. payment' \in Payment
    BY <1>7, UpdateStatusFacts DEF CommitResolve, TypeOK
  <2> QED
    BY <1>7, <2>1 DEF CommitResolve, TypeOK, BOOKING_STATUSES
<1>8. CASE RollbackResolve
  BY <1>8 DEF RollbackResolve, TypeOK
<1>9. ASSUME NEW w \in Workers, TickSelect(w) PROVE TypeOK'
  BY <1>9 DEF TickSelect, TypeOK, Call, Callers
<1>10. ASSUME NEW c \in Operators \cup Workers, ReleasePrepare(c) PROVE TypeOK'
  <2>1. PICK key \in CaptureKeys :
          ClaimCommand(CaptureKeys, key) /\ Send(c, key, Amount, "NONE")
    BY <1>10 DEF ReleasePrepare
  <2>2. payment' \in Payment
    BY <1>10, UpdateStatusFacts DEF ReleasePrepare, TypeOK, PAYMENT_STATUSES
  <2>3. Amount \in 0..Amount /\ c \in Callers /\ c \notin Reauthorizers
    BY AmountAssumption, CallersAssumption DEF Callers
  <2>4. command' \in [Keys -> {"NONE", "PENDING", "SUCCEEDED", "FAILED"}]
    BY <2>1, ClaimFacts, KeyFacts DEF TypeOK
  <2>5. /\ call' \in [Callers -> Call]
        /\ requests' \subseteq [key : Keys, amount : 0..Amount]
        /\ \A d \in Reauthorizers : call'[d].pc = "sent" => call'[d].seen # "NONE"
    BY <2>1, <2>3, SendType, KeyFacts
  <2> QED
    BY <1>10, <2>2, <2>4, <2>5 DEF ReleasePrepare, TypeOK
<1>11. ASSUME NEW c \in Operators \cup Workers, ReleaseFinalise(c) PROVE TypeOK'
  <2>1. payment' \in Payment
    BY <1>11, UpdateStatusFacts DEF ReleaseFinalise, TypeOK, PAYMENT_STATUSES
  <2> QED
    BY <1>11, <2>1, CompleteType
    DEF ReleaseFinalise, TypeOK, BOOKING_STATUSES, Callers
<1>12. ASSUME NEW c \in Refunders, RefundPrepare(c) PROVE TypeOK'
  <2>1. PICK amount \in 1..(Amount - payment.refunded), key \in RefundKeys :
          ClaimCommand(RefundKeys, key) /\ Send(c, key, amount, "NONE")
    BY <1>12 DEF RefundPrepare
  <2>2. amount \in 0..Amount /\ c \in Callers /\ c \notin Reauthorizers
    BY AmountAssumption, CallersAssumption DEF TypeOK, Payment, Callers
  <2>3. command' \in [Keys -> {"NONE", "PENDING", "SUCCEEDED", "FAILED"}]
    BY <2>1, ClaimFacts, KeyFacts DEF TypeOK
  <2>4. /\ call' \in [Callers -> Call]
        /\ requests' \subseteq [key : Keys, amount : 0..Amount]
        /\ \A d \in Reauthorizers : call'[d].pc = "sent" => call'[d].seen # "NONE"
    BY <2>1, <2>2, SendType, KeyFacts
  <2> QED
    BY <1>12, <2>3, <2>4 DEF RefundPrepare, TypeOK
<1>13. ASSUME NEW c \in Refunders, RefundFinalise(c) PROVE TypeOK'
  <2> DEFINE total == payment.refunded + call[c].amount
             row == [payment EXCEPT !.refunded = total]
  <2>1. c \in Callers
    BY DEF Callers
  <2>2. row \in Payment
    BY <1>13, <2>1, AmountAssumption
    DEF RefundFinalise, RowAllowed, TypeOK, Payment, Call
  <2>3. payment' \in Payment
    BY <1>13, <2>2, UpdateStatusFacts DEF RefundFinalise, PAYMENT_STATUSES
  <2> QED
    BY <1>13, <2>1, <2>3, CompleteType DEF RefundFinalise, TypeOK
<1>14. ASSUME NEW c \in Reauthorizers, ReauthorizePrepare(c) PROVE TypeOK'
  <2> DEFINE key == <<"REAUTHORIZE", payment.reauths + 2>>
  <2>1. key \in Keys /\ c \in Callers
    BY <1>14, BoundsAssumption
    DEF ReauthorizePrepare, TypeOK, Payment, Keys, ReauthorizeKeys, Callers
  <2>2. 0 \in 0..Amount /\ payment.status \in PAYMENT_STATUSES /\ payment.status # "NONE"
    BY AmountAssumption DEF TypeOK, Payment, PAYMENT_STATUSES
  <2>3. /\ call' \in [Callers -> Call]
        /\ requests' \subseteq [key : Keys, amount : 0..Amount]
        /\ \A d \in Reauthorizers : call'[d].pc = "sent" => call'[d].seen # "NONE"
    BY <1>14, <2>1, <2>2, SendType DEF ReauthorizePrepare
  <2> QED
    BY <1>14, <2>1, <2>3 DEF ReauthorizePrepare, TypeOK
<1>15. ASSUME NEW c \in Reauthorizers, ReauthorizeFinalise(c) PROVE TypeOK'
  <2>1. c \in Callers
    BY DEF Callers
  <2>2. call[c].seen \in PAYMENT_STATUSES
    BY <1>15, <2>1 DEF ReauthorizeFinalise, Answered, TypeOK, Call
  <2>3. UpdateStatus(payment, call[c].seen, "NONE") \in Payment
    BY <2>2, UpdateStatusFacts DEF TypeOK
  <2>4. payment' \in Payment
    BY <1>15, <2>3, RenewType DEF ReauthorizeFinalise
  <2> QED
    BY <1>15, <2>1, <2>4, CompleteType DEF ReauthorizeFinalise, TypeOK
<1>16. ASSUME NEW c \in Callers, RecordDecline(c) PROVE TypeOK'
  BY <1>16, CompleteType DEF RecordDecline, TypeOK
<1>17. ASSUME NEW c \in Callers, Abandon(c) PROVE TypeOK'
  BY <1>17, IdleType DEF Abandon, TypeOK
<1>18. ASSUME NEW r \in requests, ProviderExecutes(r) PROVE TypeOK'
  BY <1>18, AmountAssumption DEF ProviderExecutes, TypeOK
<1>19. ASSUME NEW r \in requests, ProviderDeclines(r) PROVE TypeOK'
  BY <1>19 DEF ProviderDeclines, TypeOK
<1>20. ASSUME NEW type \in WebhookTypes, handleWebhook(type) PROVE TypeOK'
  <2>1. statusForWebhook(type) \in PAYMENT_STATUSES
    BY WebhookTypesAssumption DEF statusForWebhook, PAYMENT_STATUSES
  <2>2. UpdateStatus(payment, statusForWebhook(type), "NONE") \in Payment
    BY <2>1, UpdateStatusFacts DEF TypeOK
  <2>3. payment' \in Payment
    BY <1>20, <2>2, AmountAssumption DEF handleWebhook, Payment, TypeOK
  <2> QED
    BY <1>20, <2>3 DEF handleWebhook, TypeOK
<1>21. CASE AuthorizationLapses
  BY <1>21 DEF AuthorizationLapses, TypeOK, Payment
<1>22. CASE expireStaleAuthorizations
  BY <1>22, UpdateStatusFacts DEF expireStaleAuthorizations, TypeOK, PAYMENT_STATUSES
<1>23. ASSUME NEW k \in Keys, LeaseExpires(k) PROVE TypeOK'
  BY <1>23 DEF LeaseExpires, TypeOK
<1>24. CASE UNCHANGED vars
  BY <1>24 DEF vars, TypeOK
<1> QED
  BY <1>1, <1>3, <1>4, <1>5, <1>6, <1>7, <1>8, <1>9, <1>10, <1>11, <1>12, <1>13,
     <1>14, <1>15, <1>16, <1>17, <1>18, <1>19, <1>20, <1>21, <1>22, <1>23, <1>24
  DEF Next, BookingStep, ResolveStep, CallerStep, ProviderStep, ClockStep

(* Every row, command and caller keeps the shape its table or class gives  *)
(* it, for all callers and all bounds.                                     *)
THEOREM TypeCorrect == Spec => []TypeOK
  BY InitTypeOK, NextTypeOK, PTL DEF Spec
-----------------------------------------------------------------------------
(* Requests and outcomes: what is known of a command is what the provider  *)
(* did, whoever calls and whatever is lost.                                *)

LEMMA InitOutcomes == Init => SentIsReserved /\ OutcomesAreTrue
  BY DEF Init, SentIsReserved, OutcomesAreTrue, Idle

(* A step that changes neither commands, requests, callers nor provider.   *)
LEMMA SameOutcomes ==
  ASSUME SentIsReserved, OutcomesAreTrue,
         UNCHANGED <<command, call, requests, provider>>
  PROVE  SentIsReserved' /\ OutcomesAreTrue'
  BY DEF SentIsReserved, OutcomesAreTrue

(* A caller claims a key of its operation and sends a request under it.    *)
LEMMA ClaimedOutcomes ==
  ASSUME TypeOK, SentIsReserved, OutcomesAreTrue, NEW c \in Callers,
         NEW key \in Keys, NEW amount, NEW seen, Send(c, key, amount, seen),
         command'[key] = "PENDING",
         \A k \in Keys : k # key => command'[k] = command[k],
         command[key] \in {"NONE", "PENDING"},
         c \in Operators \cup Workers => key \in CaptureKeys,
         c \in Refunders => key \in RefundKeys,
         c \in Reauthorizers => key \in ReauthorizeKeys,
         UNCHANGED provider
  PROVE  SentIsReserved' /\ OutcomesAreTrue'
<1>1. OutcomesAreTrue'
  BY DEF OutcomesAreTrue
<1>2. \A k \in Keys : command'[k] = "NONE" => provider'[k] = "NONE"
  BY DEF SentIsReserved
<1>3. \A r \in requests' : command'[r.key] # "NONE"
  BY DEF SentIsReserved, TypeOK, Send
<1>4. \A d \in Callers : call'[d] = IF d = c
           THEN [pc |-> "sent", key |-> key, amount |-> amount, seen |-> seen]
           ELSE call[d]
  BY DEF Send, TypeOK
<1> QED
  BY <1>1, <1>2, <1>3, <1>4 DEF SentIsReserved

(* A caller records the outcome that the provider reported to it.          *)
LEMMA CompletedOutcomes ==
  ASSUME TypeOK, SentIsReserved, OutcomesAreTrue, NEW c \in Callers,
         \/ Answered(c, "EXECUTED") /\ CompleteCommand(c, "SUCCEEDED")
         \/ Answered(c, "DECLINED") /\ CompleteCommand(c, "FAILED"),
         UNCHANGED outside
  PROVE  /\ SentIsReserved' /\ OutcomesAreTrue'
         /\ \A k \in Keys : command[k] \in {"SUCCEEDED", "FAILED"}
                             => command'[k] = command[k]
<1> DEFINE key == call[c].key
<1>1. key \in Keys /\ command[key] # "NONE"
  BY DEF SentIsReserved, Answered
<1>2. \A k \in Keys : k # key => command'[k] = command[k]
  BY DEF CompleteCommand, TypeOK
<1>3. \/ command'[key] = "SUCCEEDED" /\ provider[key] = "EXECUTED"
      \/ command'[key] = "FAILED" /\ provider[key] = "DECLINED"
  BY <1>1 DEF CompleteCommand, TypeOK, Answered
<1>4. \A d \in Callers : call'[d] = IF d = c THEN Idle ELSE call[d]
  BY DEF CompleteCommand, TypeOK
<1>5. provider' = provider /\ requests' = requests
  BY DEF outside
<1>6. OutcomesAreTrue'
  BY <1>2, <1>3, <1>5 DEF OutcomesAreTrue
<1>7. \A k \in Keys : command'[k] = "NONE" <=> command[k] = "NONE"
  BY <1>1, <1>2, <1>3
<1>8. SentIsReserved'
  BY <1>4, <1>5, <1>7 DEF SentIsReserved, Idle, TypeOK
<1>9. \A k \in Keys : command[k] \in {"SUCCEEDED", "FAILED"}
                             => command'[k] = command[k]
  BY <1>2, <1>3 DEF OutcomesAreTrue
<1> QED
  BY <1>6, <1>8, <1>9

LEMMA NextOutcomes ==
  ASSUME TypeOK, SentIsReserved, OutcomesAreTrue, [Next]_vars
  PROVE  /\ SentIsReserved' /\ OutcomesAreTrue'
         /\ \A k \in Keys : command[k] \in {"SUCCEEDED", "FAILED"}
                             => command'[k] = command[k]
<1> USE DEF rows, txs, books, outside
<1>1. CASE BookingStep \/ ResolveStep
  BY <1>1, SameOutcomes
  DEF BookingStep, ResolveStep, UserTransition, Transition, Confirm, StartService,
      SafetyHold, OpenDispute, BeginTx, CommitTx, RollbackTx, BeginResolve,
      CommitResolve, RollbackResolve
<1>2. ASSUME NEW w \in Workers, TickSelect(w)
      PROVE  SentIsReserved' /\ OutcomesAreTrue' /\ UNCHANGED command
  <2>1. \A d \in Callers : call'[d].pc = "sent" => call'[d] = call[d]
    BY <1>2 DEF TickSelect, TypeOK
  <2> QED
    BY <1>2, <2>1 DEF TickSelect, SentIsReserved, OutcomesAreTrue
<1>3. ASSUME NEW c \in Operators \cup Workers, ReleasePrepare(c)
      PROVE  SentIsReserved' /\ OutcomesAreTrue'
             /\ \A k \in Keys : command[k] \in {"SUCCEEDED", "FAILED"}
                                => command'[k] = command[k]
  <2>1. PICK key \in CaptureKeys :
          ClaimCommand(CaptureKeys, key) /\ Send(c, key, Amount, "NONE")
    BY <1>3 DEF ReleasePrepare
  <2>2. key \in Keys /\ c \in Callers /\ c \notin Refunders \cup Reauthorizers
    BY KeyFacts, CallersAssumption DEF Callers
  <2>3. /\ command'[key] = "PENDING" /\ command[key] \in {"NONE", "PENDING"}
        /\ \A k \in Keys : k # key => command'[k] = command[k]
    BY <2>1, ClaimFacts, KeyFacts DEF TypeOK
  <2>4. UNCHANGED provider
    BY <1>3 DEF ReleasePrepare
  <2> QED
    BY <2>1, <2>2, <2>3, <2>4, ClaimedOutcomes
<1>4. ASSUME NEW c \in Operators \cup Workers, ReleaseFinalise(c)
      PROVE  SentIsReserved' /\ OutcomesAreTrue'
             /\ \A k \in Keys : command[k] \in {"SUCCEEDED", "FAILED"}
                                => command'[k] = command[k]
  BY <1>4, CompletedOutcomes DEF ReleaseFinalise, Callers
<1>5. ASSUME NEW c \in Refunders, RefundPrepare(c)
      PROVE  SentIsReserved' /\ OutcomesAreTrue'
             /\ \A k \in Keys : command[k] \in {"SUCCEEDED", "FAILED"}
                                => command'[k] = command[k]
  <2>1. PICK amount \in 1..(Amount - payment.refunded), key \in RefundKeys :
          ClaimCommand(RefundKeys, key) /\ Send(c, key, amount, "NONE")
    BY <1>5 DEF RefundPrepare
  <2>2. /\ key \in Keys /\ c \in Callers
        /\ c \notin Operators \cup Workers \cup Reauthorizers
    BY KeyFacts, CallersAssumption DEF Callers
  <2>3. /\ command'[key] = "PENDING" /\ command[key] \in {"NONE", "PENDING"}
        /\ \A k \in Keys : k # key => command'[k] = command[k]
    BY <2>1, ClaimFacts, KeyFacts DEF TypeOK
  <2>4. UNCHANGED provider
    BY <1>5 DEF RefundPrepare
  <2> QED
    BY <2>1, <2>2, <2>3, <2>4, ClaimedOutcomes
<1>6. ASSUME NEW c \in Refunders, RefundFinalise(c)
      PROVE  SentIsReserved' /\ OutcomesAreTrue'
             /\ \A k \in Keys : command[k] \in {"SUCCEEDED", "FAILED"}
                                => command'[k] = command[k]
  BY <1>6, CompletedOutcomes DEF RefundFinalise, Callers
<1>7. ASSUME NEW c \in Reauthorizers, ReauthorizePrepare(c)
      PROVE  SentIsReserved' /\ OutcomesAreTrue'
             /\ \A k \in Keys : command[k] \in {"SUCCEEDED", "FAILED"}
                                => command'[k] = command[k]
  <2> DEFINE key == <<"REAUTHORIZE", payment.reauths + 2>>
  <2>1. key \in ReauthorizeKeys
    BY <1>7, BoundsAssumption DEF ReauthorizePrepare, TypeOK, Payment, ReauthorizeKeys
  <2>2. /\ key \in Keys /\ c \in Callers
        /\ c \notin Operators \cup Workers \cup Refunders
    BY <2>1, KeyFacts, CallersAssumption DEF Callers
  <2>3. command[key] = "NONE" /\ command' = [command EXCEPT ![key] = "PENDING"]
    BY <1>7 DEF ReauthorizePrepare
  <2>4. /\ command'[key] = "PENDING"
        /\ \A k \in Keys : k # key => command'[k] = command[k]
    BY <2>2, <2>3 DEF TypeOK
  <2>5. Send(c, key, 0, payment.status) /\ UNCHANGED provider
    BY <1>7 DEF ReauthorizePrepare
  <2> HIDE DEF key
  <2> QED
    BY <2>1, <2>2, <2>3, <2>4, <2>5, ClaimedOutcomes
<1>8. ASSUME NEW c \in Reauthorizers, ReauthorizeFinalise(c)
      PROVE  SentIsReserved' /\ OutcomesAreTrue'
             /\ \A k \in Keys : command[k] \in {"SUCCEEDED", "FAILED"}
                                => command'[k] = command[k]
  BY <1>8, CompletedOutcomes DEF ReauthorizeFinalise, Callers
<1>9. ASSUME NEW c \in Callers, RecordDecline(c)
      PROVE  SentIsReserved' /\ OutcomesAreTrue'
             /\ \A k \in Keys : command[k] \in {"SUCCEEDED", "FAILED"}
                                => command'[k] = command[k]
  BY <1>9, CompletedOutcomes DEF RecordDecline
<1>10. ASSUME NEW c \in Callers, Abandon(c)
       PROVE  SentIsReserved' /\ OutcomesAreTrue' /\ UNCHANGED command
  <2>1. \A d \in Callers : call'[d].pc = "sent" => call'[d] = call[d]
    BY <1>10 DEF Abandon, TypeOK, Idle
  <2> QED
    BY <1>10, <2>1 DEF Abandon, SentIsReserved, OutcomesAreTrue
<1>11. ASSUME NEW r \in requests, ProviderExecutes(r) \/ ProviderDeclines(r)
       PROVE  SentIsReserved' /\ OutcomesAreTrue' /\ UNCHANGED command
  <2>1. r.key \in Keys /\ provider[r.key] = "NONE" /\ command[r.key] # "NONE"
    BY <1>11 DEF ProviderExecutes, ProviderDeclines, TypeOK, SentIsReserved
  <2>2. \A k \in Keys : k # r.key => provider'[k] = provider[k]
    BY <1>11, <2>1 DEF ProviderExecutes, ProviderDeclines, TypeOK
  <2>3. UNCHANGED <<command, call, requests>>
    BY <1>11 DEF ProviderExecutes, ProviderDeclines
  <2>4. command[r.key] \notin {"SUCCEEDED", "FAILED"}
    BY <2>1 DEF OutcomesAreTrue
  <2> QED
    BY <2>1, <2>2, <2>3, <2>4 DEF SentIsReserved, OutcomesAreTrue
<1>12. CASE ClockStep \/ \E type \in WebhookTypes : handleWebhook(type)
  BY <1>12, SameOutcomes
  DEF ClockStep, AuthorizationLapses, expireStaleAuthorizations, LeaseExpires,
      handleWebhook
<1>13. CASE UNCHANGED vars
  BY <1>13, SameOutcomes DEF vars
<1> QED
  BY <1>1, <1>2, <1>3, <1>4, <1>5, <1>6, <1>7, <1>8, <1>9, <1>10, <1>11, <1>12, <1>13
  DEF Next, CallerStep, ProviderStep

(* A command whose outcome is known keeps it, although completeCommand     *)
(* looks at nothing and any number of callers may hold the same command    *)
(* after its lease.                                                        *)
THEOREM OutcomesAreFinal == Spec => OutcomeIsFinal
<1>1. Init => TypeOK /\ SentIsReserved /\ OutcomesAreTrue
  BY InitTypeOK, InitOutcomes
<1>2. TypeOK /\ SentIsReserved /\ OutcomesAreTrue /\ [Next]_vars
        => (TypeOK /\ SentIsReserved /\ OutcomesAreTrue)'
  BY NextTypeOK, NextOutcomes
<1>3. TypeOK /\ SentIsReserved /\ OutcomesAreTrue /\ [Next]_vars
        => [\A k \in Keys : command[k] \in {"SUCCEEDED", "FAILED"}
                              => command'[k] = command[k]]_vars
  BY NextOutcomes
<1> QED
  BY <1>1, <1>2, <1>3, PTL DEF Spec, OutcomeIsFinal
-----------------------------------------------------------------------------
(* Money that the books call released was captured: every write of         *)
(* RELEASED, and every plan to write it, goes back to an execution.        *)

Captured == \E k \in CaptureKeys : provider[k] = "EXECUTED"

(* Whoever has read RELEASED, or means to write it, does so after the      *)
(* capture; a reauthorization never read it.                               *)
ReleasedIsKnown ==
  /\ "RELEASED" \in {payment.status, payment.frozenFrom, bookingTx.write.status,
                     bookingTx.write.origin, resolution} => Captured
  /\ \A c \in Reauthorizers : call[c].pc = "sent" => call[c].seen # "RELEASED"

LEMMA PlansOfReleased ==
  ASSUME NEW row \in Payment, NEW open \in BOOLEAN, NEW write,
         write \in {markServiceCompleted(row), freezeForDispute(row), unfreeze(row, open)},
         "RELEASED" \in {write.status, write.origin}
  PROVE  "RELEASED" \in {row.status, row.frozenFrom}
  BY DEF markServiceCompleted, freezeForDispute, unfreeze, NoWrite, Write, Payment

LEMMA UpdateOfReleased ==
  ASSUME NEW row \in Payment, NEW status \in PAYMENT_STATUSES,
         NEW origin \in PAYMENT_STATUSES \cup {"NONE"},
         "RELEASED" \in {UpdateStatus(row, status, origin).status,
                         UpdateStatus(row, status, origin).frozenFrom}
  PROVE  "RELEASED" \in {status, origin, row.frozenFrom}
  BY DEF UpdateStatus, Payment

LEMMA InitReleased == Init => ReleasedIsKnown
<1> SUFFICES ASSUME Init PROVE ReleasedIsKnown
  OBVIOUS
<1>1. \A c \in Reauthorizers : call[c].pc = "idle"
  BY DEF Init, Idle, Callers
<1>2. bookingTx.write = NoWrite /\ bookingTx.write.status = "NONE"
        /\ bookingTx.write.origin = "NONE"
  BY DEF Init, NoTx, NoWrite
<1>3. payment.status = "HELD" /\ payment.frozenFrom = "NONE" /\ resolution = "NONE"
  BY DEF Init
<1> QED
  BY <1>1, <1>2, <1>3 DEF ReleasedIsKnown

(* What the provider has executed stays executed.                          *)
LEMMA CapturedStays == TypeOK /\ [Next]_vars /\ Captured => Captured'
<1> SUFFICES ASSUME TypeOK, [Next]_vars, NEW k \in CaptureKeys, provider[k] = "EXECUTED"
             PROVE  provider'[k] = "EXECUTED"
  BY DEF Captured
<1> USE DEF rows, txs, books, outside
<1>1. k \in Keys
  BY KeyFacts
<1>2. CASE \E r \in requests : ProviderExecutes(r) \/ ProviderDeclines(r)
  BY <1>1, <1>2 DEF ProviderExecutes, ProviderDeclines, TypeOK
<1>3. CASE UNCHANGED provider
  BY <1>3
<1>4. CASE BookingStep \/ ResolveStep \/ ClockStep \/ UNCHANGED vars
  BY <1>3, <1>4
  DEF BookingStep, ResolveStep, ClockStep, UserTransition, Transition, Confirm,
      StartService, SafetyHold, OpenDispute, BeginTx, CommitTx, RollbackTx,
      BeginResolve, CommitResolve, RollbackResolve, AuthorizationLapses,
      expireStaleAuthorizations, LeaseExpires, vars
<1>5. CASE CallerStep \/ \E type \in WebhookTypes : handleWebhook(type)
  BY <1>3, <1>5
  DEF CallerStep, TickSelect, ReleasePrepare, ReleaseFinalise, RefundPrepare,
      RefundFinalise, ReauthorizePrepare, ReauthorizeFinalise, RecordDecline, Abandon,
      handleWebhook
<1> QED
  BY <1>2, <1>4, <1>5 DEF Next, ProviderStep

(* Nobody is about to write RELEASED who was not before, and no            *)
(* reauthorization has read it.                                            *)
LEMMA KeepsReleased ==
  ASSUME TypeOK, [Next]_vars, ReleasedIsKnown,
         "RELEASED" \in {payment'.status, payment'.frozenFrom} =>
           Captured \/ "RELEASED" \in {payment.status, payment.frozenFrom,
                         bookingTx.write.status, bookingTx.write.origin, resolution},
         "RELEASED" \in {bookingTx'.write.status, bookingTx'.write.origin, resolution'}
           => "RELEASED" \in {payment.status, payment.frozenFrom,
                 bookingTx.write.status, bookingTx.write.origin, resolution},
         \A c \in Reauthorizers :
           call'[c].pc = "sent" /\ call'[c].seen = "RELEASED" =>
             call[c].pc = "sent" /\ call[c].seen = "RELEASED"
  PROVE  ReleasedIsKnown'
  BY CapturedStays DEF ReleasedIsKnown

LEMMA BookingReleased ==
  ASSUME TypeOK, ReleasedIsKnown, BookingStep \/ ResolveStep PROVE ReleasedIsKnown'
<1> USE DEF rows, txs, books, outside
<1>1. [Next]_vars /\ payment \in Payment /\ disputeOpen \in BOOLEAN
  BY DEF Next, TypeOK
<1>2. UNCHANGED call
  BY DEF BookingStep, ResolveStep, UserTransition, Transition, Confirm, StartService,
         SafetyHold, OpenDispute, BeginTx, CommitTx, RollbackTx, BeginResolve,
         CommitResolve, RollbackResolve
<1>3. CASE UserTransition
  BY <1>1, <1>2, <1>3, KeepsReleased DEF UserTransition, Transition
<1>4. ASSUME NEW to, NEW write, NEW opens, BeginTx(to, write, opens),
             write \in {markServiceCompleted(payment), freezeForDispute(payment),
                        unfreeze(payment, disputeOpen)}
      PROVE  ReleasedIsKnown'
  <2>1. /\ bookingTx'.write = write /\ UNCHANGED <<payment, resolution>>
    BY <1>4 DEF BeginTx
  <2>2. "RELEASED" \in {write.status, write.origin}
          => "RELEASED" \in {payment.status, payment.frozenFrom}
    BY <1>1, <1>4, PlansOfReleased
  <2> QED
    BY <1>1, <1>2, <2>1, <2>2, KeepsReleased
<1>5. CASE Confirm \/ StartService \/ SafetyHold \/ OpenDispute
  BY <1>4, <1>5 DEF Confirm, StartService, SafetyHold, OpenDispute
<1>6. CASE CommitTx
  <2> DEFINE write == bookingTx.write
  <2>1. /\ write \in [status : PAYMENT_STATUSES \cup {"NONE"},
                      origin : PAYMENT_STATUSES \cup {"NONE"}]
        /\ bookingTx' = NoTx /\ UNCHANGED resolution
        /\ payment' = Apply(write, payment)
    BY <1>6 DEF CommitTx, TypeOK, BookingTx
  <2>2. "RELEASED" \in {payment'.status, payment'.frozenFrom} =>
          "RELEASED" \in {payment.status, payment.frozenFrom, write.status, write.origin}
    BY <1>1, <2>1, UpdateOfReleased DEF Apply
  <2>3. "RELEASED" \notin {bookingTx'.write.status, bookingTx'.write.origin}
    BY <2>1 DEF NoTx, NoWrite
  <2> QED
    BY <1>1, <1>2, <2>1, <2>2, <2>3, KeepsReleased
<1>7. CASE RollbackTx
  BY <1>1, <1>2, <1>7, KeepsReleased DEF RollbackTx, NoTx, NoWrite
<1>8. CASE BeginResolve
  <2>1. /\ UNCHANGED <<payment, bookingTx>>
        /\ resolution' \in {"KEEP", unfreeze(payment, FALSE).status}
    BY <1>8 DEF BeginResolve
  <2>2. resolution' = "RELEASED" => "RELEASED" \in {payment.status, payment.frozenFrom}
    BY <1>1, <2>1, PlansOfReleased
  <2> QED
    BY <1>1, <1>2, <2>1, <2>2, KeepsReleased
<1>9. CASE CommitResolve
  <2>1. /\ UNCHANGED bookingTx /\ resolution' = "NONE"
        /\ resolution \in PAYMENT_STATUSES \cup {"KEEP"}
        /\ payment' = IF resolution = "KEEP" THEN payment
                      ELSE UpdateStatus(payment, resolution, "NONE")
    BY <1>9 DEF CommitResolve, TypeOK
  <2>2. "RELEASED" \in {payment'.status, payment'.frozenFrom} =>
          "RELEASED" \in {payment.status, payment.frozenFrom, resolution}
    BY <1>1, <2>1, UpdateOfReleased
  <2> QED
    BY <1>1, <1>2, <2>1, <2>2, KeepsReleased
<1>10. CASE RollbackResolve
  BY <1>1, <1>2, <1>10, KeepsReleased DEF RollbackResolve
<1> QED
  BY <1>3, <1>5, <1>6, <1>7, <1>8, <1>9, <1>10 DEF BookingStep, ResolveStep

LEMMA OtherReleased ==
  ASSUME TypeOK, SentIsReserved, ReleasedIsKnown, CallerStep \/ ProviderStep \/ ClockStep
  PROVE  ReleasedIsKnown'
<1> USE DEF rows, txs, books, outside
<1>1. [Next]_vars /\ payment \in Payment
  BY DEF Next, TypeOK
<1>2. UNCHANGED txs
  BY DEF CallerStep, ProviderStep, ClockStep, TickSelect, ReleasePrepare, ReleaseFinalise,
         RefundPrepare, RefundFinalise, ReauthorizePrepare, ReauthorizeFinalise,
         RecordDecline, Abandon, ProviderExecutes, ProviderDeclines, handleWebhook,
         AuthorizationLapses, expireStaleAuthorizations, LeaseExpires
<1> DEFINE Kept == "RELEASED" \in {payment'.status, payment'.frozenFrom} =>
                     Captured \/ "RELEASED" \in {payment.status, payment.frozenFrom}
           Unread == \A c \in Reauthorizers :
                       call'[c].pc = "sent" /\ call'[c].seen = "RELEASED" =>
                         call[c].pc = "sent" /\ call[c].seen = "RELEASED"
<1>3. ASSUME Kept, Unread PROVE ReleasedIsKnown'
  BY <1>1, <1>2, <1>3, KeepsReleased
<1>4. ASSUME NEW c \in Callers, NEW key, NEW amount, NEW seen, Send(c, key, amount, seen),
             seen # "RELEASED"
      PROVE  Unread
  BY <1>4 DEF Send, TypeOK, Callers
<1>5. ASSUME NEW c \in Callers, NEW status, CompleteCommand(c, status) PROVE Unread
  BY <1>5 DEF CompleteCommand, TypeOK, Callers, Idle
<1>6. ASSUME NEW w \in Workers, TickSelect(w) PROVE ReleasedIsKnown'
  <2>1. Unread
    BY <1>6 DEF TickSelect, TypeOK, Callers
  <2>2. UNCHANGED payment
    BY <1>6 DEF TickSelect
  <2> QED
    BY <1>3, <2>1, <2>2
<1>7. ASSUME NEW c \in Operators \cup Workers, ReleasePrepare(c) PROVE ReleasedIsKnown'
  <2>1. Unread
    BY <1>4, <1>7 DEF ReleasePrepare, Callers
  <2>2. Kept
    BY <1>1, <1>7, UpdateOfReleased DEF ReleasePrepare, PAYMENT_STATUSES
  <2> QED
    BY <1>3, <2>1, <2>2
<1>8. ASSUME NEW c \in Operators \cup Workers, ReleaseFinalise(c) PROVE ReleasedIsKnown'
  <2>1. Unread
    BY <1>5, <1>8 DEF ReleaseFinalise, Callers
  <2>2. call[c].key \in CaptureKeys /\ provider[call[c].key] = "EXECUTED"
    BY <1>8 DEF ReleaseFinalise, Answered, SentIsReserved, Callers
  <2> QED
    BY <1>3, <2>1, <2>2 DEF Captured
<1>9. ASSUME NEW c \in Refunders, RefundPrepare(c) PROVE ReleasedIsKnown'
  BY <1>3, <1>4, <1>9 DEF RefundPrepare, Callers
<1>10. ASSUME NEW c \in Refunders, RefundFinalise(c) PROVE ReleasedIsKnown'
  <2> DEFINE row == [payment EXCEPT !.refunded = payment.refunded + call[c].amount]
  <2>1. Unread
    BY <1>5, <1>10 DEF RefundFinalise, Callers
  <2>2. /\ row \in Payment /\ row.status = payment.status
        /\ row.frozenFrom = payment.frozenFrom
    BY <1>1, <1>10, AmountAssumption
    DEF RefundFinalise, RowAllowed, Payment, Call, Callers, TypeOK
  <2>3. \/ payment' = row
        \/ payment' = UpdateStatus(row, "REFUNDED", "NONE")
    BY <1>10 DEF RefundFinalise
  <2> HIDE DEF row
  <2>4. ASSUME payment' = row PROVE Kept
    BY <2>2, <2>4
  <2>5. ASSUME payment' = UpdateStatus(row, "REFUNDED", "NONE") PROVE Kept
    <3>1. "RELEASED" \in {payment'.status, payment'.frozenFrom} =>
            "RELEASED" \in {"REFUNDED", "NONE", row.frozenFrom}
      BY <2>2, <2>5, UpdateOfReleased DEF PAYMENT_STATUSES
    <3> QED
      BY <2>2, <3>1
  <2> QED
    BY <1>3, <2>1, <2>3, <2>4, <2>5
<1>11. ASSUME NEW c \in Reauthorizers, ReauthorizePrepare(c) PROVE ReleasedIsKnown'
  <2>1. payment.status # "RELEASED" /\ UNCHANGED payment
    BY <1>11 DEF ReauthorizePrepare, holdsAuthorization, AUTHORIZED_PAYMENT_STATUSES
  <2>2. PICK key : Send(c, key, 0, payment.status)
    BY <1>11 DEF ReauthorizePrepare
  <2>3. Unread
    BY <1>4, <2>1, <2>2 DEF Callers
  <2> QED
    BY <1>3, <2>1, <2>3
<1>12. ASSUME NEW c \in Reauthorizers, ReauthorizeFinalise(c) PROVE ReleasedIsKnown'
  <2> DEFINE row == UpdateStatus(payment, call[c].seen, "NONE")
  <2>1. Unread
    BY <1>5, <1>12 DEF ReauthorizeFinalise, Callers
  <2>2. call[c].seen \in PAYMENT_STATUSES \ {"RELEASED"}
    BY <1>12 DEF ReauthorizeFinalise, Answered, TypeOK, Call, ReleasedIsKnown, Callers
  <2>3. row \in Payment
    BY <1>1, <2>2, UpdateStatusFacts
  <2>4. payment' = [row EXCEPT !.lapsed = FALSE, !.reauths = @ + 1]
    BY <1>12 DEF ReauthorizeFinalise
  <2>5. payment'.status = row.status /\ payment'.frozenFrom = row.frozenFrom
    BY <2>3, <2>4 DEF Payment
  <2>6. Kept
    BY <1>1, <2>2, <2>5, UpdateOfReleased
  <2> QED
    BY <1>3, <2>1, <2>6
<1>13. ASSUME NEW c \in Callers, RecordDecline(c) \/ Abandon(c) PROVE ReleasedIsKnown'
  <2>1. UNCHANGED payment
    BY <1>13 DEF RecordDecline, Abandon
  <2>2. Unread
    BY <1>5, <1>13 DEF RecordDecline, Abandon, TypeOK, Callers, Idle
  <2> QED
    BY <1>3, <2>1, <2>2
<1>14. ASSUME NEW r \in requests, ProviderExecutes(r) \/ ProviderDeclines(r)
       PROVE  ReleasedIsKnown'
  BY <1>3, <1>14 DEF ProviderExecutes, ProviderDeclines
<1>15. ASSUME NEW type \in WebhookTypes, handleWebhook(type) PROVE ReleasedIsKnown'
  <2> DEFINE target == statusForWebhook(type)
             updated == UpdateStatus(payment, target, "NONE")
  <2>1. UNCHANGED call /\ Emitted(type)
    BY <1>15 DEF handleWebhook
  <2>2. target \in PAYMENT_STATUSES
    BY WebhookTypesAssumption DEF statusForWebhook, PAYMENT_STATUSES
  <2>3. updated \in Payment
    BY <1>1, <2>2, UpdateStatusFacts
  <2>4. payment' \in {payment, updated, [updated EXCEPT !.refunded = Amount]}
    BY <1>15 DEF handleWebhook
  <2>5. \/ payment' = payment
        \/ payment'.status = updated.status /\ payment'.frozenFrom = updated.frozenFrom
    BY <2>3, <2>4 DEF Payment
  <2>6. target = "RELEASED" => Captured
    BY <2>1, WebhookTypesAssumption DEF statusForWebhook, Emitted, Captured
  <2>7. Kept
    BY <1>1, <2>2, <2>5, <2>6, UpdateOfReleased
  <2> QED
    BY <1>3, <2>1, <2>7
<1>16. CASE ClockStep
  <2>1. UNCHANGED call
    BY <1>16 DEF ClockStep, AuthorizationLapses, expireStaleAuthorizations, LeaseExpires
  <2>2. Kept
    BY <1>1, <1>16, UpdateOfReleased
    DEF ClockStep, AuthorizationLapses, expireStaleAuthorizations, LeaseExpires, Payment,
        PAYMENT_STATUSES
  <2> QED
    BY <1>3, <2>1, <2>2
<1> QED
  BY <1>6, <1>7, <1>8, <1>9, <1>10, <1>11, <1>12, <1>13, <1>14, <1>15, <1>16
  DEF CallerStep, ProviderStep

(* Nothing says that the money was released, not even a freeze that means  *)
(* to go back there, unless the provider has captured it, with             *)
(* reauthorizations as well.                                               *)
THEOREM ReleasedIsCaptured == Spec => []ReleasedMeansCaptured
<1> DEFINE Inv == TypeOK /\ SentIsReserved /\ OutcomesAreTrue /\ ReleasedIsKnown
<1>1. Init => Inv
  BY InitTypeOK, InitOutcomes, InitReleased
<1>2. Inv /\ [Next]_vars => Inv'
  <2> SUFFICES ASSUME Inv, [Next]_vars PROVE Inv'
    OBVIOUS
  <2>1. TypeOK' /\ SentIsReserved' /\ OutcomesAreTrue'
    BY NextTypeOK, NextOutcomes
  <2>2. ReleasedIsKnown'
    <3>1. CASE UNCHANGED vars
      BY <3>1, KeepsReleased DEF vars, rows, txs, books
    <3>2. CASE Next
      BY <3>2, BookingReleased, OtherReleased DEF Next
    <3> QED
      BY <3>1, <3>2
  <2> QED
    BY <2>1, <2>2
<1>3. Inv => ReleasedMeansCaptured
  BY DEF ReleasedIsKnown, ReleasedMeansCaptured, Captured
<1> QED
  BY <1>1, <1>2, <1>3, PTL DEF Spec
-----------------------------------------------------------------------------
(***************************************************************************)
(* A payment is captured at most once, an open dispute freezes it, a       *)
(* settled booking is final and the whole is an escrow, for every number   *)
(* of operators, workers, refunds, attempts and disputes, as long as       *)
(* nobody reauthorizes it: the write of a reauthorization breaks this      *)
(* (finding_double_capture).                                               *)
(***************************************************************************)

(* What freezeForDispute, unfreeze and markServiceCompleted plan against a *)
(* payment that is frozen or has ended, and against a paid one.            *)
LEMMA PlanFacts ==
  ASSUME NEW row \in Payment, row.status # "CREATED",
         row.status = "DISPUTED" <=> row.frozenFrom # "NONE"
  PROVE  /\ markServiceCompleted(row).status # "DISPUTED"
         /\ \A open \in BOOLEAN : unfreeze(row, open).status # "DISPUTED"
         /\ freezeForDispute(row).status = "DISPUTED"
              => freezeForDispute(row).origin # "NONE"
         /\ row.status \in FrozenOrEnded =>
              /\ markServiceCompleted(row) = NoWrite
              /\ freezeForDispute(row) = NoWrite
         /\ \/ freezeForDispute(row).status \in FrozenOrEnded
            \/ freezeForDispute(row) = NoWrite /\ row.status \in FrozenOrEnded
         /\ \/ row.status \in {"RELEASED", "REFUNDED"}
            \/ row.status = "DISPUTED" /\ row.frozenFrom = "RELEASED"
            => /\ markServiceCompleted(row) = NoWrite
               /\ freezeForDispute(row) \in {NoWrite, Write("DISPUTED", "RELEASED")}
               /\ \A open \in BOOLEAN : unfreeze(row, open) = NoWrite
  BY DEF markServiceCompleted, freezeForDispute, unfreeze, NoWrite, Write, Payment,
         PAYMENT_STATUSES, PaymentTransition, AUTHORIZED_PAYMENT_STATUSES, IsLive,
         FrozenOrEnded

LEMMA InitCaptureInv == Init => CaptureInv
<1> SUFFICES ASSUME Init PROVE CaptureInv
  OBVIOUS
<1>1. TypeOK /\ SentIsReserved /\ OutcomesAreTrue
  BY InitTypeOK, InitOutcomes
<1>2. OneCapture /\ PaidStaysPaid
  BY KeyFacts DEF Init, OneCapture, PaidStaysPaid
<1>3. FreezeKnowsOrigin /\ ReviewFreezes
  BY DEF Init, FreezeKnowsOrigin, ReviewFreezes, NoTx, NoWrite
<1> QED
  BY <1>1, <1>2, <1>3 DEF CaptureInv

(* What the commands of a capture say may only be changed by a release.    *)
LEMMA SameCaptures ==
  ASSUME OneCapture, \A k \in CaptureKeys : command'[k] = command[k]
  PROVE  OneCapture'
  BY DEF OneCapture

(* The freeze is only a matter of the payment and the open transactions.   *)
LEMMA SameFreeze ==
  ASSUME FreezeKnowsOrigin, ReviewFreezes, PaidStaysPaid,
         \A k \in CaptureKeys : command'[k] = "SUCCEEDED" => command[k] = "SUCCEEDED",
         payment'.status = payment.status, payment'.frozenFrom = payment.frozenFrom,
         UNCHANGED <<disputeOpen, txs>>
  PROVE  FreezeKnowsOrigin' /\ ReviewFreezes' /\ PaidStaysPaid'
  BY DEF FreezeKnowsOrigin, ReviewFreezes, PaidStaysPaid, txs, FrozenOrEnded

(* A write of a status other than DISPUTED that leaves a frozen payment    *)
(* frozen or ended, and a paid one paid or refunded.                       *)
LEMMA OtherStatus ==
  ASSUME CaptureInv, NEW status \in PAYMENT_STATUSES \ {"DISPUTED", "CREATED"},
         payment'.status = status, payment'.frozenFrom = "NONE",
         payment.status \in FrozenOrEnded => status \in FrozenOrEnded,
         payment.status \in {"DISPUTED", "RELEASED", "REFUNDED"}
           => status \in {"RELEASED", "REFUNDED"},
         \A k \in CaptureKeys : command'[k] = "SUCCEEDED" => command[k] = "SUCCEEDED",
         UNCHANGED <<disputeOpen, txs>>
  PROVE  FreezeKnowsOrigin' /\ ReviewFreezes' /\ PaidStaysPaid'
  BY DEF CaptureInv, FreezeKnowsOrigin, ReviewFreezes, PaidStaysPaid, txs, FrozenOrEnded

(* The UPDATE writes NONE into frozen_from_status of a row not DISPUTED.   *)
LEMMA UpdatedOrigin ==
  ASSUME NEW row \in Payment, NEW status \in PAYMENT_STATUSES \ {"DISPUTED"},
         NEW origin
  PROVE  UpdateStatus(row, status, origin).frozenFrom = "NONE"
  BY DEF UpdateStatus, Payment

LEMMA BookingCaptureInv ==
  ASSUME CaptureInv, BookingStep, TypeOK', SentIsReserved', OutcomesAreTrue'
  PROVE  CaptureInv'
<1> USE DEF rows, txs, books
<1>1. UNCHANGED <<command, resolution>>
  BY DEF BookingStep, UserTransition, Transition, Confirm, StartService, SafetyHold,
         OpenDispute, BeginTx, CommitTx, RollbackTx
<1>2. OneCapture'
  BY <1>1, SameCaptures DEF CaptureInv
<1>3. payment \in Payment /\ disputeOpen \in BOOLEAN
  BY DEF CaptureInv, TypeOK
<1>4. CASE UserTransition
  BY <1>4, SameFreeze, <1>1, <1>2 DEF UserTransition, Transition, CaptureInv
<1>5. ASSUME NEW to, NEW write, NEW opens \in BOOLEAN, BeginTx(to, write, opens),
             write \in {markServiceCompleted(payment), freezeForDispute(payment),
                        unfreeze(payment, disputeOpen)},
             opens => ~disputeOpen /\ write = freezeForDispute(payment)
      PROVE  CaptureInv'
  <2>1. /\ UNCHANGED <<payment, disputeOpen>>
        /\ bookingTx' = [to |-> to, write |-> write, opens |-> opens]
    BY <1>5 DEF BeginTx
  <2>2. write.status # "CREATED" /\ (disputeOpen => write = NoWrite)
    BY <1>3, <1>5, WriteFacts, PlanFacts
    DEF CaptureInv, ReviewFreezes, FreezeKnowsOrigin
  <2>3. write.status = "DISPUTED" => write.origin # "NONE"
    BY <1>3, <1>5, PlanFacts DEF CaptureInv, ReviewFreezes, FreezeKnowsOrigin
  <2>4. opens => \/ write.status \in FrozenOrEnded
                 \/ write = NoWrite /\ payment.status \in FrozenOrEnded
    BY <1>3, <1>5, PlanFacts DEF CaptureInv, ReviewFreezes, FreezeKnowsOrigin
  <2>5. (\E k \in CaptureKeys : command[k] = "SUCCEEDED")
          => write \in {NoWrite, Write("DISPUTED", "RELEASED")}
    BY <1>3, <1>5, PlanFacts
    DEF CaptureInv, ReviewFreezes, FreezeKnowsOrigin, PaidStaysPaid
  <2>6. FreezeKnowsOrigin' /\ ReviewFreezes'
    BY <1>1, <1>5, <2>1, <2>2, <2>3, <2>4
    DEF CaptureInv, FreezeKnowsOrigin, ReviewFreezes
  <2>7. PaidStaysPaid'
    BY <1>1, <2>1, <2>5 DEF CaptureInv, PaidStaysPaid
  <2> QED
    BY <1>2, <2>6, <2>7 DEF CaptureInv
<1>6. CASE Confirm \/ StartService \/ SafetyHold \/ OpenDispute
  BY <1>5, <1>6 DEF Confirm, StartService, SafetyHold, OpenDispute
<1>7. CASE CommitTx
  <2> DEFINE write == bookingTx.write
  <2>1. /\ write \in [status : PAYMENT_STATUSES \cup {"NONE"},
                      origin : PAYMENT_STATUSES \cup {"NONE"}]
        /\ bookingTx' = NoTx
        /\ payment' = Apply(write, payment)
        /\ disputeOpen' = (disputeOpen \/ bookingTx.opens)
    BY <1>7 DEF CommitTx, CaptureInv, TypeOK, BookingTx
  <2>2. \/ write.status = "NONE" /\ payment' = payment
        \/ /\ write.status \in PAYMENT_STATUSES \ {"CREATED"}
           /\ payment'.status = write.status
           /\ write.status # "DISPUTED" => payment'.frozenFrom = "NONE"
           /\ write.status = "DISPUTED" => /\ payment'.frozenFrom = write.origin
                                           /\ write.origin # "NONE"
    BY <1>3, <2>1, UpdateStatusFacts, UpdatedOrigin
    DEF Apply, CaptureInv, FreezeKnowsOrigin, ReviewFreezes
  <2>3. NoWrite.status = "NONE" /\ NoTx.write = NoWrite /\ ~NoTx.opens
    BY DEF NoWrite, NoTx
  <2>4. FreezeKnowsOrigin'
    BY <1>1, <2>1, <2>2, <2>3 DEF CaptureInv, FreezeKnowsOrigin
  <2>5. disputeOpen' => payment'.status \in FrozenOrEnded
    BY <2>1, <2>2, <2>3 DEF CaptureInv, ReviewFreezes, FrozenOrEnded, PAYMENT_STATUSES
  <2>6. ReviewFreezes'
    BY <1>1, <2>1, <2>2, <2>3, <2>5 DEF CaptureInv, ReviewFreezes
  <2>7. PaidStaysPaid'
    BY <1>1, <2>1, <2>2, <2>3 DEF CaptureInv, PaidStaysPaid, Write, PAYMENT_STATUSES
  <2> QED
    BY <1>2, <2>4, <2>6, <2>7 DEF CaptureInv
<1>8. CASE RollbackTx
  BY <1>1, <1>2, <1>8
  DEF RollbackTx, CaptureInv, FreezeKnowsOrigin, ReviewFreezes, PaidStaysPaid, NoTx, NoWrite
<1> QED
  BY <1>4, <1>6, <1>7, <1>8 DEF BookingStep

LEMMA ResolveCaptureInv ==
  ASSUME CaptureInv, ResolveStep, TypeOK', SentIsReserved', OutcomesAreTrue'
  PROVE  CaptureInv'
<1> USE DEF rows, txs, books
<1>1. UNCHANGED <<command, bookingTx>>
  BY DEF ResolveStep, BeginResolve, CommitResolve, RollbackResolve
<1>2. OneCapture'
  BY <1>1, SameCaptures DEF CaptureInv
<1>3. payment \in Payment
  BY DEF CaptureInv, TypeOK
<1>4. CASE BeginResolve
  <2>1. UNCHANGED <<payment, disputeOpen>> /\ disputeOpen
    BY <1>4 DEF BeginResolve
  <2>2. resolution' \notin {"CREATED", "DISPUTED"}
    BY <1>3, <1>4, WriteFacts, PlanFacts
    DEF BeginResolve, CaptureInv, ReviewFreezes, FreezeKnowsOrigin
  <2>3. (\E k \in CaptureKeys : command[k] = "SUCCEEDED") => resolution' = "KEEP"
    BY <1>3, <1>4, PlanFacts
    DEF BeginResolve, CaptureInv, ReviewFreezes, FreezeKnowsOrigin, PaidStaysPaid
  <2> QED
    BY <1>1, <1>2, <2>1, <2>2, <2>3
    DEF CaptureInv, FreezeKnowsOrigin, ReviewFreezes, PaidStaysPaid
<1>5. CASE CommitResolve
  <2>1. /\ disputeOpen' = FALSE /\ resolution' = "NONE" /\ bookingTx = NoTx
        /\ payment' = IF resolution = "KEEP" THEN payment
                      ELSE UpdateStatus(payment, resolution, "NONE")
        /\ resolution \in (PAYMENT_STATUSES \cup {"KEEP"}) \ {"DISPUTED", "CREATED"}
    BY <1>5 DEF CommitResolve, BookingUnlocked, CaptureInv, TypeOK,
                FreezeKnowsOrigin, ReviewFreezes
  <2>2. \/ payment' = payment
        \/ payment'.status = resolution /\ payment'.frozenFrom = "NONE"
    BY <1>3, <2>1, UpdateStatusFacts, UpdatedOrigin
  <2>3. FreezeKnowsOrigin' /\ ReviewFreezes'
    BY <1>1, <2>1, <2>2 DEF CaptureInv, FreezeKnowsOrigin, ReviewFreezes, NoTx, NoWrite
  <2>4. PaidStaysPaid'
    BY <1>1, <2>1 DEF CaptureInv, PaidStaysPaid, PAYMENT_STATUSES
  <2> QED
    BY <1>2, <2>3, <2>4 DEF CaptureInv
<1>6. CASE RollbackResolve
  BY <1>1, <1>2, <1>6
  DEF RollbackResolve, CaptureInv, FreezeKnowsOrigin, ReviewFreezes, PaidStaysPaid
<1> QED
  BY <1>4, <1>5, <1>6 DEF ResolveStep

LEMMA ReleaseCaptureInv ==
  ASSUME CaptureInv, NEW c \in Operators \cup Workers,
         ReleasePrepare(c) \/ ReleaseFinalise(c),
         TypeOK', SentIsReserved', OutcomesAreTrue'
  PROVE  CaptureInv'
<1> USE DEF rows, txs, books, outside
<1>1. payment \in Payment /\ c \in Callers
  BY DEF CaptureInv, TypeOK, Callers
<1>2. CASE ReleasePrepare(c)
  <2>1. PICK key \in CaptureKeys : ClaimCommand(CaptureKeys, key)
    BY <1>2 DEF ReleasePrepare
  <2>2. Releasable /\ bookingTx = NoTx /\ UNCHANGED <<disputeOpen, txs>>
    BY <1>2 DEF ReleasePrepare, BookingUnlocked
  <2>3. /\ command'[key] = "PENDING"
        /\ \A k \in CaptureKeys : k # key => command'[k] = command[k]
        /\ \/ command' = command
           \/ \A k \in CaptureKeys : command[k] # "PENDING"
    BY <2>1, ClaimFacts, KeyFacts DEF CaptureInv, TypeOK
  <2>4. \A k \in CaptureKeys : command[k] # "SUCCEEDED"
    BY <2>2 DEF Releasable, holdsAuthorization, AUTHORIZED_PAYMENT_STATUSES,
                CaptureInv, PaidStaysPaid
  <2>5. \A k \in CaptureKeys : command'[k] # "SUCCEEDED"
    BY <2>3, <2>4
  <2>6. OneCapture'
    BY <2>3, <2>4, <2>5 DEF CaptureInv, OneCapture
  <2>7. payment'.status # "DISPUTED" /\ payment'.status # "CREATED"
          /\ payment'.frozenFrom = "NONE"
    BY <1>1, <1>2, <2>2, UpdateStatusFacts, UpdatedOrigin
    DEF ReleasePrepare, Releasable, PAYMENT_STATUSES, CaptureInv, FreezeKnowsOrigin
  <2>8. FreezeKnowsOrigin' /\ ReviewFreezes'
    BY <2>2, <2>7 DEF CaptureInv, FreezeKnowsOrigin, ReviewFreezes, Releasable, NoTx, NoWrite
  <2>9. PaidStaysPaid'
    BY <2>5 DEF PaidStaysPaid
  <2> QED
    BY <2>6, <2>8, <2>9 DEF CaptureInv
<1>3. CASE ReleaseFinalise(c)
  <2> DEFINE key == call[c].key
  <2>1. /\ provider[key] = "EXECUTED" /\ key \in CaptureKeys /\ key \in Keys
        /\ command' = [command EXCEPT ![key] = "SUCCEEDED"]
        /\ bookingTx = NoTx /\ UNCHANGED <<disputeOpen, txs>>
        /\ payment.status = "RELEASE_PENDING"
        /\ payment' = UpdateStatus(payment, "RELEASED", "NONE")
    BY <1>1, <1>3, KeyFacts
    DEF ReleaseFinalise, Answered, CompleteCommand, BookingUnlocked, CaptureInv,
        SentIsReserved, PaymentTransition, AUTHORIZED_PAYMENT_STATUSES
  <2>2. command[key] \in {"PENDING", "SUCCEEDED"}
    BY <1>1, <1>3, <2>1
    DEF ReleaseFinalise, Answered, CaptureInv, SentIsReserved, OutcomesAreTrue, TypeOK
  <2>3. command'[key] = "SUCCEEDED"
        /\ \A k \in CaptureKeys : k # key => command'[k] = command[k]
    BY <2>1, KeyFacts DEF CaptureInv, TypeOK
  <2>4. OneCapture'
    BY <2>1, <2>2, <2>3 DEF CaptureInv, OneCapture
  <2>5. payment'.status = "RELEASED" /\ payment'.frozenFrom = "NONE"
    BY <1>1, <2>1, UpdateStatusFacts, UpdatedOrigin DEF PAYMENT_STATUSES
  <2>6. ~disputeOpen /\ resolution = "NONE"
    BY <2>1 DEF CaptureInv, ReviewFreezes, FrozenOrEnded
  <2> QED
    BY <2>1, <2>4, <2>5, <2>6
    DEF CaptureInv, FreezeKnowsOrigin, ReviewFreezes, PaidStaysPaid, NoTx, NoWrite
<1> QED
  BY <1>2, <1>3

LEMMA OtherCaptureInv ==
  ASSUME Reauthorizers = {}, CaptureInv, CallerStep \/ ProviderStep \/ ClockStep,
         \A c \in Operators \cup Workers : ~ReleasePrepare(c) /\ ~ReleaseFinalise(c),
         TypeOK', SentIsReserved', OutcomesAreTrue'
  PROVE  CaptureInv'
<1> USE DEF rows, txs, books, outside
<1>1. payment \in Payment
  BY DEF CaptureInv, TypeOK
<1>2. ASSUME UNCHANGED <<payment, disputeOpen, txs>>,
             \A k \in CaptureKeys : \/ command'[k] = command[k]
                                    \/ command'[k] \notin {"PENDING", "SUCCEEDED"}
      PROVE  CaptureInv'
  <2>1. OneCapture'
    BY <1>2 DEF CaptureInv, OneCapture
  <2> QED
    BY <1>2, <2>1, SameFreeze DEF CaptureInv
<1>3. ASSUME NEW w \in Workers, TickSelect(w) PROVE CaptureInv'
  BY <1>2, <1>3 DEF TickSelect
<1>4. ASSUME NEW c \in Refunders, RefundPrepare(c) PROVE CaptureInv'
  <2>1. PICK key \in RefundKeys : ClaimCommand(RefundKeys, key)
    BY <1>4 DEF RefundPrepare
  <2>2. \A k \in CaptureKeys : command'[k] = command[k]
    BY <2>1, ClaimFacts, KeyFacts DEF CaptureInv, TypeOK
  <2> QED
    BY <1>2, <1>4, <2>2 DEF RefundPrepare
<1>5. ASSUME NEW c \in Refunders, RefundFinalise(c) PROVE CaptureInv'
  <2> DEFINE row == [payment EXCEPT !.refunded = payment.refunded + call[c].amount]
  <2>1. /\ row \in Payment /\ row.status = payment.status
        /\ row.frozenFrom = payment.frozenFrom
    BY <1>1, <1>5, AmountAssumption
    DEF RefundFinalise, RowAllowed, Payment, Call, Callers, CaptureInv, TypeOK
  <2>2. \A k \in CaptureKeys : command'[k] = command[k]
    BY <1>5, KeyFacts
    DEF RefundFinalise, Answered, CompleteCommand, CaptureInv, SentIsReserved, TypeOK, Callers
  <2>3. OneCapture' /\ UNCHANGED <<disputeOpen, txs>>
    BY <1>5, <2>2, SameCaptures DEF RefundFinalise, CaptureInv
  <2>4. \/ payment' = row
        \/ payment' = UpdateStatus(row, "REFUNDED", "NONE")
    BY <1>5 DEF RefundFinalise
  <2>5. CASE payment' = row
    BY <2>1, <2>2, <2>3, <2>5, SameFreeze DEF CaptureInv
  <2>6. CASE payment' = UpdateStatus(row, "REFUNDED", "NONE")
    <3>1. payment'.status = "REFUNDED" /\ payment'.frozenFrom = "NONE"
      BY <2>1, <2>6, UpdateStatusFacts, UpdatedOrigin DEF PAYMENT_STATUSES
    <3> QED
      BY <2>2, <2>3, <3>1, OtherStatus DEF CaptureInv, PAYMENT_STATUSES, FrozenOrEnded
  <2> QED
    BY <2>4, <2>5, <2>6
<1>6. ASSUME NEW c \in Callers, RecordDecline(c) PROVE CaptureInv'
  <2>1. \A k \in CaptureKeys : command'[k] \in {command[k], "FAILED"}
    BY <1>6, KeyFacts DEF RecordDecline, CompleteCommand, CaptureInv, TypeOK
  <2> QED
    BY <1>2, <1>6, <2>1 DEF RecordDecline
<1>7. ASSUME NEW c \in Callers, Abandon(c) PROVE CaptureInv'
  BY <1>2, <1>7 DEF Abandon
<1>8. ASSUME NEW r \in requests, ProviderExecutes(r) \/ ProviderDeclines(r)
      PROVE  CaptureInv'
  BY <1>2, <1>8 DEF ProviderExecutes, ProviderDeclines
<1>9. ASSUME NEW type \in WebhookTypes, handleWebhook(type) PROVE CaptureInv'
  <2> DEFINE target == statusForWebhook(type)
             updated == UpdateStatus(payment, target, "NONE")
  <2>1. UNCHANGED <<command, disputeOpen, txs>>
    BY <1>9 DEF handleWebhook
  <2>2. target \in PAYMENT_STATUSES \ {"CREATED"}
    BY WebhookTypesAssumption DEF statusForWebhook, PAYMENT_STATUSES
  <2>3. updated \in Payment /\ updated.status = target
    BY <1>1, <2>2, UpdateStatusFacts
  <2>4. \/ payment' = payment
        \/ /\ PaymentTransition(payment.status, target, "WEBHOOK")
           /\ payment'.status = target /\ payment'.frozenFrom = updated.frozenFrom
           /\ payment'.status = "DISPUTED" => payment'.frozenFrom # "NONE"
    BY <1>9, <2>3 DEF handleWebhook, RowAllowed, Payment
  <2>5. CASE payment' = payment
    BY <1>2, <2>1, <2>5
  <2>6. CASE payment' # payment
    <3>1. payment.status \notin FrozenOrEnded
      BY <2>4, <2>6 DEF PaymentTransition, FrozenOrEnded, AUTHORIZED_PAYMENT_STATUSES
    <3>2. target # "DISPUTED"
      BY <1>1, <2>4, <2>6, <3>1
      DEF CaptureInv, FreezeKnowsOrigin, UpdateStatus, Payment, FrozenOrEnded
    <3>3. payment'.frozenFrom = "NONE"
      BY <1>1, <2>2, <2>4, <2>6, <3>2, UpdatedOrigin
    <3>4. payment.status = "RELEASED" => target = "REFUNDED"
      BY <2>4, <2>6, <3>2 DEF PaymentTransition, AUTHORIZED_PAYMENT_STATUSES
    <3>5. OneCapture'
      BY <2>1, SameCaptures DEF CaptureInv
    <3> QED
      BY <2>1, <2>2, <2>4, <2>6, <3>1, <3>2, <3>3, <3>4, <3>5, OtherStatus
      DEF CaptureInv, FrozenOrEnded
  <2> QED
    BY <2>5, <2>6
<1>10. CASE AuthorizationLapses
  <2>1. payment'.status = payment.status /\ payment'.frozenFrom = payment.frozenFrom
    BY <1>1, <1>10 DEF AuthorizationLapses, Payment
  <2>2. UNCHANGED <<command, disputeOpen, txs>>
    BY <1>10 DEF AuthorizationLapses
  <2> QED
    BY <2>1, <2>2, SameFreeze, SameCaptures DEF CaptureInv
<1>11. CASE expireStaleAuthorizations
  <2>1. /\ payment'.status = "AUTHORIZATION_EXPIRED" /\ payment'.frozenFrom = "NONE"
        /\ payment.status \notin FrozenOrEnded \cup {"RELEASED"}
    BY <1>1, <1>11, UpdateStatusFacts, UpdatedOrigin
    DEF expireStaleAuthorizations, PAYMENT_STATUSES, FrozenOrEnded
  <2>2. UNCHANGED <<command, disputeOpen, txs>>
    BY <1>11 DEF expireStaleAuthorizations
  <2>3. OneCapture'
    BY <2>2, SameCaptures DEF CaptureInv
  <2> QED
    BY <2>1, <2>2, <2>3, OtherStatus DEF CaptureInv, FrozenOrEnded, PAYMENT_STATUSES
<1>12. ASSUME NEW k \in Keys, LeaseExpires(k) PROVE CaptureInv'
  BY <1>2, <1>12 DEF LeaseExpires
<1> QED
  BY <1>3, <1>4, <1>5, <1>6, <1>7, <1>8, <1>9, <1>10, <1>11, <1>12
  DEF CallerStep, ProviderStep, ClockStep

LEMMA NextCaptureInv ==
  ASSUME Reauthorizers = {}, CaptureInv, [Next]_vars
  PROVE  CaptureInv'
<1>1. TypeOK' /\ SentIsReserved' /\ OutcomesAreTrue'
  BY NextTypeOK, NextOutcomes DEF CaptureInv
<1>2. CASE UNCHANGED vars
  <2>1. UNCHANGED <<payment, disputeOpen, txs, command>>
    BY <1>2 DEF vars, rows, books
  <2> QED
    BY <1>1, <2>1, SameFreeze, SameCaptures DEF CaptureInv
<1>3. CASE BookingStep
  BY <1>1, <1>3, BookingCaptureInv
<1>4. CASE ResolveStep
  BY <1>1, <1>4, ResolveCaptureInv
<1>5. CASE CallerStep \/ ProviderStep \/ ClockStep
  BY <1>1, <1>5, ReleaseCaptureInv, OtherCaptureInv
<1> QED
  BY <1>2, <1>3, <1>4, <1>5 DEF Next

(* A capture that was executed has a command that is neither missing nor   *)
(* failed, and there is only one such command.                             *)
LEMMA CaptureInvOnce == CaptureInv => CaptureAtMostOnce /\ OpenDisputeFreezes
<1> SUFFICES ASSUME CaptureInv PROVE CaptureAtMostOnce /\ OpenDisputeFreezes
  OBVIOUS
<1>1. ASSUME NEW k \in CaptureKeys, provider[k] = "EXECUTED"
      PROVE  command[k] \in {"PENDING", "SUCCEEDED"}
  BY <1>1, KeyFacts DEF CaptureInv, TypeOK, SentIsReserved, OutcomesAreTrue
<1>2. CaptureAtMostOnce
  BY <1>1 DEF CaptureAtMostOnce, CaptureInv, OneCapture
<1>3. OpenDisputeFreezes
  BY DEF OpenDisputeFreezes, CaptureInv, ReviewFreezes
<1> QED
  BY <1>2, <1>3

LEMMA CaptureInvariant == ASSUME Reauthorizers = {} PROVE Spec => []CaptureInv
  BY InitCaptureInv, NextCaptureInv, PTL DEF Spec

(* Without reauthorizations the provider never executes two captures of    *)
(* the payment, whatever is lost, retried or taken over.                   *)
THEOREM CapturedAtMostOnce ==
  ASSUME Reauthorizers = {} PROVE Spec => []CaptureAtMostOnce
  BY CaptureInvariant, CaptureInvOnce, PTL

(* Without reauthorizations an open dispute keeps the payment frozen,      *)
(* although the freeze and the thaw read it without a lock.                *)
THEOREM DisputeFreezes ==
  ASSUME Reauthorizers = {} PROVE Spec => []OpenDisputeFreezes
  BY CaptureInvariant, CaptureInvOnce, PTL
-----------------------------------------------------------------------------
(* A settled booking: every transaction on the booking and the dispute was *)
(* over when it was settled, and its status lets none of them begin again. *)
SettledStays ==
  /\ bookingTx.to # "SETTLED"
  /\ booking = "SETTLED" => /\ bookingTx = NoTx /\ ~disputeOpen
                            /\ payment.status \in {"RELEASED", "REFUNDED"}

LEMMA NothingBeginsSettled ==
  ASSUME NEW to, NEW actor, TransitionAllowed("SETTLED", to, actor) PROVE FALSE
  BY DEF TransitionAllowed, BeforeService

LEMMA OnlySystemSettles ==
  ASSUME NEW from, NEW actor \in {"CUSTOMER", "PROVIDER", "ADMIN"},
         TransitionAllowed(from, "SETTLED", actor)
  PROVE  FALSE
  BY DEF TransitionAllowed

(* What a step does to the booking when no release finalises.              *)
LEMMA BookingMoves ==
  ASSUME CaptureInv, SettledStays, BookingStep \/ ResolveStep
  PROVE  /\ booking = "SETTLED" => UNCHANGED <<booking, payment, bookingTx, disputeOpen>>
         /\ booking # "SETTLED" => booking' # "SETTLED"
         /\ bookingTx'.to # "SETTLED"
         /\ UNCHANGED <<command, provider>>
<1> USE DEF rows, txs, books, outside
<1>1. UNCHANGED <<command, provider>>
  BY DEF BookingStep, ResolveStep, UserTransition, Transition, Confirm, StartService,
         SafetyHold, OpenDispute, BeginTx, CommitTx, RollbackTx, BeginResolve,
         CommitResolve, RollbackResolve
<1>2. NoTx.to = "NONE"
  BY DEF NoTx
<1>3. ASSUME NEW to, NEW actor \in {"CUSTOMER", "PROVIDER", "ADMIN"}, Transition(to, actor)
      PROVE  /\ booking # "SETTLED" /\ booking' # "SETTLED" /\ UNCHANGED bookingTx
  BY <1>3, NothingBeginsSettled, OnlySystemSettles DEF Transition
<1>4. ASSUME NEW to, NEW write, NEW opens, BeginTx(to, write, opens)
      PROVE  bookingTx'.to = to /\ UNCHANGED booking
  BY <1>4 DEF BeginTx
<1>5. CASE UserTransition
  BY <1>1, <1>3, <1>5 DEF UserTransition, SettledStays
<1>6. CASE Confirm \/ StartService \/ SafetyHold \/ OpenDispute
  <2>1. booking # "SETTLED"
    BY <1>6, NothingBeginsSettled DEF Confirm, StartService, SafetyHold, OpenDispute,
       DISPUTABLE_STATUSES
  <2>2. ASSUME NEW to \in {"COMPLETED", "IN_PROGRESS", "SAFETY_HOLD", "DISPUTED", booking},
               NEW write, NEW opens, BeginTx(to, write, opens)
        PROVE  UNCHANGED booking /\ bookingTx'.to # "SETTLED"
    BY <1>4, <2>1, <2>2
  <2>3. UNCHANGED booking /\ bookingTx'.to # "SETTLED"
    BY <1>6, <2>2 DEF Confirm, StartService, SafetyHold, OpenDispute
  <2> QED
    BY <1>1, <2>1, <2>3
<1>7. CASE CommitTx
  BY <1>1, <1>2, <1>7 DEF CommitTx, SettledStays
<1>8. CASE RollbackTx
  BY <1>1, <1>2, <1>8 DEF RollbackTx, SettledStays
<1>9. CASE BeginResolve \/ RollbackResolve
  BY <1>1, <1>9 DEF BeginResolve, RollbackResolve, SettledStays
<1>10. CASE CommitResolve
  <2>1. disputeOpen /\ UNCHANGED bookingTx
    BY <1>10 DEF CommitResolve, CaptureInv, ReviewFreezes
  <2>2. booking # "SETTLED" => booking' # "SETTLED"
    BY <1>10 DEF CommitResolve
  <2> QED
    BY <1>1, <2>1, <2>2 DEF SettledStays
<1> QED
  BY <1>5, <1>6, <1>7, <1>8, <1>9, <1>10 DEF BookingStep, ResolveStep

(* Money that has been paid out is only given back.                        *)
LEMMA PaidMoves ==
  ASSUME Reauthorizers = {}, CaptureInv, payment.status \in {"RELEASED", "REFUNDED"},
         CallerStep \/ ProviderStep \/ ClockStep
  PROVE  /\ payment'.status \in {"RELEASED", "REFUNDED"}
         /\ UNCHANGED <<booking, disputeOpen, bookingTx>>
<1> USE DEF rows, txs, books, outside
<1>1. payment \in Payment /\ payment.frozenFrom = "NONE"
  BY DEF CaptureInv, TypeOK, FreezeKnowsOrigin
<1>2. ASSUME NEW c \in Operators \cup Workers, ReleasePrepare(c) \/ ReleaseFinalise(c)
      PROVE  FALSE
  BY <1>2 DEF ReleasePrepare, ReleaseFinalise, Releasable, holdsAuthorization,
     PaymentTransition, AUTHORIZED_PAYMENT_STATUSES
<1>3. CASE \/ \E w \in Workers : TickSelect(w)
           \/ \E c \in Refunders : RefundPrepare(c)
           \/ \E c \in Callers : RecordDecline(c) \/ Abandon(c)
           \/ \E r \in requests : ProviderExecutes(r) \/ ProviderDeclines(r)
           \/ \E k \in Keys : LeaseExpires(k)
  BY <1>3 DEF TickSelect, RefundPrepare, RecordDecline, Abandon, ProviderExecutes,
     ProviderDeclines, LeaseExpires
<1>4. ASSUME NEW c \in Refunders, RefundFinalise(c)
      PROVE  /\ payment'.status \in {"RELEASED", "REFUNDED"}
             /\ UNCHANGED <<booking, disputeOpen, bookingTx>>
  BY <1>1, <1>4 DEF RefundFinalise, UpdateStatus, Payment
<1>5. ASSUME NEW type \in WebhookTypes, handleWebhook(type)
      PROVE  /\ payment'.status \in {"RELEASED", "REFUNDED"}
             /\ UNCHANGED <<booking, disputeOpen, bookingTx>>
  <2> DEFINE target == statusForWebhook(type)
             updated == UpdateStatus(payment, target, "NONE")
  <2>1. target \in PAYMENT_STATUSES
    BY WebhookTypesAssumption DEF statusForWebhook, PAYMENT_STATUSES
  <2>2. /\ updated \in Payment /\ updated.status = target
        /\ updated.frozenFrom = "NONE"
    BY <1>1, <2>1, UpdateStatusFacts DEF UpdateStatus, Payment
  <2>3. \/ payment' = payment
        \/ /\ PaymentTransition(payment.status, target, "WEBHOOK")
           /\ payment'.status = target
           /\ target = "DISPUTED" => updated.frozenFrom # "NONE"
    BY <1>5, <2>2 DEF handleWebhook, RowAllowed, Payment
  <2>4. payment'.status \in {"RELEASED", "REFUNDED"}
    BY <2>2, <2>3 DEF PaymentTransition, AUTHORIZED_PAYMENT_STATUSES
  <2> QED
    BY <1>5, <2>4 DEF handleWebhook
<1>6. CASE AuthorizationLapses \/ expireStaleAuthorizations
  BY <1>1, <1>6 DEF AuthorizationLapses, expireStaleAuthorizations, Payment
<1> QED
  BY <1>2, <1>3, <1>4, <1>5, <1>6 DEF CallerStep, ProviderStep, ClockStep

(* Only a release that finalises settles a booking, and only a completed   *)
(* one that nobody disputes.                                               *)
LEMMA CallerMoves ==
  ASSUME Reauthorizers = {}, CaptureInv, CallerStep \/ ProviderStep \/ ClockStep
  PROVE  /\ UNCHANGED <<disputeOpen, bookingTx>>
         /\ \/ UNCHANGED booking
            \/ /\ booking = "COMPLETED" /\ booking' = "SETTLED"
               /\ ~disputeOpen /\ bookingTx = NoTx /\ payment'.status = "RELEASED"
               /\ \E k \in CaptureKeys : provider[k] = "EXECUTED"
               /\ UNCHANGED provider
<1> USE DEF rows, txs, books, outside
<1>1. ASSUME NEW c \in Operators \cup Workers, ReleaseFinalise(c)
      PROVE  /\ UNCHANGED <<disputeOpen, bookingTx, provider>>
             /\ booking' = IF booking = "COMPLETED" THEN "SETTLED" ELSE booking
             /\ ~disputeOpen /\ bookingTx = NoTx /\ payment'.status = "RELEASED"
             /\ \E k \in CaptureKeys : provider[k] = "EXECUTED"
  <2>1. payment.status = "RELEASE_PENDING"
    BY <1>1 DEF ReleaseFinalise, PaymentTransition, AUTHORIZED_PAYMENT_STATUSES
  <2>2. ~disputeOpen
    BY <2>1 DEF CaptureInv, ReviewFreezes, FrozenOrEnded
  <2>3. payment'.status = "RELEASED"
    BY <1>1 DEF ReleaseFinalise, UpdateStatus, CaptureInv, TypeOK, Payment
  <2>4. call[c].key \in CaptureKeys /\ provider[call[c].key] = "EXECUTED"
    BY <1>1 DEF ReleaseFinalise, Answered, CaptureInv, SentIsReserved, Callers
  <2> QED
    BY <1>1, <2>2, <2>3, <2>4 DEF ReleaseFinalise, BookingUnlocked
<1>2. CASE \A c \in Operators \cup Workers : ~ReleaseFinalise(c)
  BY <1>2
  DEF CallerStep, ProviderStep, ClockStep, TickSelect, ReleasePrepare, RefundPrepare,
      RefundFinalise, RecordDecline, Abandon, ProviderExecutes, ProviderDeclines,
      handleWebhook, AuthorizationLapses, expireStaleAuthorizations, LeaseExpires
<1> QED
  BY <1>1, <1>2

LEMMA SettledStep ==
  ASSUME Reauthorizers = {}, CaptureInv, SettledStays, [Next]_vars
  PROVE  /\ SettledStays'
         /\ booking = "SETTLED" =>
              booking' = "SETTLED" /\ payment'.status \in {"RELEASED", "REFUNDED"}
<1>1. CASE UNCHANGED vars
  BY <1>1 DEF vars, rows, txs, SettledStays
<1>2. CASE BookingStep \/ ResolveStep
  BY <1>2, BookingMoves DEF SettledStays
<1>3. CASE CallerStep \/ ProviderStep \/ ClockStep
  <2>1. NoTx.to = "NONE"
    BY DEF NoTx
  <2> QED
    BY <1>3, <2>1, CallerMoves, PaidMoves DEF SettledStays
<1> QED
  BY <1>1, <1>2, <1>3 DEF Next

LEMMA InitSettled == Init => SettledStays
  BY DEF Init, SettledStays, NoTx

LEMMA SettledInvariant ==
  ASSUME Reauthorizers = {} PROVE Spec => [](CaptureInv /\ SettledStays)
  BY InitCaptureInv, InitSettled, NextCaptureInv, SettledStep, PTL DEF Spec

(* Without reauthorizations a settled booking stays settled and paid, or   *)
(* paid and refunded, whatever disputes and webhooks come.                 *)
THEOREM SettledForGood == ASSUME Reauthorizers = {} PROVE Spec => SettledIsFinal
<1>1. CaptureInv /\ SettledStays /\ [Next]_vars =>
        [booking = "SETTLED" =>
           booking' = "SETTLED" /\ payment'.status \in {"RELEASED", "REFUNDED"}]_vars
  BY SettledStep
<1> QED
  BY <1>1, SettledInvariant, PTL DEF Spec, SettledIsFinal
-----------------------------------------------------------------------------
(* The refinement of the escrow, step by step.                             *)

(* The money is where the one capture that was not declined is.            *)
LEMMA MoneyIs ==
  ASSUME CaptureInv, NEW k \in CaptureKeys
  PROVE  /\ provider[k] = "EXECUTED" => command[k] \in {"PENDING", "SUCCEEDED"}
         /\ command[k] = "PENDING" =>
              money = IF provider[k] = "EXECUTED" THEN "paid" ELSE "committed"
<1>1. ASSUME NEW l \in CaptureKeys, provider[l] = "EXECUTED"
      PROVE  command[l] \in {"PENDING", "SUCCEEDED"}
  BY <1>1, KeyFacts DEF CaptureInv, TypeOK, SentIsReserved, OutcomesAreTrue
<1>2. ASSUME command[k] = "PENDING"
      PROVE  money = IF provider[k] = "EXECUTED" THEN "paid" ELSE "committed"
  <2>1. \A l \in CaptureKeys : provider[l] = "EXECUTED" => l = k
    BY <1>1, <1>2 DEF CaptureInv, OneCapture
  <2>2. k \in Pending(CaptureKeys)
    BY <1>2 DEF Pending
  <2> QED
    BY <2>1, <2>2 DEF money
<1> QED
  BY <1>1, <1>2

LEMMA SameMoney ==
  ASSUME \A k \in CaptureKeys : command'[k] = command[k] /\ provider'[k] = provider[k]
  PROVE  money' = money
<1>1. Pending(CaptureKeys)' = Pending(CaptureKeys)
  BY DEF Pending
<1> QED
  BY <1>1 DEF money

(* A booking that is not settled may be reviewed or not.                   *)
LEMMA ReviewsMove ==
  ASSUME money' = money, disputeOpen \in BOOLEAN, disputeOpen' \in BOOLEAN,
         \/ UNCHANGED <<booking, disputeOpen>>
         \/ booking # "SETTLED" /\ booking' # "SETTLED"
  PROVE  [E!Next]_E!vars
<1>1. CASE UNCHANGED <<booking, disputeOpen>>
  BY <1>1 DEF E!vars, review
<1>2. CASE booking # "SETTLED" /\ booking' # "SETTLED"
  <2>1. CASE review' = review
    BY <1>2, <2>1 DEF E!vars
  <2>2. CASE review' # review
    <3>1. review \in BOOLEAN /\ review' \in BOOLEAN
      BY DEF review
    <3>2. \/ ~review /\ review' = TRUE
          \/ review /\ review' = FALSE
      BY <2>2, <3>1
    <3> QED
      BY <1>2, <3>2 DEF E!Next, E!BeginReview, E!EndReview
  <2> QED
    BY <2>1, <2>2
<1> QED
  BY <1>1, <1>2

LEMMA ReleaseEscrow ==
  ASSUME CaptureInv, NEW c \in Operators \cup Workers, ReleasePrepare(c)
  PROVE  [E!Next]_E!vars
<1> USE DEF rows, txs, books, outside
<1>1. PICK key \in CaptureKeys : ClaimCommand(CaptureKeys, key)
  BY DEF ReleasePrepare
<1>2. /\ Releasable /\ UNCHANGED <<booking, disputeOpen, provider>>
      /\ disputeOpen \in BOOLEAN
  BY DEF ReleasePrepare, CaptureInv, TypeOK
<1>3. CASE command' = command
  BY <1>2, <1>3, SameMoney, ReviewsMove
<1>4. CASE command' # command
  <2>1. /\ command'[key] = "PENDING"
        /\ \A k \in CaptureKeys : command[k] # "PENDING"
    BY <1>1, <1>4, ClaimFacts, KeyFacts DEF CaptureInv, TypeOK
  <2>2. \A k \in CaptureKeys : command[k] # "SUCCEEDED"
    BY <1>2 DEF Releasable, holdsAuthorization, AUTHORIZED_PAYMENT_STATUSES,
                CaptureInv, PaidStaysPaid
  <2>3. \A k \in CaptureKeys : provider[k] # "EXECUTED"
    BY <2>1, <2>2, MoneyIs
  <2>4. money = "held"
    BY <2>1, <2>3 DEF money, Pending
  <2>5. key \in Pending(CaptureKeys)'
    BY <2>1 DEF Pending
  <2>6. money' = "committed"
    BY <1>2, <2>3, <2>5 DEF money
  <2>7. review = FALSE /\ review' = review
    BY <1>2 DEF review, Releasable
  <2> QED
    BY <1>2, <2>4, <2>6, <2>7 DEF E!Next, E!Commit
<1> QED
  BY <1>3, <1>4

LEMMA DeclineEscrow ==
  ASSUME CaptureInv, NEW c \in Callers, RecordDecline(c)
  PROVE  [E!Next]_E!vars
<1> USE DEF rows, txs, books, outside
<1> DEFINE key == call[c].key
<1>1. /\ key \in Keys /\ command[key] # "NONE" /\ provider[key] = "DECLINED"
      /\ command' = [command EXCEPT ![key] = "FAILED"]
      /\ UNCHANGED <<booking, disputeOpen, provider>> /\ disputeOpen \in BOOLEAN
  BY DEF RecordDecline, Answered, CompleteCommand, CaptureInv, TypeOK, SentIsReserved
<1>2. /\ command'[key] = "FAILED"
      /\ \A k \in CaptureKeys : k # key => command'[k] = command[k]
  BY <1>1, KeyFacts DEF CaptureInv, TypeOK
<1> HIDE DEF key
<1>3. CASE key \notin CaptureKeys \/ command[key] = "FAILED"
  BY <1>1, <1>2, <1>3, SameMoney, ReviewsMove
<1>4. CASE key \in CaptureKeys /\ command[key] # "FAILED"
  <2>1. command[key] = "PENDING"
    BY <1>1, <1>4 DEF CaptureInv, TypeOK, OutcomesAreTrue
  <2>2. money = "committed"
    BY <1>1, <1>4, <2>1, MoneyIs
  <2>3. \A k \in CaptureKeys : k # key => command[k] # "PENDING" /\ command[k] # "SUCCEEDED"
    BY <1>4, <2>1 DEF CaptureInv, OneCapture
  <2>4. \A k \in CaptureKeys : provider[k] # "EXECUTED"
    BY <1>1, <1>4, <2>3, MoneyIs
  <2>5. Pending(CaptureKeys)' = {}
    BY <1>2, <2>3 DEF Pending
  <2>6. money' = "held"
    BY <1>1, <2>4, <2>5 DEF money
  <2>7. review' = review
    BY <1>1 DEF review
  <2> QED
    BY <1>1, <2>2, <2>6, <2>7 DEF E!Next, E!Decline
<1> QED
  BY <1>3, <1>4

LEMMA ProviderEscrow ==
  ASSUME CaptureInv, NEW r \in requests, ProviderExecutes(r) \/ ProviderDeclines(r)
  PROVE  [E!Next]_E!vars
<1> USE DEF rows, txs, books, outside
<1> DEFINE key == r.key
<1>1. /\ key \in Keys /\ command[key] # "NONE" /\ provider[key] = "NONE"
      /\ UNCHANGED <<booking, disputeOpen, command>> /\ disputeOpen \in BOOLEAN
      /\ \/ provider' = [provider EXCEPT ![key] = "EXECUTED"]
         \/ provider' = [provider EXCEPT ![key] = "DECLINED"]
  BY DEF ProviderExecutes, ProviderDeclines, CaptureInv, TypeOK, SentIsReserved
<1>2. \A k \in Keys : k # key => provider'[k] = provider[k]
  BY <1>1 DEF CaptureInv, TypeOK
<1>3. provider'[key] \in {"EXECUTED", "DECLINED"}
  BY <1>1 DEF CaptureInv, TypeOK
<1> HIDE DEF key
<1>4. review' = review /\ Pending(CaptureKeys)' = Pending(CaptureKeys)
  BY <1>1 DEF review, Pending
<1>5. CASE key \notin CaptureKeys
  BY <1>1, <1>2, <1>5, KeyFacts, SameMoney, ReviewsMove
<1>6. CASE key \in CaptureKeys /\ provider'[key] = "DECLINED"
  <2>1. (\E k \in CaptureKeys : provider'[k] = "EXECUTED")
          <=> (\E k \in CaptureKeys : provider[k] = "EXECUTED")
    BY <1>1, <1>2, <1>6, KeyFacts
  <2>2. money' = money
    BY <1>4, <2>1 DEF money
  <2> QED
    BY <1>1, <2>2, ReviewsMove
<1>7. CASE key \in CaptureKeys /\ provider'[key] = "EXECUTED"
  <2>1. command[key] = "PENDING"
    BY <1>1, <1>7 DEF CaptureInv, TypeOK, OutcomesAreTrue
  <2>2. money = "committed"
    BY <1>1, <1>7, <2>1, MoneyIs
  <2>3. money' = "paid"
    BY <1>7 DEF money
  <2> QED
    BY <1>1, <1>4, <2>2, <2>3 DEF E!Next, E!Pay
<1> QED
  BY <1>3, <1>5, <1>6, <1>7

LEMMA FinaliseEscrow ==
  ASSUME CaptureInv, NEW c \in Operators \cup Workers, ReleaseFinalise(c)
  PROVE  [E!Next]_E!vars
<1> USE DEF rows, txs, books, outside
<1>1. /\ call[c].key \in CaptureKeys /\ provider[call[c].key] = "EXECUTED"
      /\ UNCHANGED <<disputeOpen, provider>> /\ disputeOpen \in BOOLEAN
      /\ booking' = IF booking = "COMPLETED" THEN "SETTLED" ELSE booking
  BY DEF ReleaseFinalise, Answered, CaptureInv, SentIsReserved, TypeOK, Callers
<1>2. money = "paid" /\ money' = "paid"
  BY <1>1 DEF money
<1>3. CASE booking # "COMPLETED"
  BY <1>1, <1>2, <1>3, ReviewsMove
<1>4. CASE booking = "COMPLETED"
  <2>1. payment.status = "RELEASE_PENDING"
    BY DEF ReleaseFinalise, PaymentTransition, AUTHORIZED_PAYMENT_STATUSES
  <2>2. ~disputeOpen
    BY <2>1 DEF CaptureInv, ReviewFreezes, FrozenOrEnded
  <2>3. review = FALSE /\ review' = FALSE
    BY <1>1, <1>4, <2>2 DEF review, blocksPaymentRelease, PAYMENT_BLOCKING_STATUSES
  <2>4. (booking = "SETTLED") = FALSE /\ (booking' = "SETTLED") = TRUE
    BY <1>1, <1>4
  <2> QED
    BY <1>2, <2>3, <2>4 DEF E!Next, E!Settle
<1> QED
  BY <1>3, <1>4

LEMMA QuietEscrow ==
  ASSUME CaptureInv, NEW c \in Callers,
         \/ c \in Workers /\ TickSelect(c)
         \/ c \in Refunders /\ (RefundPrepare(c) \/ RefundFinalise(c))
         \/ Abandon(c)
  PROVE  [E!Next]_E!vars
<1> USE DEF rows, txs, books, outside
<1>1. /\ UNCHANGED <<booking, disputeOpen, provider>> /\ disputeOpen \in BOOLEAN
  BY DEF TickSelect, RefundPrepare, RefundFinalise, Abandon, CaptureInv, TypeOK
<1>2. ASSUME RefundPrepare(c) PROVE \A k \in CaptureKeys : command'[k] = command[k]
  <2>1. PICK key \in RefundKeys : ClaimCommand(RefundKeys, key)
    BY <1>2 DEF RefundPrepare
  <2> QED
    BY <2>1, ClaimFacts, KeyFacts DEF CaptureInv, TypeOK
<1>3. ASSUME c \in Refunders, RefundFinalise(c)
      PROVE  \A k \in CaptureKeys : command'[k] = command[k]
  BY <1>3, KeyFacts
  DEF RefundFinalise, Answered, CompleteCommand, CaptureInv, SentIsReserved, TypeOK
<1>4. \A k \in CaptureKeys : command'[k] = command[k]
  BY <1>2, <1>3 DEF TickSelect, Abandon
<1> QED
  BY <1>1, <1>4, SameMoney, ReviewsMove

LEMMA StepEscrow ==
  ASSUME Reauthorizers = {}, CaptureInv, SettledStays, disputeOpen' \in BOOLEAN, [Next]_vars
  PROVE  [E!Next]_E!vars
<1> USE DEF rows, txs, books, outside
<1>1. disputeOpen \in BOOLEAN
  BY DEF CaptureInv, TypeOK
<1>2. CASE BookingStep \/ ResolveStep
  <2>1. money' = money
    BY <1>2, BookingMoves, SameMoney
  <2>2. \/ UNCHANGED <<booking, disputeOpen>>
        \/ booking # "SETTLED" /\ booking' # "SETTLED"
    BY <1>2, BookingMoves
  <2> QED
    BY <1>1, <2>1, <2>2, ReviewsMove
<1>3. CASE CallerStep
  BY <1>3, ReleaseEscrow, FinaliseEscrow, DeclineEscrow, QuietEscrow DEF CallerStep, Callers
<1>4. CASE \E r \in requests : ProviderExecutes(r) \/ ProviderDeclines(r)
  BY <1>4, ProviderEscrow
<1>5. CASE (\E type \in WebhookTypes : handleWebhook(type)) \/ ClockStep \/ UNCHANGED vars
  <2>1. UNCHANGED <<command, provider, booking, disputeOpen>>
    BY <1>5 DEF handleWebhook, ClockStep, AuthorizationLapses, expireStaleAuthorizations,
       LeaseExpires, vars
  <2> QED
    BY <1>1, <2>1, SameMoney, ReviewsMove
<1> QED
  BY <1>2, <1>3, <1>4, <1>5 DEF Next, ProviderStep

LEMMA InitEscrow == Init => E!Init
<1> SUFFICES ASSUME Init PROVE E!Init
  OBVIOUS
<1>1. /\ \A k \in CaptureKeys : provider[k] = "NONE" /\ command[k] = "NONE"
      /\ booking = "SCHEDULED" /\ disputeOpen = FALSE
  BY KeyFacts DEF Init
<1>2. money = "held"
  BY <1>1 DEF money, Pending
<1>3. review = FALSE
  BY <1>1 DEF review, blocksPaymentRelease, PAYMENT_BLOCKING_STATUSES
<1> QED
  BY <1>1, <1>2, <1>3 DEF E!Init

(* Without reauthorizations the bookings, the callers, the provider and    *)
(* the webhooks together are an escrow: money is committed only while      *)
(* nobody reviews the booking, paid once, and settled after that.          *)
THEOREM KeepsTheEscrow == ASSUME Reauthorizers = {} PROVE Spec => ImplementsEscrow
<1>1. CaptureInv /\ SettledStays /\ CaptureInv' /\ [Next]_vars => [E!Next]_E!vars
  BY StepEscrow DEF CaptureInv, TypeOK
<1> QED
  BY <1>1, InitEscrow, SettledInvariant, PTL DEF Spec, ImplementsEscrow, E!Spec
=============================================================================
