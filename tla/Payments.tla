------------------------------ MODULE Payments ------------------------------
(***************************************************************************)
(* One booking, its payment, its dispute and the payment provider, from    *)
(* the moment the money is held (booking SCHEDULED, payment HELD).         *)
(*                                                                         *)
(* PostgreSQL runs every transaction at READ COMMITTED, so a step here is  *)
(* a transaction that locks the rows it reads, or, where the code reads    *)
(* the payment without a lock and writes it later (freezeForDispute,       *)
(* unfreeze, markServiceCompleted), a pair of steps with everything else   *)
(* that does not need the locks it holds in between:                       *)
(*   bookingTx   the transaction holding the booking row, if any           *)
(*   resolution  the transaction holding the open dispute row, if any      *)
(* A call to the provider is never inside a transaction: prepare, call and *)
(* finalise are separate steps of a caller, which may disappear between    *)
(* any two of them.                                                        *)
(***************************************************************************)
EXTENDS BookingStates, PaymentStates, FiniteSets

CONSTANTS
  Operators,           \* concurrent release requests of operators
  Workers,             \* scheduled release workers
  Refunders,           \* concurrent refund requests
  Reauthorizers,       \* concurrent reauthorization requests
  Amount,              \* payments.amount_minor
  MaxReauthorizations, \* PAYMENT_MAX_REAUTHORIZATIONS
  WebhookTypes,        \* the event types the provider sends
  MaxAttempts,         \* bound: command rows per operation
  MaxDisputes          \* bound: disputes opened on the booking

ASSUME AmountAssumption == Amount \in Nat \ {0}
ASSUME BoundsAssumption == /\ MaxAttempts \in Nat
                           /\ MaxDisputes \in Nat
                           /\ MaxReauthorizations \in Nat

Callers == Operators \cup Workers \cup Refunders \cup Reauthorizers

ASSUME CallersAssumption ==
  /\ "NONE" \notin Callers
  /\ (Operators \cup Workers) \cap (Refunders \cup Reauthorizers) = {}
  /\ Refunders \cap Reauthorizers = {}
  /\ Operators \cap Workers = {}

ASSUME WebhookTypesAssumption ==
  WebhookTypes \subseteq {"AUTHORIZED", "HELD", "CAPTURED", "REFUNDED",
                          "FAILED", "EXPIRED", "DISPUTE_OPENED"}

VARIABLES
  booking,          \* bookings.status
  payment,          \* the payments row
  disputeOpen,      \* is there a row in disputes that is OPEN or UNDER_REVIEW?
  disputes,         \* how many disputes were ever opened
  bookingTx,        \* the transaction that holds the booking row
  resolution,       \* the transaction that holds the open dispute row
  command,          \* payment_commands.status by idempotency key
  leaseOver,        \* PENDING commands older than COMMAND_LEASE_SECONDS
  call,             \* progress of each caller
  requests,         \* requests on their way to the provider, never lost for good
  provider,         \* the provider's stored result by idempotency key
  providerRefunded, \* what the provider has given back to the customer
  webhooks          \* the webhook events recorded in payment_events

rows  == <<booking, payment, disputeOpen, disputes>>
txs   == <<bookingTx, resolution>>
books == <<command, leaseOver, call>>
outside == <<requests, provider, providerRefunded>>
vars  == <<rows, txs, books, outside, webhooks>>
-----------------------------------------------------------------------------
(* The payments row.                                                       *)

Payment == [status     : PAYMENT_STATUSES,
            frozenFrom : PAYMENT_STATUSES \cup {"NONE"},
            refunded   : 0..Amount,
            lapsed     : BOOLEAN,      \* authorization_expires_at is past
            reauths    : Nat]

(* The UPDATE of updateStatus: frozen_from_status is carried only by a     *)
(* DISPUTED row.                                                           *)
UpdateStatus(row, status, origin) ==
  [row EXCEPT
     !.status = status,
     !.frozenFrom = IF status # "DISPUTED" THEN "NONE"
                    ELSE IF origin # "NONE" THEN origin ELSE @]

(* The CHECK constraints of the table; a write that breaks one is rolled   *)
(* back.                                                                   *)
RowAllowed(row) ==
  /\ row.refunded <= Amount
  /\ row.status = "DISPUTED" => row.frozenFrom # "NONE"

(* What a transaction that read the row means to write: the new status, or *)
(* NONE for no write, and the frozen_from_status that goes with it.        *)
NoWrite == [status |-> "NONE", origin |-> "NONE"]
Write(status, origin) == [status |-> status, origin |-> origin]

markServiceCompleted(row) ==
  IF row.status = "HELD" THEN Write("SERVICE_COMPLETED", "NONE") ELSE NoWrite

freezeForDispute(row) ==
  IF IsLive(row.status) /\ PaymentTransition(row.status, "DISPUTED", "SYSTEM")
  THEN Write("DISPUTED", row.status) ELSE NoWrite

(* mutation: the open dispute is not asked for                             *)
unfreezeRegardless(row, stillOpen) ==
  IF row.status = "DISPUTED" /\ PaymentTransition("DISPUTED", row.frozenFrom, "COMMAND")
  THEN Write(row.frozenFrom, "NONE") ELSE NoWrite

unfreeze(row, stillOpen) ==
  IF /\ row.status = "DISPUTED" /\ ~stillOpen
     /\ PaymentTransition("DISPUTED", row.frozenFrom, "COMMAND")
  THEN Write(row.frozenFrom, "NONE") ELSE NoWrite

(* The write meets whatever the row holds by now.                          *)
Apply(write, row) ==
  IF write.status = "NONE" THEN row
  ELSE UpdateStatus(row, write.status, write.origin)
-----------------------------------------------------------------------------
(* Outgoing commands.                                                      *)

AttemptKeys(operation) == {operation} \X (1..MaxAttempts)
ReauthorizeKeys == {"REAUTHORIZE"} \X (2..(MaxReauthorizations + 1))
CaptureKeys == AttemptKeys("CAPTURE")
RefundKeys == AttemptKeys("REFUND")
Keys == CaptureKeys \cup RefundKeys \cup ReauthorizeKeys
NoKey == <<"NONE", 0>>

Pending(keys) == {k \in keys : command[k] = "PENDING"}
Sent(keys) == {k \in keys : command[k] # "NONE"}

(* mutation: every retry takes a new key                                   *)
ClaimCommandAnew(keys, key) ==
  /\ key \in keys
  /\ key[2] = Cardinality(Sent(keys)) + 1
  /\ command' = [command EXCEPT ![key] = "PENDING"]

(* mutation: a command whose outcome is unknown is never taken up again    *)
ClaimCommandOnce(keys, key) ==
  /\ key \in keys
  /\ Pending(keys) = {}
  /\ key[2] = Cardinality(Sent(keys)) + 1
  /\ command' = [command EXCEPT ![key] = "PENDING"]

(* claimCommand under the payment row lock: the PENDING row of the         *)
(* operation once its lease is over, else a row with the next attempt      *)
(* number.                                                                 *)
ClaimCommand(keys, key) ==
  /\ key \in keys
  /\ \/ /\ key \in Pending(keys) \cap leaseOver
        /\ \A k \in Pending(keys) : k[2] <= key[2]
        /\ UNCHANGED command
     \/ /\ Pending(keys) = {}
        /\ key[2] = Cardinality(Sent(keys)) + 1
        /\ command[key] = "NONE"
        /\ command' = [command EXCEPT ![key] = "PENDING"]

Idle == [pc |-> "idle", key |-> NoKey, amount |-> 0, seen |-> "NONE"]

(* The caller leaves its transaction with a request for the provider.      *)
Send(c, key, amount, seen) ==
  /\ call' = [call EXCEPT ![c] =
                [pc |-> "sent", key |-> key, amount |-> amount, seen |-> seen]]
  /\ requests' = requests \cup {[key |-> key, amount |-> amount]}

(* mutation: no answer is taken for a success                              *)
AnsweredOrNot(c, result) ==
  /\ call[c].pc = "sent"
  /\ \/ provider[call[c].key] = result
     \/ provider[call[c].key] = "NONE" /\ result = "EXECUTED"

(* The provider's answer has reached the caller.                           *)
Answered(c, result) == call[c].pc = "sent" /\ provider[call[c].key] = result

(* completeCommand has no condition on the command's status.               *)
CompleteCommand(c, status) ==
  /\ command' = [command EXCEPT ![call[c].key] = status]
  /\ call' = [call EXCEPT ![c] = Idle]
-----------------------------------------------------------------------------
NoTx == [to |-> "NONE", write |-> NoWrite, opens |-> FALSE]

NeverLocked == TRUE  \* mutation: the booking row is read without a lock

(* A transaction that locks or shares the booking row waits for this.      *)
BookingUnlocked == bookingTx = NoTx

Init ==
  /\ booking = "SCHEDULED"
  /\ payment = [status |-> "HELD", frozenFrom |-> "NONE", refunded |-> 0,
                lapsed |-> FALSE, reauths |-> 0]
  /\ disputeOpen = FALSE /\ disputes = 0
  /\ bookingTx = NoTx /\ resolution = "NONE"
  /\ command = [k \in Keys |-> "NONE"] /\ leaseOver = {}
  /\ call = [c \in Callers |-> Idle]
  /\ requests = {} /\ provider = [k \in Keys |-> "NONE"]
  /\ providerRefunded = 0
  /\ webhooks = {}
-----------------------------------------------------------------------------
(* Bookings.                                                               *)

(* A transition that has no payment effect is one transaction.             *)
Transition(to, actor) ==
  /\ BookingUnlocked
  /\ TransitionAllowed(booking, to, actor)
  /\ booking' = to
  /\ UNCHANGED <<payment, disputeOpen, disputes, txs, books, outside, webhooks>>

UserTransition ==
  \/ \E to \in {"PROVIDER_ARRIVING", "CHECKED_IN", "CHECKED_OUT"} :
       Transition(to, "PROVIDER")
  \/ \E actor \in {"CUSTOMER", "PROVIDER", "ADMIN"} :
       Transition("CANCELLED", actor)

(* The transaction locks the booking, reads the payment and holds what it  *)
(* will write.                                                             *)
BeginTx(to, write, opens) ==
  /\ BookingUnlocked
  /\ bookingTx' = [to |-> to, write |-> write, opens |-> opens]
  /\ UNCHANGED <<rows, resolution, books, outside, webhooks>>

(* The customer's confirmation is chained to COMPLETED in one transaction. *)
Confirm ==
  /\ TransitionAllowed(booking, "CUSTOMER_CONFIRMED", "CUSTOMER")
  /\ BeginTx("COMPLETED", markServiceCompleted(payment), FALSE)

(* Service starts, or an operator lifts a safety hold.  A repeated request *)
(* finds the booking already there, and still unfreezes.                   *)
StartService ==
  /\ \/ \E actor \in {"PROVIDER", "ADMIN"} :
          TransitionAllowed(booking, "IN_PROGRESS", actor)
     \/ booking = "IN_PROGRESS"
  /\ BeginTx("IN_PROGRESS", unfreeze(payment, disputeOpen), FALSE)

(* A panic holds the booking through advanceBySystemWithin.                *)
SafetyHold ==
  /\ TransitionAllowed(booking, "SAFETY_HOLD", "SYSTEM")
  /\ BeginTx("SAFETY_HOLD", freezeForDispute(payment), FALSE)

DISPUTABLE_STATUSES ==
  {"CHECKED_IN", "IN_PROGRESS", "CHECKED_OUT", "CUSTOMER_CONFIRMED",
   "COMPLETED", "SAFETY_HOLD", "DISPUTED"}

(* A party opens a dispute: the insert, the freeze and the booking's own   *)
(* transition, which a booking on hold does not take.                      *)
OpenDispute ==
  /\ disputes < MaxDisputes
  /\ booking \in DISPUTABLE_STATUSES
  /\ ~disputeOpen
  /\ \/ /\ booking \in {"DISPUTED", "SAFETY_HOLD"}
        /\ BeginTx(booking, freezeForDispute(payment), TRUE)
     \/ /\ TransitionAllowed(booking, "DISPUTED", "CUSTOMER")
        /\ BeginTx("DISPUTED", freezeForDispute(payment), TRUE)

CommitTx ==
  /\ bookingTx # NoTx
  /\ booking' = bookingTx.to
  /\ payment' = Apply(bookingTx.write, payment)
  /\ disputeOpen' = (disputeOpen \/ bookingTx.opens)
  /\ disputes' = IF bookingTx.opens THEN disputes + 1 ELSE disputes
  /\ bookingTx' = NoTx
  /\ UNCHANGED <<resolution, books, outside, webhooks>>

(* A crash, a lost connection, or the victim of a deadlock.                *)
RollbackTx ==
  /\ bookingTx # NoTx
  /\ bookingTx' = NoTx
  /\ UNCHANGED <<rows, resolution, books, outside, webhooks>>

(* The operator's decision: the dispute row is locked and unfreeze reads   *)
(* the payment before the booking row is locked.                           *)
BeginResolve ==
  /\ disputeOpen /\ resolution = "NONE"
  /\ resolution' = LET write == unfreeze(payment, FALSE)
                   IN  IF write = NoWrite THEN "KEEP" ELSE write.status
  /\ UNCHANGED <<rows, bookingTx, books, outside, webhooks>>

CommitResolve ==
  /\ resolution # "NONE" /\ BookingUnlocked
  /\ payment' = IF resolution = "KEEP" THEN payment
                ELSE UpdateStatus(payment, resolution, "NONE")
  /\ disputeOpen' = FALSE
  /\ IF booking = "DISPUTED"
     THEN \E to \in {"CANCELLED", "COMPLETED"} :
            TransitionAllowed(booking, to, "ADMIN") /\ booking' = to
     ELSE UNCHANGED booking
  /\ resolution' = "NONE"
  /\ UNCHANGED <<disputes, bookingTx, books, outside, webhooks>>

RollbackResolve ==
  /\ resolution # "NONE"
  /\ resolution' = "NONE"
  /\ UNCHANGED <<rows, bookingTx, books, outside, webhooks>>
-----------------------------------------------------------------------------
(* Release.                                                                *)

(* The worker's query for payments whose dispute window is over.           *)
Candidate ==
  /\ payment.status \in {"SERVICE_COMPLETED", "RELEASE_PENDING"}
  /\ booking = "COMPLETED"
  /\ ~payment.lapsed

TickSelect(w) ==
  /\ call[w].pc = "idle" /\ Candidate
  /\ call' = [call EXCEPT ![w].pc = "selected"]
  /\ UNCHANGED <<rows, txs, command, leaseOver, outside, webhooks>>

(* evaluateReleaseBlock and assertReleasableState, under the payment lock  *)
(* and with the booking and the dispute read FOR SHARE.                    *)
Releasable ==
  /\ ~blocksPaymentRelease(booking)
  /\ ~disputeOpen
  /\ payment.status \notin {"DISPUTED", "RELEASED"}
  /\ ~payment.lapsed
  /\ holdsAuthorization(payment.status)

ReleasePrepare(c) ==
  /\ call[c].pc = IF c \in Workers THEN "selected" ELSE "idle"
  /\ BookingUnlocked
  /\ Releasable
  /\ \E key \in CaptureKeys :
       ClaimCommand(CaptureKeys, key) /\ Send(c, key, Amount, "NONE")
  /\ IF payment.status = "RELEASE_PENDING" THEN UNCHANGED payment
     ELSE /\ PaymentTransition(payment.status, "RELEASE_PENDING", "COMMAND")
          /\ payment' = UpdateStatus(payment, "RELEASE_PENDING", "NONE")
  /\ UNCHANGED <<booking, disputeOpen, disputes, txs, leaseOver, provider,
                 providerRefunded, webhooks>>

(* The command, the payment and the booking move together, or not at all.  *)
ReleaseFinalise(c) ==
  /\ Answered(c, "EXECUTED")
  /\ BookingUnlocked
  /\ PaymentTransition(payment.status, "RELEASED", "COMMAND")
  /\ CompleteCommand(c, "SUCCEEDED")
  /\ payment' = UpdateStatus(payment, "RELEASED", "NONE")
  /\ booking' = IF booking = "COMPLETED" THEN "SETTLED" ELSE booking
  /\ UNCHANGED <<disputeOpen, disputes, txs, leaseOver, outside, webhooks>>
-----------------------------------------------------------------------------
(* Refund.                                                                 *)

RefundPrepare(c) ==
  /\ call[c].pc = "idle"
  /\ \E amount \in 1..(Amount - payment.refunded), key \in RefundKeys :
       ClaimCommand(RefundKeys, key) /\ Send(c, key, amount, "NONE")
  /\ UNCHANGED <<rows, txs, leaseOver, provider, providerRefunded, webhooks>>

(* A full refund ends the payment, a partial one leaves its status alone.  *)
RefundFinalise(c) ==
  LET total == payment.refunded + call[c].amount
      row == [payment EXCEPT !.refunded = total]
  IN  /\ Answered(c, "EXECUTED")
      /\ RowAllowed(row)
      /\ IF total >= Amount
         THEN /\ PaymentTransition(payment.status, "REFUNDED", "COMMAND")
              /\ payment' = UpdateStatus(row, "REFUNDED", "NONE")
         ELSE payment' = row
      /\ CompleteCommand(c, "SUCCEEDED")
      /\ UNCHANGED <<booking, disputeOpen, disputes, txs, leaseOver, outside,
                     webhooks>>
-----------------------------------------------------------------------------
(* Reauthorization: the status read before the call is written after it.   *)

ReauthorizePrepare(c) ==
  LET key == <<"REAUTHORIZE", payment.reauths + 2>>
  IN  /\ call[c].pc = "idle"
      /\ holdsAuthorization(payment.status)
      /\ payment.reauths < MaxReauthorizations
      /\ command[key] = "NONE"
      /\ command' = [command EXCEPT ![key] = "PENDING"]
      /\ Send(c, key, 0, payment.status)
      /\ UNCHANGED <<rows, txs, leaseOver, provider, providerRefunded, webhooks>>

ReauthorizeFinalise(c) ==
  /\ Answered(c, "EXECUTED")
  /\ CompleteCommand(c, "SUCCEEDED")
  /\ payment' = [UpdateStatus(payment, call[c].seen, "NONE")
                   EXCEPT !.lapsed = FALSE, !.reauths = @ + 1]
  /\ UNCHANGED <<booking, disputeOpen, disputes, txs, leaseOver, outside, webhooks>>
-----------------------------------------------------------------------------
(* The end of a call that has no finalising transaction.                   *)

(* mutation: every error of a call is recorded as a decline                *)
RecordFailure(c) ==
  /\ call[c].pc = "sent"
  /\ CompleteCommand(c, "FAILED")
  /\ UNCHANGED <<rows, txs, leaseOver, outside, webhooks>>

(* recordCommandFailure after a decline: nothing was executed.             *)
RecordDecline(c) ==
  /\ Answered(c, "DECLINED")
  /\ CompleteCommand(c, "FAILED")
  /\ UNCHANGED <<rows, txs, leaseOver, outside, webhooks>>

(* A timeout, an error of the provider, a crash of the process, a          *)
(* finalising transaction that rolls back, or a selected payment that can  *)
(* no longer be released: the command row stays as it is.                  *)
Abandon(c) ==
  /\ call[c].pc # "idle"
  /\ call' = [call EXCEPT ![c] = Idle]
  /\ UNCHANGED <<rows, txs, command, leaseOver, outside, webhooks>>

LeaseExpires(key) ==
  /\ command[key] = "PENDING" /\ key \notin leaseOver
  /\ leaseOver' = leaseOver \cup {key}
  /\ UNCHANGED <<rows, txs, command, call, outside, webhooks>>
-----------------------------------------------------------------------------
(* The provider: the first request under a key decides, and its result is  *)
(* stored.  The mock in the repository does so with what it has executed;  *)
(* it forgets what it has declined.  That a licensed provider keeps a      *)
(* decline under its key too is assumed of it.                             *)

ProviderExecutes(request) ==
  LET key == request.key
  IN  /\ provider[key] = "NONE"
      /\ provider' = [provider EXCEPT ![key] = "EXECUTED"]
      /\ IF key \in RefundKeys
         THEN /\ providerRefunded + request.amount <= Amount
              /\ providerRefunded' = providerRefunded + request.amount
         ELSE UNCHANGED providerRefunded
      /\ UNCHANGED <<rows, txs, books, requests, webhooks>>

ProviderDeclines(request) ==
  /\ provider[request.key] = "NONE"
  /\ provider' = [provider EXCEPT ![request.key] = "DECLINED"]
  /\ UNCHANGED <<rows, txs, books, requests, providerRefunded, webhooks>>

(* authorization_expires_at goes by; nobody reads it of a payment that has *)
(* ended.                                                                  *)
AuthorizationLapses ==
  /\ ~payment.lapsed
  /\ payment.status \notin TERMINAL_PAYMENT_STATUSES
  /\ payment' = [payment EXCEPT !.lapsed = TRUE]
  /\ UNCHANGED <<booking, disputeOpen, disputes, txs, books, outside, webhooks>>

expireStaleAuthorizations ==
  /\ payment.lapsed
  /\ payment.status \in {"AUTHORIZED", "HELD", "SERVICE_COMPLETED"}
  /\ PaymentTransition(payment.status, "AUTHORIZATION_EXPIRED", "SYSTEM")
  /\ payment' = UpdateStatus(payment, "AUTHORIZATION_EXPIRED", "NONE")
  /\ UNCHANGED <<booking, disputeOpen, disputes, txs, books, outside, webhooks>>
-----------------------------------------------------------------------------
(* Webhooks.                                                               *)

statusForWebhook(type) ==
  CASE type = "CAPTURED"       -> "RELEASED"
    [] type = "EXPIRED"        -> "AUTHORIZATION_EXPIRED"
    [] type = "DISPUTE_OPENED" -> "DISPUTED"
    [] OTHER                   -> type

(* The provider only reports what has happened on its side.                *)
Emitted(type) ==
  CASE type = "CAPTURED" -> \E k \in CaptureKeys : provider[k] = "EXECUTED"
    [] type = "REFUNDED" -> providerRefunded = Amount
    [] type = "EXPIRED"  -> payment.lapsed
    [] type = "FAILED"   -> FALSE
    [] OTHER             -> TRUE

(* An event is recorded once, whatever the number of its deliveries, and   *)
(* applied if the table lets a webhook take the payment there.             *)
handleWebhook(type) ==
  LET target == statusForWebhook(type)
      updated == UpdateStatus(payment, target, "NONE")
      row == IF target = "REFUNDED" THEN [updated EXCEPT !.refunded = Amount]
             ELSE updated
      applies == /\ payment.status # target
                 /\ ~isBackwardProgress(payment.status, target)
                 /\ PaymentTransition(payment.status, target, "WEBHOOK")
  IN  /\ type \notin webhooks /\ Emitted(type)
      /\ IF applies THEN RowAllowed(row) /\ payment' = row
                    ELSE UNCHANGED payment
      /\ webhooks' = webhooks \cup {type}
      /\ UNCHANGED <<booking, disputeOpen, disputes, txs, books, outside>>
-----------------------------------------------------------------------------
BookingStep == UserTransition \/ Confirm \/ StartService \/ SafetyHold
                 \/ OpenDispute \/ CommitTx \/ RollbackTx

ResolveStep == BeginResolve \/ CommitResolve \/ RollbackResolve

CallerStep ==
  \/ \E w \in Workers : TickSelect(w)
  \/ \E c \in Operators \cup Workers : ReleasePrepare(c) \/ ReleaseFinalise(c)
  \/ \E c \in Refunders : RefundPrepare(c) \/ RefundFinalise(c)
  \/ \E c \in Reauthorizers : ReauthorizePrepare(c) \/ ReauthorizeFinalise(c)
  \/ \E c \in Callers : RecordDecline(c) \/ Abandon(c)

ProviderStep ==
  \/ \E r \in requests : ProviderExecutes(r) \/ ProviderDeclines(r)
  \/ \E type \in WebhookTypes : handleWebhook(type)

ClockStep == AuthorizationLapses \/ expireStaleAuthorizations
               \/ \E k \in Keys : LeaseExpires(k)

Next == BookingStep \/ ResolveStep \/ CallerStep \/ ProviderStep \/ ClockStep

Spec == Init /\ [][Next]_vars

(* A step of the worker that its own code refuses: the payment cannot be   *)
(* released any more, its command is in flight, or the finalising          *)
(* transaction would take it out of the table.                             *)
Refused(w) ==
  \/ /\ call[w].pc = "selected" /\ BookingUnlocked
     /\ ~Releasable \/ \E k \in Pending(CaptureKeys) : k \notin leaseOver
  \/ /\ Answered(w, "EXECUTED")
     /\ ~PaymentTransition(payment.status, "RELEASED", "COMMAND")

Failure ==
  \/ RollbackTx \/ RollbackResolve
  \/ \E c \in Callers : Abandon(c) /\ ~Refused(c)

(* What the running system keeps doing: the worker's interval goes on,     *)
(* leases run out, transactions end, the provider decides every request.   *)
(* Crashes, timeouts and deadlocks happen any number of times, but stop.   *)
Fairness ==
  /\ WF_vars(CommitTx) /\ WF_vars(CommitResolve)
  /\ \A k \in Keys : WF_vars(LeaseExpires(k))
  /\ WF_vars(\E r \in requests : ProviderExecutes(r) \/ ProviderDeclines(r))
  /\ \A w \in Workers :
       /\ WF_vars(TickSelect(w)) /\ WF_vars(ReleasePrepare(w))
       /\ WF_vars(ReleaseFinalise(w)) /\ WF_vars(RecordDecline(w))
       /\ WF_vars(Abandon(w) /\ Refused(w))
  /\ <>[][~Failure]_vars

FairSpec == Spec /\ Fairness
-----------------------------------------------------------------------------
(* Properties.                                                             *)

BookingTx == [to    : BOOKING_STATUSES,
              write : [status : PAYMENT_STATUSES \cup {"NONE"},
                       origin : PAYMENT_STATUSES \cup {"NONE"}],
              opens : BOOLEAN] \cup {NoTx}

Call == [pc     : {"idle", "selected", "sent"},
         key    : Keys \cup {NoKey},
         amount : 0..Amount,
         seen   : PAYMENT_STATUSES \cup {"NONE"}]

(* Every variable holds a value its column or its place in the code allows.*)
TypeOK ==
  /\ booking \in BOOKING_STATUSES
  /\ payment \in Payment
  /\ disputeOpen \in BOOLEAN /\ disputes \in Nat
  /\ bookingTx \in BookingTx
  /\ resolution \in PAYMENT_STATUSES \cup {"NONE", "KEEP"}
  /\ command \in [Keys -> {"NONE", "PENDING", "SUCCEEDED", "FAILED"}]
  /\ leaseOver \subseteq Keys
  /\ call \in [Callers -> Call]
  /\ \A c \in Reauthorizers : call[c].pc = "sent" => call[c].seen # "NONE"
  /\ requests \subseteq [key : Keys, amount : 0..Amount]
  /\ provider \in [Keys -> {"NONE", "EXECUTED", "DECLINED"}]
  /\ providerRefunded \in 0..Amount
  /\ webhooks \subseteq WebhookTypes

(* The provider never executes two captures of the payment, whatever       *)
(* answers are lost, whoever retries and whenever: claimCommand issues a   *)
(* new idempotency key only when no earlier one can have moved money.      *)
CaptureAtMostOnce ==
  \A k, l \in CaptureKeys :
    provider[k] = "EXECUTED" /\ provider[l] = "EXECUTED" => k = l

(* While a dispute is open the payment is frozen or has ended without      *)
(* paying the provider, although freezeForDispute and unfreeze read it     *)
(* without a lock.                                                         *)
FrozenOrEnded == {"DISPUTED", "REFUNDED", "AUTHORIZATION_EXPIRED", "FAILED"}
OpenDisputeFreezes == disputeOpen => payment.status \in FrozenOrEnded

(* RELEASED, and a freeze that remembers RELEASED, are only ever written   *)
(* about money the provider really captured.                               *)
ReleasedMeansCaptured ==
  "RELEASED" \in {payment.status, payment.frozenFrom} =>
    \E k \in CaptureKeys : provider[k] = "EXECUTED"

(* A settled booking stays settled and keeps a payment that was released,  *)
(* or released and then given back: a dispute being opened while the       *)
(* release finalises meets it on the booking row, not after it.            *)
SettledIsFinal ==
  [][booking = "SETTLED" =>
       booking' = "SETTLED" /\ payment'.status \in {"RELEASED", "REFUNDED"}]_vars

(* A command whose outcome is known keeps it, although completeCommand     *)
(* writes without looking and two callers may hold the same command.       *)
OutcomeIsFinal ==
  [][\A k \in Keys : command[k] \in {"SUCCEEDED", "FAILED"}
                        => command'[k] = command[k]]_vars

(* Why captures do not repeat, as an inductive invariant of the system     *)
(* without reauthorizations.                                               *)

(* Nothing reaches the provider before its command row is committed, and   *)
(* a caller holds a key of its own operation.                              *)
SentIsReserved ==
  /\ \A k \in Keys : command[k] = "NONE" => provider[k] = "NONE"
  /\ \A r \in requests : command[r.key] # "NONE"
  /\ \A c \in Callers : call[c].pc = "sent" =>
       /\ call[c].key \in Keys
       /\ command[call[c].key] # "NONE"
       /\ c \in Operators \cup Workers => call[c].key \in CaptureKeys
       /\ c \in Refunders => call[c].key \in RefundKeys
       /\ c \in Reauthorizers => call[c].key \in ReauthorizeKeys

(* A recorded outcome is the provider's.                                   *)
OutcomesAreTrue ==
  \A k \in Keys : /\ command[k] = "SUCCEEDED" => provider[k] = "EXECUTED"
                  /\ command[k] = "FAILED" => provider[k] = "DECLINED"

(* At most one capture has not been declined.                              *)
OneCapture ==
  \A k, l \in CaptureKeys :
    /\ command[k] \in {"PENDING", "SUCCEEDED"}
    /\ command[l] \in {"PENDING", "SUCCEEDED"}
    => k = l

(* Exactly a frozen payment knows the status to go back to.                *)
FreezeKnowsOrigin ==
  /\ payment.status = "DISPUTED" <=> payment.frozenFrom # "NONE"
  /\ bookingTx.write.status = "DISPUTED" => bookingTx.write.origin # "NONE"
  /\ resolution # "DISPUTED"

(* A review is only held up by transactions that cannot thaw the payment.  *)
ReviewFreezes ==
  /\ payment.status # "CREATED" /\ resolution # "CREATED"
  /\ bookingTx.write.status # "CREATED"
  /\ resolution # "NONE" => disputeOpen
  /\ disputeOpen => /\ payment.status \in FrozenOrEnded
                    /\ bookingTx.write = NoWrite /\ ~bookingTx.opens
  /\ bookingTx.opens =>
       \/ bookingTx.write.status \in FrozenOrEnded
       \/ bookingTx.write = NoWrite /\ payment.status \in FrozenOrEnded

(* Once a capture is known to have succeeded, nobody is about to write a   *)
(* status from before it.                                                  *)
PaidStaysPaid ==
  (\E k \in CaptureKeys : command[k] = "SUCCEEDED") =>
    /\ \/ payment.status \in {"RELEASED", "REFUNDED"}
       \/ payment.status = "DISPUTED" /\ payment.frozenFrom = "RELEASED"
    /\ bookingTx.write \in {NoWrite, Write("DISPUTED", "RELEASED")}
    /\ resolution \in {"NONE", "KEEP"}

CaptureInv ==
  /\ TypeOK
  /\ SentIsReserved
  /\ OutcomesAreTrue
  /\ OneCapture
  /\ FreezeKnowsOrigin
  /\ ReviewFreezes
  /\ PaidStaysPaid

(* The worker pays every booking it can: a completed booking whose payment *)
(* may be released is settled, unless it is disputed, the authorization    *)
(* runs out, or the provider has declined every attempt the model allows.  *)
CompletedGetsPaid ==
  (Candidate /\ ~disputeOpen)
    ~> (\/ booking # "COMPLETED" \/ payment.lapsed
        \/ \A k \in CaptureKeys : command[k] = "FAILED")
-----------------------------------------------------------------------------
(* What the comments and the tests of the code say, and the code does not  *)
(* do.                                                                     *)

(* The refunded amount on the books has really been given back.            *)
RefundsAreReal == payment.refunded <= providerRefunded

(* A safety hold freezes the money for as long as it lasts.                *)
HoldFreezes ==
  booking = "SAFETY_HOLD" => payment.status = "DISPUTED" \/ ~IsLive(payment.status)

(* Once the dispute of a completed booking is resolved its payment can be  *)
(* released: it has got past HELD and is no longer frozen.                 *)
ResolvedIsPayable ==
  booking = "COMPLETED" /\ ~disputeOpen =>
    payment.status \notin {"HELD", "DISPUTED"}

(* Once the provider has paid out, the completed booking is settled.       *)
ReleasedGetsSettled ==
  (payment.status = "RELEASED" /\ booking = "COMPLETED") ~> booking # "COMPLETED"
=============================================================================
