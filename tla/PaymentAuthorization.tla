------------------------- MODULE PaymentAuthorization ------------------------
(* How the money of a booking comes to be held: authorizeForBooking of     *)
(* payments.service.ts, between the acceptance by the provider (CONFIRMED) *)
(* and the state that Payments starts in (SCHEDULED and HELD).  It reads   *)
(* without locks, calls the payment provider outside any transaction and   *)
(* books the answer in one.                                                *)
(*                                                                         *)
(* Webhooks do nothing here: they find a payment by its external id, which *)
(* is written by the transaction that makes it HELD.  Abstracted: amounts, *)
(* and createIntent, which moves no money.                                 *)
EXTENDS BookingStates, PaymentStates

CONSTANTS
  Buyers,     \* the requests for authorization that are handled at a time
  Intents,    \* bound: the rows of payments
  NoIntent    \* no payment

ASSUME IntentsAssumption == NoIntent \notin Intents

VARIABLES
  bookingStatus, \* bookings.status
  paymentStatus, \* payments.status of each row, "NONE" before there is one
  authorizeCmd,  \* payment_commands.status of the one AUTHORIZE key of each row
  holds,         \* the payments the provider holds money for
  buyer,         \* per request: how far it is, and the payment it is about
  unheard,       \* ghost: payments whose outcome no process has booked
  overtaken      \* ghost: payments whose booking needed none any more when the answer came

authorizationVars ==
  <<bookingStatus, paymentStatus, authorizeCmd, holds, buyer, unheard, overtaken>>

Waits == [pc |-> "idle", payment |-> NoIntent]

(* A provider has been found.                                              *)
AuthorizationInit ==
  /\ bookingStatus = "PROVIDER_PENDING"
  /\ paymentStatus = [p \in Intents |-> "NONE"] /\ authorizeCmd = [p \in Intents |-> "NONE"]
  /\ holds = {} /\ unheard = {} /\ overtaken = {}
  /\ buyer = [b \in Buyers |-> Waits]
-----------------------------------------------------------------------------
(* The rows that findLiveForBooking finds.                                 *)
LiveIntents == {p \in Intents : paymentStatus[p] # "NONE" /\ IsLive(paymentStatus[p])}

(* The booking moves on: the provider accepts, or someone cancels.         *)
Moves(to, actor) ==
  /\ to \in {"CONFIRMED", "CANCELLED"} /\ actor \in {"PROVIDER", "CUSTOMER"}
  /\ TransitionAllowed(bookingStatus, to, actor)
  /\ bookingStatus' = to
  /\ UNCHANGED <<paymentStatus, authorizeCmd, holds, buyer, unheard, overtaken>>

(* A payment that is held ends before its visit: it is given back, or      *)
(* expires.  Either makes room for another row.                            *)
HoldEnds(p) ==
  /\ paymentStatus[p] = "HELD" /\ p \in holds
  /\ \E to \in {"REFUNDED", "AUTHORIZATION_EXPIRED"} : paymentStatus' = [paymentStatus EXCEPT ![p] = to]
  /\ holds' = holds \ {p}
  /\ UNCHANGED <<bookingStatus, authorizeCmd, buyer, unheard, overtaken>>

(* The booking is read without a lock; only a CONFIRMED one gets on.       *)
loadBookingForCustomer(b) ==
  /\ buyer[b] = Waits /\ bookingStatus = "CONFIRMED"
  /\ buyer' = [buyer EXCEPT ![b].pc = "find"]
  /\ UNCHANGED <<bookingStatus, paymentStatus, authorizeCmd, holds, unheard, overtaken>>

(* So is its live payment: one that was not sent yet is taken up, one that *)
(* is further ends the request, and without any a row is to be inserted.   *)
findLiveForBooking(b) ==
  /\ buyer[b].pc = "find"
  /\ \/ LiveIntents = {} /\ buyer' = [buyer EXCEPT ![b].pc = "create"]
     \/ \E p \in LiveIntents :
          buyer' = [buyer EXCEPT ![b] = IF paymentStatus[p] = "CREATED"
                                        THEN [pc |-> "reserve", payment |-> p] ELSE Waits]
  /\ UNCHANGED <<bookingStatus, paymentStatus, authorizeCmd, holds, unheard, overtaken>>

(* The insert of a second live row fails on uq_payments_live_per_booking.  *)
createPayment(b) ==
  /\ buyer[b].pc = "create"
  /\ \/ /\ LiveIntents # {} /\ buyer' = [buyer EXCEPT ![b] = Waits] /\ UNCHANGED paymentStatus
     \/ /\ LiveIntents = {}
        /\ \E p \in {q \in Intents : paymentStatus[q] = "NONE"} :
             /\ paymentStatus' = [paymentStatus EXCEPT ![p] = "CREATED"]
             /\ buyer' = [buyer EXCEPT ![b] = [pc |-> "reserve", payment |-> p]]
  /\ UNCHANGED <<bookingStatus, authorizeCmd, holds, unheard, overtaken>>

(* The key is reserved before the call.  It is always that of attempt 1, so*)
(* whoever finds it reserved gives up, however long ago that was.          *)
reserveCommand(b) ==
  LET p == buyer[b].payment IN
  /\ buyer[b].pc = "reserve"
  /\ \/ /\ authorizeCmd[p] = "NONE"
        /\ authorizeCmd' = [authorizeCmd EXCEPT ![p] = "PENDING"]
        /\ buyer' = [buyer EXCEPT ![b].pc = "call"]
     \/ authorizeCmd[p] # "NONE" /\ buyer' = [buyer EXCEPT ![b] = Waits] /\ UNCHANGED authorizeCmd
  /\ UNCHANGED <<bookingStatus, paymentStatus, holds, unheard, overtaken>>

(* The provider holds the money, or declines, and its answer arrives.      *)
authorize(b) ==
  /\ buyer[b].pc = "call"
  /\ \/ /\ holds' = holds \cup {buyer[b].payment}
        /\ buyer' = [buyer EXCEPT ![b].pc = "authorized"]
     \/ UNCHANGED holds /\ buyer' = [buyer EXCEPT ![b].pc = "declined"]
  /\ UNCHANGED <<bookingStatus, paymentStatus, authorizeCmd, unheard, overtaken>>

(* mutation: an unknown outcome is recorded like a decline.                *)
TakenForDeclined(b) ==
  /\ buyer[b].pc = "call"
  /\ holds' \in {holds, holds \cup {buyer[b].payment}}
  /\ buyer' = [buyer EXCEPT ![b].pc = "declined"]
  /\ unheard' = unheard \cup {buyer[b].payment}
  /\ UNCHANGED <<bookingStatus, paymentStatus, authorizeCmd, overtaken>>

(* Nobody can tell whether the provider was reached: the command stays as  *)
(* it is.  So it does when the process dies, or cannot book the answer.    *)
GoesUnheard(b) ==
  /\ \/ buyer[b].pc = "call" /\ holds' \in {holds, holds \cup {buyer[b].payment}}
     \/ buyer[b].pc \in {"authorized", "declined"} /\ UNCHANGED holds
  /\ buyer' = [buyer EXCEPT ![b] = Waits]
  /\ unheard' = unheard \cup {buyer[b].payment}
  /\ UNCHANGED <<bookingStatus, paymentStatus, authorizeCmd, overtaken>>

(* The process dies before the key is reserved.                            *)
DiesEarly(b) ==
  /\ buyer[b].pc \in {"find", "create", "reserve"} /\ buyer' = [buyer EXCEPT ![b] = Waits]
  /\ UNCHANGED <<bookingStatus, paymentStatus, authorizeCmd, holds, unheard, overtaken>>

(* A decline fails the command and the payment, which makes room for       *)
(* another one.                                                            *)
recordCommandFailure(b) ==
  LET p == buyer[b].payment IN
  /\ buyer[b].pc = "declined"
  /\ authorizeCmd' = [authorizeCmd EXCEPT ![p] = "FAILED"]
  /\ paymentStatus' = IF paymentStatus[p] = "CREATED"
                      THEN [paymentStatus EXCEPT ![p] = "FAILED"] ELSE paymentStatus
  /\ buyer' = [buyer EXCEPT ![b] = Waits]
  /\ UNCHANGED <<bookingStatus, holds, unheard, overtaken>>

(* A payment that was held, and is over.                                   *)
Ended(p) == paymentStatus[p] \in {"REFUNDED", "AUTHORIZATION_EXPIRED"}

(* The answer is booked, with the booking's two steps to SCHEDULED; when   *)
(* the booking does not allow them any more, all of it is rolled back.     *)
authorizeForBooking(b) ==
  LET p == buyer[b].payment IN
  /\ buyer[b].pc = "authorized"
  /\ \/ /\ TransitionAllowed(bookingStatus, "PAYMENT_AUTHORIZED", "SYSTEM")
        /\ authorizeCmd' = [authorizeCmd EXCEPT ![p] = "SUCCEEDED"]
        /\ paymentStatus' = [paymentStatus EXCEPT ![p] = "HELD"]
        /\ bookingStatus' = "SCHEDULED"
        /\ UNCHANGED overtaken
     \/ /\ ~TransitionAllowed(bookingStatus, "PAYMENT_AUTHORIZED", "SYSTEM")
        /\ overtaken' = IF bookingStatus = "CANCELLED" \/ (\E q \in Intents : Ended(q))
                        THEN overtaken \cup {p} ELSE overtaken
        /\ UNCHANGED <<bookingStatus, paymentStatus, authorizeCmd>>
  /\ buyer' = [buyer EXCEPT ![b] = Waits]
  /\ UNCHANGED <<holds, unheard>>

(* One step of a request or of the booking.                                *)
AuthorizationNext ==
  \/ \E to \in BOOKING_STATUSES, actor \in Actors : Moves(to, actor)
  \/ \E p \in Intents : HoldEnds(p)
  \/ \E b \in Buyers :
       \/ loadBookingForCustomer(b) \/ findLiveForBooking(b) \/ createPayment(b) \/ reserveCommand(b)
       \/ authorize(b) \/ GoesUnheard(b) \/ DiesEarly(b) \/ recordCommandFailure(b)
       \/ authorizeForBooking(b)

AuthorizationSpec == AuthorizationInit /\ [][AuthorizationNext]_authorizationVars
-----------------------------------------------------------------------------
(* The customer's limit is never blocked twice for one booking, whatever   *)
(* requests run at once, however calls end and whatever is tried again.    *)
OneHold == \A p, q \in holds : p = q

(* The payments that a request is about to book an answer for.             *)
InFlight == {buyer[b].payment : b \in {c \in Buyers : buyer[c].pc \in {"call", "authorized"}}}

(* What the provider holds the books know of, and the other way round: a   *)
(* hold without a payment is one whose answer is on its way, was lost, or  *)
(* came when the booking had been cancelled, or paid for, meanwhile.       *)
HoldsAreKnown ==
  \A p \in Intents :
    /\ paymentStatus[p] = "HELD" => p \in holds /\ bookingStatus \in {"SCHEDULED", "CANCELLED"}
    /\ p \in holds => paymentStatus[p] = "HELD" \/ p \in InFlight \cup unheard \cup overtaken

(* The customer can pay, after declines too: while a confirmed booking     *)
(* waits for its payment, nothing stands in the way of another attempt but *)
(* one whose outcome nobody knows.  That one does for good.                *)
MayTryAgain ==
  bookingStatus = "CONFIRMED" /\ (\A b \in Buyers : buyer[b] = Waits) =>
    \A p \in LiveIntents : p \in unheard \/ (paymentStatus[p] = "CREATED" /\ authorizeCmd[p] = "NONE")

(* The promises to the customer who pays for a booking: one hold, known to *)
(* the books, and a way on after a refusal.                                *)
OneHoldAndAnotherTry == OneHold /\ HoldsAreKnown /\ MayTryAgain
=============================================================================
