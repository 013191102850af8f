--------------------------- MODULE BookingStates ---------------------------
(***************************************************************************)
(* The booking state machine of bookings/state: the statuses of the        *)
(* bookings.status column, who may move a booking from which status to     *)
(* which, and the statuses that hold the money back.  Pure definitions: a  *)
(* step of the booking is taken by the modules that EXTEND this one.       *)
(***************************************************************************)

BOOKING_STATUSES ==
  {"REQUESTED", "MATCHED", "PROVIDER_PENDING", "CONFIRMED",
   "PAYMENT_AUTHORIZED", "SCHEDULED", "PROVIDER_ARRIVING", "CHECKED_IN",
   "IN_PROGRESS", "CHECKED_OUT", "CUSTOMER_CONFIRMED", "COMPLETED",
   "SETTLED", "CANCELLED", "DISPUTED", "SAFETY_HOLD"}

Actors == {"CUSTOMER", "PROVIDER", "ADMIN", "SYSTEM"}

TERMINAL_STATUSES == {"SETTLED", "CANCELLED"}

PAYMENT_BLOCKING_STATUSES == {"SAFETY_HOLD", "DISPUTED"}

blocksPaymentRelease(status) == status \in PAYMENT_BLOCKING_STATUSES

(* Statuses in which a party may still call the visit off.                 *)
BeforeService ==
  {"REQUESTED", "MATCHED", "PROVIDER_PENDING", "CONFIRMED",
   "PAYMENT_AUTHORIZED", "SCHEDULED", "PROVIDER_ARRIVING"}

(* The table TRANSITIONS with findTransition and isActorAllowed folded in: *)
(* may this actor move a booking from one status to the other?             *)
TransitionAllowed(from, to, actor) ==
  \/ /\ actor = "SYSTEM"
     /\ <<from, to>> \in {<<"REQUESTED", "MATCHED">>,
                          <<"MATCHED", "PROVIDER_PENDING">>,
                          <<"CONFIRMED", "PAYMENT_AUTHORIZED">>,
                          <<"PAYMENT_AUTHORIZED", "SCHEDULED">>,
                          <<"CUSTOMER_CONFIRMED", "COMPLETED">>,
                          <<"COMPLETED", "SETTLED">>}
  \/ /\ actor = "PROVIDER"
     /\ <<from, to>> \in {<<"PROVIDER_PENDING", "CONFIRMED">>,
                          <<"SCHEDULED", "PROVIDER_ARRIVING">>,
                          <<"PROVIDER_ARRIVING", "CHECKED_IN">>,
                          <<"CHECKED_IN", "IN_PROGRESS">>,
                          <<"IN_PROGRESS", "CHECKED_OUT">>}
  \/ /\ actor = "CUSTOMER"
     /\ from = "CHECKED_OUT" /\ to = "CUSTOMER_CONFIRMED"
  \/ /\ actor \in {"CUSTOMER", "PROVIDER", "ADMIN"}
     /\ from \in BeforeService /\ to = "CANCELLED"
  \/ /\ actor = "ADMIN"
     /\ from \in {"CHECKED_IN", "IN_PROGRESS", "CHECKED_OUT"}
     /\ to = "CANCELLED"
  \/ /\ actor \in {"SYSTEM", "ADMIN"}
     /\ from \in {"SCHEDULED", "PROVIDER_ARRIVING", "CHECKED_IN",
                  "IN_PROGRESS", "CHECKED_OUT"}
     /\ to = "SAFETY_HOLD"
  \/ /\ actor = "ADMIN"
     /\ from = "SAFETY_HOLD" /\ to \in {"IN_PROGRESS", "CANCELLED", "DISPUTED"}
  \/ /\ actor \in {"CUSTOMER", "PROVIDER", "ADMIN"}
     /\ from \in {"CHECKED_OUT", "CUSTOMER_CONFIRMED", "COMPLETED"}
     /\ to = "DISPUTED"
  \/ /\ actor = "ADMIN"
     /\ from = "DISPUTED" /\ to \in {"COMPLETED", "CANCELLED"}
=============================================================================
