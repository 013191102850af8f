------------------------------- MODULE Escrow -------------------------------
(***************************************************************************)
(* What the payment subsystem promises about the money of one booking,     *)
(* with no provider, no keys and no retries: it is held until a decision   *)
(* to pay that is only taken while nobody reviews the booking, it is paid  *)
(* at most once and only on such a decision, and the booking is settled    *)
(* after that and never reviewed again.                                    *)
(***************************************************************************)

VARIABLES
  money,    \* held, committed to the provider, or paid
  review,   \* is the booking disputed or on safety hold?
  settled

vars == <<money, review, settled>>

TypeOK == /\ money \in {"held", "committed", "paid"}
          /\ review \in BOOLEAN
          /\ settled \in BOOLEAN

Init == money = "held" /\ review = FALSE /\ settled = FALSE

Commit == /\ money = "held" /\ ~review
          /\ money' = "committed"
          /\ UNCHANGED <<review, settled>>

Decline == /\ money = "committed"
           /\ money' = "held"
           /\ UNCHANGED <<review, settled>>

Pay == /\ money = "committed"
       /\ money' = "paid"
       /\ UNCHANGED <<review, settled>>

Settle == /\ money = "paid" /\ ~review /\ ~settled
          /\ settled' = TRUE
          /\ UNCHANGED <<money, review>>

BeginReview == /\ ~review /\ ~settled
               /\ review' = TRUE
               /\ UNCHANGED <<money, settled>>

EndReview == /\ review
             /\ review' = FALSE
             /\ UNCHANGED <<money, settled>>

Next == Commit \/ Decline \/ Pay \/ Settle \/ BeginReview \/ EndReview

Spec == Init /\ [][Next]_vars
=============================================================================
