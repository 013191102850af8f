--------------------------- MODULE PaymentsEscrow ---------------------------
(* Payments implements Escrow.                                             *)
EXTENDS Payments

money ==
  IF \E k \in CaptureKeys : provider[k] = "EXECUTED" THEN "paid"
  ELSE IF Pending(CaptureKeys) # {} THEN "committed"
  ELSE "held"

review == disputeOpen \/ blocksPaymentRelease(booking)

E == INSTANCE Escrow WITH settled <- (booking = "SETTLED")

(* Every step of the bookings, the callers, the provider and the webhooks  *)
(* is one step of the escrow or none: retries under one key are one        *)
(* commitment, a decline takes it back, a payment is never made without    *)
(* one, and no review starts after SETTLED.                                *)
ImplementsEscrow == E!Spec
=============================================================================
