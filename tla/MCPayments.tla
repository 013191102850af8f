----------------------------- MODULE MCPayments -----------------------------
(* Payments with small sets of callers, for TLC.                           *)
EXTENDS PaymentsEscrow

CONSTANTS op1, op2, worker, refunder1, refunder2, reauthorizer

None == {}
TwoOperators == {op1, op2}
OneOperator == {op1}
OneWorker == {worker}
OneRefunder == {refunder1}
OneReauthorizer == {reauthorizer}

AllWebhooks == {"AUTHORIZED", "HELD", "CAPTURED", "REFUNDED", "FAILED",
                "EXPIRED", "DISPUTE_OPENED"}
CaptureWebhook == {"CAPTURED"}
MoneyWebhooks == {"CAPTURED", "REFUNDED"}
=============================================================================
