--------------------------- MODULE MCPaymentsCast ---------------------------
(* Payments with more callers than TLC can put on the stage at once: `cast`*)
(* names those that a behaviour is about, the others rest.                 *)
EXTENDS MCPayments

CONSTANT Casts

VARIABLE cast  \* who takes part

(* Several who release, and every webhook; one who releases with one who   *)
(* refunds, or who reauthorizes; and the scheduled worker left alone.      *)
Playing == CASE cast = "release"     -> Operators \cup Workers
             [] cast = "refund"      -> {op1} \cup Refunders
             [] cast = "reauthorize" -> {op1} \cup Reauthorizers
             [] cast = "pay"         -> Workers
Announced == CASE cast = "release"     -> WebhookTypes
               [] cast = "refund"      -> MoneyWebhooks
               [] cast = "reauthorize" -> CaptureWebhook
               [] cast = "pay"         -> {}

OnStage == /\ UNCHANGED cast
           /\ \A c \in Callers \ Playing : call'[c] = call[c]
           /\ webhooks' \subseteq Announced

castVars == <<vars, cast>>

CastInit == Init /\ cast \in Casts

CastSpec == CastInit /\ [][Next /\ OnStage]_castVars

(* The fairness of Payments, of the casts in which the worker plays.       *)
FairCastSpec ==
  /\ CastSpec
  /\ WF_castVars(CommitTx /\ OnStage) /\ WF_castVars(CommitResolve /\ OnStage)
  /\ \A k \in Keys : WF_castVars(LeaseExpires(k) /\ OnStage)
  /\ WF_castVars((\E r \in requests : ProviderExecutes(r) \/ ProviderDeclines(r)) /\ OnStage)
  /\ \A w \in Workers : /\ WF_castVars(TickSelect(w) /\ OnStage)
                        /\ WF_castVars(ReleasePrepare(w) /\ OnStage)
                        /\ WF_castVars(ReleaseFinalise(w) /\ OnStage)
                        /\ WF_castVars(RecordDecline(w) /\ OnStage)
                        /\ WF_castVars(Abandon(w) /\ Refused(w) /\ OnStage)
  /\ <>[][~Failure]_castVars

(* The worker that is left alone pays every booking it can: nobody else    *)
(* has to finish what a crash, a lost answer or a decline interrupted.     *)
WorkerPays == cast = "pay" => CompletedGetsPaid
=============================================================================
