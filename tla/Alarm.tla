------------------------------- MODULE Alarm -------------------------------
(***************************************************************************)
(* What the panic button promises, whatever runs beside it: an emergency   *)
(* begins with the first participant who presses, every other participant  *)
(* adds one report to it, pressing again adds nothing, and it ends only    *)
(* when an operator says so.                                               *)
(***************************************************************************)
EXTENDS Naturals

CONSTANT Participants

VARIABLES
  on,       \* is there an emergency?
  raisers,  \* the participants who have reported it
  reports   \* the reports sent, over all emergencies

Init == on = FALSE /\ raisers = {} /\ reports = 0

Raise(p) ==
  /\ ~on
  /\ on' = TRUE /\ raisers' = {p} /\ reports' = reports + 1

Corroborate(p) ==
  /\ on /\ p \notin raisers
  /\ raisers' = raisers \cup {p} /\ reports' = reports + 1
  /\ UNCHANGED on

OperatorResolves ==
  /\ on
  /\ on' = FALSE /\ raisers' = {}
  /\ UNCHANGED reports

Next == OperatorResolves \/ \E p \in Participants : Raise(p) \/ Corroborate(p)

Spec == Init /\ [][Next]_<<on, raisers, reports>>
=============================================================================
