---------------------------- MODULE Reconciliation ---------------------------
(* The reconciliation of payments (analytics/reconciliation.service.ts):   *)
(* runs, scheduled and manual, read what has been stuck for too long and   *)
(* record it as open findings, which operators close.  Runs overlap: the   *)
(* flag of the worker holds within one process, and an operator starts one *)
(* at any time.                                                            *)
(*                                                                         *)
(* Abstracted: what gets a payment stuck is left to its surroundings       *)
(* (Payments models it); a run's counts are numbers of a report; two stuck *)
(* commands of one payment make one case, as they make one finding.        *)
EXTENDS Integers, FiniteSets

CONSTANTS
  Stuck,    \* the payments
  Kinds,    \* the types of discrepancy, 1 .. n, in the order they are recorded in
  Rounds,   \* the runs
  MaxTurns  \* how often a case begins

VARIABLES
  plight,    \* per case: no trouble, trouble within the grace period, or past it
  turns,     \* how often a case began
  rounds,    \* payment_reconciliation_runs: the status of each run
  unread,    \* the queries a run still has to make
  candidates, \* what it has read and not recorded yet
  findings,  \* payment_reconciliation_discrepancies
  open,      \* those with no resolved_at
  standing,  \* ghost: the cases past their grace period ever since a run began
  overdue,   \* ghost: those past it at some time since a run began
  closedIn   \* ghost: those an operator closed since a run began

reconciliationVars ==
  <<plight, turns, rounds, unread, candidates, findings, open, standing, overdue, closedIn>>

(* A payment and a type: what the unique index of open findings is on.     *)
Cases == Stuck \X Kinds

(* The runs under way, in a process that lives or not.                     *)
Running == {r \in Rounds : rounds[r] = "RUNNING"}

ReconciliationInit ==
  /\ plight = [c \in Cases |-> "none"] /\ turns = 0
  /\ rounds = [r \in Rounds |-> "none"]
  /\ unread = [r \in Rounds |-> {}] /\ candidates = [r \in Rounds |-> {}]
  /\ findings = {} /\ open = {}
  /\ standing = [r \in Rounds |-> {}] /\ overdue = [r \in Rounds |-> {}]
  /\ closedIn = [r \in Rounds |-> {}]
-----------------------------------------------------------------------------
(* A case begins, outlasts its grace period, or ends.                      *)
Befalls(c) ==
  /\ \/ plight[c] = "none" /\ turns < MaxTurns
        /\ plight' = [plight EXCEPT ![c] = "young"] /\ turns' = turns + 1
        /\ UNCHANGED <<standing, overdue>>
     \/ plight[c] = "young" /\ plight' = [plight EXCEPT ![c] = "overdue"]
        /\ overdue' = [r \in Rounds |-> IF r \in Running THEN overdue[r] \union {c} ELSE overdue[r]]
        /\ UNCHANGED <<turns, standing>>
     \/ plight[c] # "none" /\ plight' = [plight EXCEPT ![c] = "none"]
        /\ standing' = [r \in Rounds |-> standing[r] \ {c}]
        /\ UNCHANGED <<turns, overdue>>
  /\ UNCHANGED <<rounds, unread, candidates, findings, open, closedIn>>

(* A run begins; its row is committed before anything is read.             *)
startRun(r) ==
  LET now == {c \in Cases : plight[c] = "overdue"} IN
  /\ rounds[r] = "none"
  /\ rounds' = [rounds EXCEPT ![r] = "RUNNING"]
  /\ unread' = [unread EXCEPT ![r] = Kinds]
  /\ standing' = [standing EXCEPT ![r] = now] /\ overdue' = [overdue EXCEPT ![r] = now]
  /\ UNCHANGED <<plight, turns, candidates, findings, open, closedIn>>

(* The queries go to different connections, in any order, and each sees    *)
(* what is committed when it is made.                                      *)
findStalled(r, k) ==
  /\ rounds[r] = "RUNNING" /\ k \in unread[r]
  /\ unread' = [unread EXCEPT ![r] = @ \ {k}]
  /\ candidates' = [candidates EXCEPT ![r] = @ \union {c \in Cases : c[2] = k /\ plight[c] = "overdue"}]
  /\ UNCHANGED <<plight, turns, rounds, findings, open, standing, overdue, closedIn>>

(* The candidates are recorded one by one, type after type.                *)
Precedes(r, c) ==
  /\ rounds[r] = "RUNNING" /\ unread[r] = {}
  /\ c \in candidates[r] /\ \A d \in candidates[r] : c[2] <= d[2]

(* mutation: the run looks for any finding of the case, closed or open.    *)
RecordsOnce(r, c) ==
  LET finding == [round |-> r, case |-> c]
      recorded == IF \E f \in findings : f.case = c THEN {} ELSE {finding}
  IN /\ Precedes(r, c)
     /\ candidates' = [candidates EXCEPT ![r] = @ \ {c}]
     /\ findings' = findings \union recorded /\ open' = open \union recorded
     /\ UNCHANGED <<plight, turns, rounds, unread, standing, overdue, closedIn>>

(* A candidate is recorded in a statement of its own, unless a finding of  *)
(* its case is open.                                                       *)
recordDiscrepancy(r, c) ==
  LET finding == [round |-> r, case |-> c]
      recorded == IF \E f \in open : f.case = c THEN {} ELSE {finding}
  IN /\ Precedes(r, c)
     /\ candidates' = [candidates EXCEPT ![r] = @ \ {c}]
     /\ findings' = findings \union recorded /\ open' = open \union recorded
     /\ UNCHANGED <<plight, turns, rounds, unread, standing, overdue, closedIn>>

(* The run ends when everything is recorded.                               *)
Completes(r) ==
  /\ rounds[r] = "RUNNING" /\ unread[r] = {} /\ candidates[r] = {}
  /\ rounds' = [rounds EXCEPT ![r] = "COMPLETED"]
  /\ UNCHANGED <<plight, turns, unread, candidates, findings, open, standing, overdue, closedIn>>

(* A query fails and the run says so; what it has recorded stays.          *)
FailsRound(r) ==
  /\ rounds[r] = "RUNNING"
  /\ rounds' = [rounds EXCEPT ![r] = "FAILED"]
  /\ unread' = [unread EXCEPT ![r] = {}] /\ candidates' = [candidates EXCEPT ![r] = {}]
  /\ UNCHANGED <<plight, turns, findings, open, standing, overdue, closedIn>>

(* An operator closes an open finding, whether or not the case is over.    *)
resolve(f) ==
  /\ f \in open
  /\ open' = open \ {f}
  /\ closedIn' = [r \in Rounds |-> IF r \in Running THEN closedIn[r] \union {f.case} ELSE closedIn[r]]
  /\ UNCHANGED <<plight, turns, rounds, unread, candidates, findings, standing, overdue>>

(* One step of a run, an operator or a payment.  A process that dies in    *)
(* the middle of a run leaves it RUNNING: it takes no further step.        *)
ReconciliationNext ==
  \/ \E c \in Cases : Befalls(c)
  \/ \E r \in Rounds : \/ startRun(r) \/ Completes(r) \/ FailsRound(r)
                       \/ \E k \in Kinds : findStalled(r, k)
                       \/ \E c \in Cases : recordDiscrepancy(r, c)
  \/ \E f \in open : resolve(f)

ReconciliationSpec == ReconciliationInit /\ [][ReconciliationNext]_reconciliationVars
-----------------------------------------------------------------------------
(* However many runs overlap, an operator never has two open findings of   *)
(* one payment and type: who closes the finding has closed the case.       *)
OneOpenFinding == \A f, g \in open : f.case = g.case => f = g

(* A finding is never about nothing: its case was past the grace period    *)
(* while the run that recorded it was under way, although it may be over   *)
(* by the time the finding is written.                                     *)
FindingsAreGrounded == \A f \in findings : f.case \in overdue[f.round]

(* A COMPLETED run can be relied on: every case that was overdue when it   *)
(* began and still is when it ends has an open finding, or one that an     *)
(* operator closed meanwhile, whatever overlapping and failed runs did.    *)
CompletedRunsSawAll ==
  [][\A r \in Rounds : rounds[r] = "RUNNING" /\ rounds'[r] = "COMPLETED" =>
       standing[r] \subseteq closedIn[r] \union {f.case : f \in open}]_reconciliationVars

(* An operator can rely on the findings: none is there twice, none is      *)
(* about nothing, and none is missing when a run has completed.            *)
FindingsAreReliable == [](OneOpenFinding /\ FindingsAreGrounded) /\ CompletedRunsSawAll
=============================================================================
