-------------------------- MODULE BackOfficeProofs --------------------------
(* THE BACK OFFICE: the operators' findings, the delivery of notifications,*)
(* the export of the product events and the verification of the audit log, *)
(* for any number of payments, jobs, events, processes, overlapping runs   *)
(* and crashes.                                                            *)
EXTENDS Reconciliation, NotificationDelivery, Analytics, AuditChain, FiniteSetTheorems,
        WellFoundedInduction, TLAPS

(* THE RECONCILIATION                                                      *)
(*                                                                         *)
(* ReconciliationInv is inductive; what the operators rely on follows.     *)

(* What the variables hold.                                                *)
ReconciliationTypeOK ==
  /\ plight \in [Cases -> {"none", "young", "overdue"}]
  /\ rounds \in [Rounds -> {"none", "RUNNING", "COMPLETED", "FAILED"}]
  /\ unread \in [Rounds -> SUBSET Kinds]
  /\ candidates \in [Rounds -> SUBSET Cases]
  /\ findings \subseteq [round : Rounds, case : Cases]
  /\ open \subseteq findings
  /\ standing \in [Rounds -> SUBSET Cases]
  /\ overdue \in [Rounds -> SUBSET Cases]
  /\ closedIn \in [Rounds -> SUBSET Cases]

(* A run that has not begun has read and recorded nothing.                 *)
NothingYet ==
  \A r \in Rounds : rounds[r] = "none" =>
    candidates[r] = {} /\ \A f \in findings : f.round # r

(* A run reads no case that was not overdue while it was under way.        *)
CandidatesAreGrounded ==
  \A r \in Rounds : /\ candidates[r] \subseteq overdue[r]
                    /\ r \in Running => \A c \in Cases : plight[c] = "overdue" => c \in overdue[r]

(* What a run owes a case that has been overdue ever since it began: it    *)
(* will read it, has it in hand, or the case has or had an open finding.   *)
Accounted(r, c) ==
  \/ c[2] \in unread[r]
  \/ c \in candidates[r]
  \/ c \in closedIn[r]
  \/ \E f \in open : f.case = c

(* A run under way owes every case that stands one of these.               *)
StandingIsAccounted ==
  \A r \in Running : \A c \in standing[r] : plight[c] = "overdue" /\ Accounted(r, c)

ReconciliationInv ==
  /\ ReconciliationTypeOK
  /\ NothingYet
  /\ OneOpenFinding
  /\ FindingsAreGrounded
  /\ CandidatesAreGrounded
  /\ StandingIsAccounted

(* Before the first run there is nothing to account for.                   *)
LEMMA InitInv == ReconciliationInit => ReconciliationInv
  BY DEF ReconciliationInit, ReconciliationInv, ReconciliationTypeOK, NothingYet, OneOpenFinding,
         FindingsAreGrounded, CandidatesAreGrounded, StandingIsAccounted, Running

(* A case begins, grows old or ends.                                       *)
LEMMA BefallsInv ==
  ASSUME ReconciliationInv, NEW c \in Cases, Befalls(c)
  PROVE  ReconciliationInv'
<1> USE DEF ReconciliationInv, Running
<1>1. ReconciliationTypeOK'
  BY DEF ReconciliationTypeOK, Befalls
<1>2. NothingYet' /\ OneOpenFinding'
  BY DEF NothingYet, OneOpenFinding, Befalls
<1>3. \A r \in Rounds : overdue[r] \subseteq overdue'[r]
  BY DEF ReconciliationTypeOK, Befalls
<1>4. FindingsAreGrounded'
  BY <1>3 DEF FindingsAreGrounded, ReconciliationTypeOK, Befalls
<1>5. CandidatesAreGrounded'
  <2> SUFFICES ASSUME NEW r \in Rounds
               PROVE  /\ candidates'[r] \subseteq overdue'[r]
                      /\ r \in Running' => \A d \in Cases : plight'[d] = "overdue" => d \in overdue'[r]
      BY DEF CandidatesAreGrounded
  <2>1. candidates'[r] \subseteq overdue'[r]
    BY <1>3 DEF CandidatesAreGrounded, Befalls
  <2>2. ASSUME r \in Running', NEW d \in Cases, plight'[d] = "overdue"
        PROVE  d \in overdue'[r]
    BY <1>3, <2>2 DEF CandidatesAreGrounded, ReconciliationTypeOK, Befalls
  <2> QED BY <2>1, <2>2
<1>6. StandingIsAccounted'
  <2> SUFFICES ASSUME NEW r \in Running', NEW d \in standing'[r]
               PROVE  plight'[d] = "overdue" /\ Accounted(r, d)'
      BY DEF StandingIsAccounted
  <2>1. r \in Running /\ d \in standing[r] /\ d \in Cases
    BY DEF ReconciliationTypeOK, Befalls
  <2>2. plight[d] = "overdue" /\ Accounted(r, d)
    BY <2>1 DEF StandingIsAccounted
  <2>3. Accounted(r, d)'
    BY <2>2 DEF Accounted, Befalls
  <2>4. plight'[d] = "overdue"
    BY <2>1, <2>2 DEF ReconciliationTypeOK, Befalls
  <2> QED BY <2>3, <2>4
<1> QED BY <1>1, <1>2, <1>4, <1>5, <1>6

(* A run begins: every case that is overdue waits to be read.              *)
LEMMA StartInv ==
  ASSUME ReconciliationInv, NEW r \in Rounds, startRun(r)
  PROVE  ReconciliationInv'
<1> USE DEF ReconciliationInv, Running, startRun
<1>1. ReconciliationTypeOK'
  BY DEF ReconciliationTypeOK
<1>2. NothingYet' /\ OneOpenFinding'
  BY DEF NothingYet, OneOpenFinding, ReconciliationTypeOK
<1>3. FindingsAreGrounded'
  BY DEF FindingsAreGrounded, NothingYet, ReconciliationTypeOK
<1>4. CandidatesAreGrounded'
  BY DEF CandidatesAreGrounded, NothingYet, ReconciliationTypeOK
<1>5. StandingIsAccounted'
  <2> SUFFICES ASSUME NEW q \in Running', NEW d \in standing'[q]
               PROVE  plight'[d] = "overdue" /\ Accounted(q, d)'
      BY DEF StandingIsAccounted
  <2>1. CASE q = r
    <3>1. d \in Cases /\ plight[d] = "overdue" /\ d[2] \in Kinds
      BY <2>1 DEF ReconciliationTypeOK, Cases
    <3> QED BY <2>1, <3>1 DEF Accounted, ReconciliationTypeOK
  <2>2. CASE q # r
    <3>1. q \in Running /\ d \in standing[q]
      BY <2>2 DEF ReconciliationTypeOK
    <3> QED BY <2>2, <3>1 DEF StandingIsAccounted, Accounted, ReconciliationTypeOK
  <2> QED BY <2>1, <2>2
<1> QED BY <1>1, <1>2, <1>3, <1>4, <1>5

(* A query takes what is overdue into hand.                                *)
LEMMA FindInv ==
  ASSUME ReconciliationInv, NEW r \in Rounds, NEW k \in Kinds, findStalled(r, k)
  PROVE  ReconciliationInv'
<1> USE DEF ReconciliationInv, Running, findStalled
<1>1. ReconciliationTypeOK'
  BY DEF ReconciliationTypeOK
<1>2. NothingYet' /\ OneOpenFinding'
  BY DEF NothingYet, OneOpenFinding, ReconciliationTypeOK
<1>3. FindingsAreGrounded'
  BY DEF FindingsAreGrounded
<1>4. CandidatesAreGrounded'
  BY DEF CandidatesAreGrounded, ReconciliationTypeOK
<1>5. StandingIsAccounted'
  <2> SUFFICES ASSUME NEW q \in Running', NEW d \in standing'[q]
               PROVE  plight'[d] = "overdue" /\ Accounted(q, d)'
      BY DEF StandingIsAccounted
  <2>1. /\ q \in Running /\ d \in standing[q] /\ d \in Cases
        /\ plight[d] = "overdue" /\ Accounted(q, d)
    BY DEF ReconciliationTypeOK, StandingIsAccounted
  <2>2. CASE q = r /\ d[2] = k
    BY <2>1, <2>2 DEF Accounted, ReconciliationTypeOK
  <2>3. CASE ~(q = r /\ d[2] = k)
    BY <2>1, <2>3 DEF Accounted, ReconciliationTypeOK
  <2> QED BY <2>1, <2>2, <2>3
<1> QED BY <1>1, <1>2, <1>3, <1>4, <1>5

(* Recording a candidate leaves its case with an open finding.             *)
LEMMA RecordInv ==
  ASSUME ReconciliationInv, NEW r \in Rounds, NEW c \in Cases, recordDiscrepancy(r, c)
  PROVE  ReconciliationInv'
<1> USE DEF ReconciliationInv, Running, recordDiscrepancy, Precedes
<1> DEFINE finding == [round |-> r, case |-> c]
<1>1. /\ \/ open' = open
         \/ open' = open \union {finding} /\ \A f \in open : f.case # c
      /\ findings' = findings \/ findings' = findings \union {finding}
      /\ open' \subseteq findings' /\ open \subseteq open'
      /\ \E f \in open' : f.case = c
  <2>1. CASE \E f \in open : f.case = c
    <3>1. open' = open /\ findings' = findings
      BY <2>1
    <3> QED BY <2>1, <3>1 DEF ReconciliationTypeOK
  <2>2. CASE ~\E f \in open : f.case = c
    <3>1. open' = open \union {finding} /\ findings' = findings \union {finding}
      BY <2>2
    <3>2. finding.case = c
      OBVIOUS
    <3> HIDE DEF finding
    <3> QED BY <2>2, <3>1, <3>2 DEF ReconciliationTypeOK
  <2> QED BY <2>1, <2>2
<1>2. /\ rounds[r] = "RUNNING" /\ c \in candidates[r]
      /\ candidates' = [candidates EXCEPT ![r] = @ \ {c}]
      /\ finding \in [round : Rounds, case : Cases]
  OBVIOUS
<1>3. ReconciliationTypeOK'
  BY <1>1, <1>2 DEF ReconciliationTypeOK
<1>4. NothingYet'
  BY <1>1, <1>2 DEF NothingYet, ReconciliationTypeOK
<1>5. OneOpenFinding'
  BY <1>1 DEF OneOpenFinding
<1>6. FindingsAreGrounded'
  BY <1>1, <1>2 DEF FindingsAreGrounded, CandidatesAreGrounded
<1>7. CandidatesAreGrounded'
  BY <1>2 DEF CandidatesAreGrounded, ReconciliationTypeOK
<1>8. StandingIsAccounted'
  <2> SUFFICES ASSUME NEW q \in Running', NEW d \in standing'[q]
               PROVE  plight'[d] = "overdue" /\ Accounted(q, d)'
      BY DEF StandingIsAccounted
  <2>1. plight[d] = "overdue" /\ Accounted(q, d)
    BY DEF StandingIsAccounted
  <2>2. CASE d = c
    BY <1>1, <2>1, <2>2 DEF Accounted
  <2>3. CASE d # c
    BY <1>1, <1>2, <2>1, <2>3 DEF Accounted, ReconciliationTypeOK
  <2> QED BY <2>1, <2>2, <2>3
<1> QED BY <1>3, <1>4, <1>5, <1>6, <1>7, <1>8

(* A run that ends owes nothing more.                                      *)
LEMMA EndInv ==
  ASSUME ReconciliationInv, NEW r \in Rounds, Completes(r) \/ FailsRound(r)
  PROVE  ReconciliationInv'
<1> USE DEF ReconciliationInv, Running, Completes, FailsRound
<1>1. ReconciliationTypeOK'
  BY DEF ReconciliationTypeOK
<1>2. NothingYet' /\ OneOpenFinding' /\ FindingsAreGrounded'
  BY DEF NothingYet, OneOpenFinding, FindingsAreGrounded, ReconciliationTypeOK
<1>3. CandidatesAreGrounded'
  BY DEF CandidatesAreGrounded, ReconciliationTypeOK
<1>4. StandingIsAccounted'
  BY DEF StandingIsAccounted, Accounted, ReconciliationTypeOK
<1> QED BY <1>1, <1>2, <1>3, <1>4

(* A finding that is closed is remembered by the runs under way.           *)
LEMMA ResolveInv ==
  ASSUME ReconciliationInv, NEW f \in open, resolve(f)
  PROVE  ReconciliationInv'
<1> USE DEF ReconciliationInv, Running, resolve
<1>1. ReconciliationTypeOK'
  BY DEF ReconciliationTypeOK
<1>2. NothingYet' /\ OneOpenFinding' /\ FindingsAreGrounded' /\ CandidatesAreGrounded'
  BY DEF NothingYet, OneOpenFinding, FindingsAreGrounded, CandidatesAreGrounded
<1>3. StandingIsAccounted'
  <2> SUFFICES ASSUME NEW q \in Running', NEW d \in standing'[q]
               PROVE  plight'[d] = "overdue" /\ Accounted(q, d)'
      BY DEF StandingIsAccounted
  <2>1. plight[d] = "overdue" /\ Accounted(q, d)
    BY DEF StandingIsAccounted
  <2>2. CASE d = f.case
    BY <2>1, <2>2 DEF Accounted, ReconciliationTypeOK
  <2>3. CASE d # f.case
    BY <2>1, <2>3 DEF Accounted, ReconciliationTypeOK
  <2> QED BY <2>1, <2>2, <2>3
<1> QED BY <1>1, <1>2, <1>3

(* Every step of a run, an operator or a payment keeps the invariant.      *)
LEMMA StepInv == ReconciliationInv /\ [ReconciliationNext]_reconciliationVars => ReconciliationInv'
<1> SUFFICES ASSUME ReconciliationInv, [ReconciliationNext]_reconciliationVars
             PROVE  ReconciliationInv'
    OBVIOUS
<1>1. CASE ReconciliationNext
  BY <1>1, BefallsInv, StartInv, FindInv, RecordInv, EndInv, ResolveInv DEF ReconciliationNext
<1>2. CASE UNCHANGED reconciliationVars
  BY <1>2 DEF reconciliationVars, ReconciliationInv, ReconciliationTypeOK, NothingYet, OneOpenFinding,
              FindingsAreGrounded, CandidatesAreGrounded, StandingIsAccounted, Accounted, Running
<1> QED BY <1>1, <1>2
-----------------------------------------------------------------------------
(* In every behaviour the invariant holds.                                 *)
THEOREM ReconciliationSafety == ReconciliationSpec => []ReconciliationInv
  BY InitInv, StepInv, PTL DEF ReconciliationSpec

(* However many runs overlap, no payment has two open findings of one type *)
(* (the unique index and recordDiscrepancy).                               *)
THEOREM NeverTwoOpenFindings == ReconciliationSpec => []OneOpenFinding
<1>1. ReconciliationInv => OneOpenFinding
  BY DEF ReconciliationInv
<1> QED BY <1>1, ReconciliationSafety, PTL

(* No finding is about a case that was never past its grace period while   *)
(* its run was under way (the queries of run).                             *)
THEOREM FindingsAreAlwaysGrounded == ReconciliationSpec => []FindingsAreGrounded
<1>1. ReconciliationInv => FindingsAreGrounded
  BY DEF ReconciliationInv
<1> QED BY <1>1, ReconciliationSafety, PTL

(* A completed run has accounted for every case that was overdue all the   *)
(* time, whatever the runs beside it did.                                  *)
THEOREM CompletedRunsAccountForAll == ReconciliationSpec => CompletedRunsSawAll
<1> DEFINE Saw == \A r \in Rounds : rounds[r] = "RUNNING" /\ rounds'[r] = "COMPLETED" =>
                    standing[r] \subseteq closedIn[r] \union {f.case : f \in open}
<1>1. ReconciliationInv /\ [ReconciliationNext]_reconciliationVars => [Saw]_reconciliationVars
  <2> SUFFICES ASSUME ReconciliationInv, ReconciliationNext, NEW r \in Rounds,
                      rounds[r] = "RUNNING", rounds'[r] = "COMPLETED"
               PROVE  standing[r] \subseteq closedIn[r] \union {f.case : f \in open}
      OBVIOUS
  <2>1. unread[r] = {} /\ candidates[r] = {}
    BY DEF ReconciliationNext, ReconciliationInv, ReconciliationTypeOK, Befalls, startRun, findStalled,
           recordDiscrepancy, Completes, FailsRound, resolve
  <2>2. \A c \in standing[r] : Accounted(r, c)
    BY DEF ReconciliationInv, StandingIsAccounted, Running
  <2> QED BY <2>1, <2>2 DEF Accounted
<1> QED BY <1>1, ReconciliationSafety, PTL DEF ReconciliationSpec, CompletedRunsSawAll

(* What an operator reads of the reconciliation (recordDiscrepancy, run)   *)
(* can be relied on.                                                       *)
THEOREM ReconciliationIsReliable == ReconciliationSpec => FindingsAreReliable
BY NeverTwoOpenFindings, FindingsAreAlwaysGrounded, CompletedRunsAccountForAll, PTL
DEF FindingsAreReliable
-----------------------------------------------------------------------------
(* THE DELIVERY OF NOTIFICATIONS                                           *)
(*                                                                         *)
(* How often a job may still be sent without a crash, an overrun lease, a  *)
(* lost answer or an operator: once by each process that is about to send, *)
(* and once more if it is going to be claimed again, for nobody has been   *)
(* reached.                                                                *)
Senders(j) == {p \in Processes : work[p][j] # NoWork /\ work[p][j].pc = "send"}

Hopeless(w, g) == w # NoWork /\ w.stamp = g.stamp => w.pc # "send" /\ w.result = "RETRY"

Armed(j) ==
  \/ job[j].status = "none"
  \/ /\ job[j].status = "PENDING"
     /\ job[j].due \/ \A p \in Processes : Hopeless(work[p][j], job[j])

ToCome(j) == Cardinality(Senders(j)) + IF Armed(j) THEN 1 ELSE 0

Budget ==
  \A j \in Jobs, a \in Addresses : received[<<j, a>>] + ToCome(j) <= 1 + mishaps + retries

(* A stamp is claimed once; whoever holds the current one knows how often  *)
(* the job has been tried.                                                 *)
Claim(w, g) ==
  w # NoWork =>
    /\ w.stamp <= g.stamp /\ g.status # "none"
    /\ w.stamp = g.stamp /\ g.status = "PENDING" => w.attempts = g.attempts
    /\ w.result = "RETRY" => w.attempts + 1 < MaxAttempts

ClaimsAreAlone ==
  \A j \in Jobs : \A p, q \in Processes :
    work[p][j] # NoWork /\ work[q][j] # NoWork /\ work[p][j].stamp = work[q][j].stamp => p = q

Job == [status : {"none", "PENDING", "SENT", "FAILED"}, attempts : 0..MaxAttempts, stamp : Nat,
        due : BOOLEAN]

WorkTypeOK ==
  /\ work \in [Processes -> [Jobs -> Work \cup {NoWork}]]
  /\ job \in [Jobs -> Job]
  /\ received \in [Jobs \X Addresses -> Nat]
  /\ mishaps \in 0..MaxMishaps /\ retries \in 0..MaxRetries

OwnersOK == holder \in [Devices -> Users \cup {NoOwner}] /\ channel \in [Jobs -> {"PUSH", "TEXT"}]

Untried(g) == g.status \in {"none", "PENDING"} => g.attempts < MaxAttempts

DeliveryOK ==
  /\ WorkTypeOK /\ OwnersOK /\ Budget /\ ClaimsAreAlone
  /\ \A j \in Jobs : Untried(job[j]) /\ \A p \in Processes : Claim(work[p][j], job[j])

-----------------------------------------------------------------------------
(* The processes about to send are finitely many.                          *)
LEMMA SendersAreFinite ==
  ASSUME NEW j \in Jobs
  PROVE  IsFiniteSet(Senders(j)) /\ Cardinality(Senders(j)) \in Nat
<1>1. Senders(j) \subseteq Processes
  BY DEF Senders
<1> QED BY <1>1, NotificationAssumption, FS_Subset, FS_CardinalityType

(* No more senders, and no new claim to come: no more messages to come.    *)
LEMMA NoMoreToCome ==
  ASSUME NEW j \in Jobs, Senders(j)' \subseteq Senders(j), Armed(j)' => Armed(j)
  PROVE  ToCome(j)' <= ToCome(j) /\ ToCome(j)' \in Nat /\ ToCome(j) \in Nat
<1>1. /\ Cardinality(Senders(j)') \in Nat /\ Cardinality(Senders(j)) \in Nat
      /\ Cardinality(Senders(j)') <= Cardinality(Senders(j))
  BY SendersAreFinite, FS_Subset, FS_CardinalityType
<1> QED BY <1>1 DEF ToCome

(* One more claim to come at most.                                         *)
LEMMA OneMoreToCome ==
  ASSUME NEW j \in Jobs, Senders(j)' \subseteq Senders(j)
  PROVE  ToCome(j)' <= ToCome(j) + 1 /\ ToCome(j)' \in Nat /\ ToCome(j) \in Nat
<1>1. /\ Cardinality(Senders(j)') \in Nat /\ Cardinality(Senders(j)) \in Nat
      /\ Cardinality(Senders(j)') <= Cardinality(Senders(j))
  BY SendersAreFinite, FS_Subset, FS_CardinalityType
<1> QED BY <1>1 DEF ToCome

(* Nothing is spent that the mishaps and the retries do not pay for.       *)
LEMMA BudgetIsKept ==
  ASSUME Budget, WorkTypeOK, WorkTypeOK', received' = received,
         mishaps' + retries' >= mishaps + retries,
         \A j \in Jobs : /\ Senders(j)' \subseteq Senders(j)
                         /\ \/ Armed(j)' => Armed(j)
                            \/ mishaps' + retries' > mishaps + retries
  PROVE  Budget'
<1> SUFFICES ASSUME NEW j \in Jobs, NEW a \in Addresses
             PROVE  received'[<<j, a>>] + ToCome(j)' <= 1 + mishaps' + retries'
  BY DEF Budget
<1>1. /\ received[<<j, a>>] + ToCome(j) <= 1 + mishaps + retries /\ received[<<j, a>>] \in Nat
      /\ {mishaps, retries, mishaps', retries'} \subseteq Nat
  BY NotificationAssumption DEF Budget, WorkTypeOK
<1>2. ToCome(j)' <= ToCome(j) + 1 /\ ToCome(j)' \in Nat /\ ToCome(j) \in Nat
  BY OneMoreToCome
<1>3. (Armed(j)' => Armed(j)) => ToCome(j)' <= ToCome(j)
  BY NoMoreToCome
<1> QED BY <1>1, <1>2, <1>3

(* A job that nobody touches stays as armed as it was.                     *)
LEMMA UntouchedJob ==
  ASSUME NEW j \in Jobs, job'[j] = job[j], \A p \in Processes : work'[p][j] = work[p][j]
  PROVE  Senders(j)' = Senders(j) /\ (Armed(j)' <=> Armed(j))
BY DEF Senders, Armed, Hopeless

-----------------------------------------------------------------------------
(* The steps that change a job and no work: it is queued, falls due, or is *)
(* tried again for an operator.                                            *)
LEMMA JobChanges ==
  ASSUME DeliveryOK, NEW j \in Jobs, NEW g \in Job, job' = [job EXCEPT ![j] = g], Untried(g),
         \A p \in Processes : Claim(work[p][j], g),
         (g.status \in {"none", "PENDING"} =>
            Armed(j) \/ mishaps' + retries' > mishaps + retries),
         mishaps' \in mishaps..MaxMishaps, retries' \in retries..MaxRetries,
         UNCHANGED <<channel, holder, work, received>>
  PROVE  DeliveryOK'
<1>1. /\ job'[j] = g /\ (\A i \in Jobs : i # j => job'[i] = job[i]) /\ job' \in [Jobs -> Job]
  BY DEF DeliveryOK, WorkTypeOK
<1>2. WorkTypeOK'
  BY <1>1, NotificationAssumption DEF DeliveryOK, WorkTypeOK
<1>3. ASSUME NEW i \in Jobs
      PROVE  /\ Senders(i)' \subseteq Senders(i)
             /\ (Armed(i)' => Armed(i)) \/ mishaps' + retries' > mishaps + retries
  <2>1. Senders(i)' = Senders(i)
    BY DEF Senders
  <2>2. CASE i = j
    BY <1>1, <2>1, <2>2 DEF Armed
  <2>3. CASE i # j
    BY <1>1, <2>3, UntouchedJob
  <2> QED BY <2>1, <2>2, <2>3
<1>4. Budget'
  <2>0. mishaps \in 0..MaxMishaps /\ retries \in 0..MaxRetries
    BY DEF DeliveryOK, WorkTypeOK
  <2>1. mishaps' + retries' >= mishaps + retries
    <3>1. MaxMishaps \in Nat /\ MaxRetries \in Nat
      BY NotificationAssumption
    <3>2. mishaps' \in Nat /\ mishaps' >= mishaps
      BY <2>0, <3>1
    <3>3. retries' \in Nat /\ retries' >= retries
      BY <2>0, <3>1
    <3>4. mishaps \in Nat /\ retries \in Nat
      BY <2>0, <3>1
    <3>5. ASSUME NEW a \in Nat, NEW b \in Nat, NEW c \in Nat, NEW d \in Nat, a >= c, b >= d
          PROVE  a + b >= c + d
      BY <3>5
    <3> QED BY <3>2, <3>3, <3>4, <3>5
  <2> QED BY <1>2, <1>3, <2>1, BudgetIsKept DEF DeliveryOK
<1>5. \A i \in Jobs : Untried(job'[i]) /\ \A p \in Processes : Claim(work'[p][i], job'[i])
  BY <1>1 DEF DeliveryOK
<1> QED BY <1>2, <1>4, <1>5 DEF DeliveryOK, OwnersOK, ClaimsAreAlone

(* An event queues a job that is new, and leaves another alone.            *)
LEMMA QueueKeepsDelivery ==
  ASSUME DeliveryOK, NEW j \in Jobs, handle(j)
  PROVE  DeliveryOK'
<1> USE NotificationAssumption
<1>0. job \in [Jobs -> Job] /\ job[j] \in Job /\ mishaps \in 0..MaxMishaps /\ retries \in 0..MaxRetries
  BY DEF DeliveryOK, WorkTypeOK
<1>1. UNCHANGED <<channel, holder, work, received, mishaps, retries>>
  BY DEF handle
<1>2. CASE job[j].status = "none"
  <2>1. PICK g : g = [job[j] EXCEPT !.status = "PENDING", !.due = TRUE]
    OBVIOUS
  <2>2. g \in Job /\ g.status = "PENDING" /\ g.attempts = job[j].attempts
    BY <1>0, <2>1 DEF Job
  <2>3. job' = [job EXCEPT ![j] = g]
    BY <1>0, <1>2, <2>1 DEF handle
  <2>4. Untried(g) /\ Armed(j) /\ \A p \in Processes : Claim(work[p][j], g)
    BY <1>2, <2>2 DEF DeliveryOK, Untried, Armed, Claim
  <2>5. mishaps' \in mishaps..MaxMishaps /\ retries' \in retries..MaxRetries
    BY <1>0, <1>1
  <2> QED BY <1>1, <2>2, <2>3, <2>4, <2>5, JobChanges
<1>3. CASE job[j].status # "none"
  <2>1. UNCHANGED <<channel, holder, work, received, mishaps, retries, job>>
    BY <1>1, <1>3 DEF handle
  <2> QED BY <2>1 DEF DeliveryOK, WorkTypeOK, OwnersOK, Budget, ClaimsAreAlone, ToCome, Senders, Armed
<1> QED BY <1>2, <1>3

(* A job falls due: nobody holds it, or a lease has run out over its       *)
(* holder, which is a mishap.                                              *)
LEMMA DueKeepsDelivery ==
  ASSUME DeliveryOK, NEW j \in Jobs, NextAttempt(j)
  PROVE  DeliveryOK'
<1> USE NotificationAssumption
<1>0. job \in [Jobs -> Job] /\ job[j] \in Job /\ mishaps \in 0..MaxMishaps /\ retries \in 0..MaxRetries
  BY DEF DeliveryOK, WorkTypeOK
<1>1. /\ job[j].status = "PENDING" /\ UNCHANGED <<channel, holder, work, received, retries>>
      /\ job' = [job EXCEPT ![j].due = TRUE]
      /\ IF Held(j) THEN mishaps < MaxMishaps /\ mishaps' = mishaps + 1 ELSE UNCHANGED mishaps
  BY DEF NextAttempt
<1>2. PICK g : g = [job[j] EXCEPT !.due = TRUE]
  OBVIOUS
<1>3. /\ g \in Job /\ g.status = "PENDING" /\ g.attempts = job[j].attempts /\ g.stamp = job[j].stamp
      /\ job' = [job EXCEPT ![j] = g]
  BY <1>0, <1>1, <1>2 DEF Job
<1>4. Untried(g) /\ \A p \in Processes : Claim(work[p][j], g)
  BY <1>1, <1>3 DEF DeliveryOK, Untried, Claim
<1>5. Armed(j) \/ mishaps' + retries' > mishaps + retries
  <2>1. CASE Held(j)
    BY <1>0, <1>1, <2>1
  <2>2. CASE ~Held(j)
    BY <1>1, <2>2 DEF Held, Armed, Hopeless
  <2> QED BY <2>1, <2>2
<1>6. mishaps' \in mishaps..MaxMishaps /\ retries' \in retries..MaxRetries
  BY <1>0, <1>1
<1> QED BY <1>1, <1>3, <1>4, <1>5, <1>6, JobChanges

(* An operator has a job sent anew, with a stamp that nobody holds.        *)
LEMMA RetryKeepsDelivery ==
  ASSUME DeliveryOK, NEW j \in Jobs, retryNotificationJob(j)
  PROVE  DeliveryOK'
<1> USE NotificationAssumption
<1>0. job \in [Jobs -> Job] /\ job[j] \in Job /\ mishaps \in 0..MaxMishaps /\ retries \in 0..MaxRetries
  BY DEF DeliveryOK, WorkTypeOK
<1>1. /\ job[j].status = "FAILED" /\ UNCHANGED <<channel, holder, work, received, mishaps>>
      /\ retries < MaxRetries /\ retries' = retries + 1
      /\ job' = [job EXCEPT ![j] = [status |-> "PENDING", attempts |-> 0, stamp |-> @.stamp + 1, due |-> TRUE]]
  BY DEF retryNotificationJob
<1>2. PICK g : g = [status |-> "PENDING", attempts |-> 0, stamp |-> job[j].stamp + 1, due |-> TRUE]
  OBVIOUS
<1>3. /\ g \in Job /\ g.status = "PENDING" /\ g.attempts = 0 /\ g.stamp = job[j].stamp + 1
      /\ job' = [job EXCEPT ![j] = g]
  BY <1>0, <1>1, <1>2 DEF Job
<1>4. Untried(g)
  BY <1>3 DEF Untried
<1>5. ASSUME NEW p \in Processes PROVE Claim(work[p][j], g)
  <2>1. Claim(work[p][j], job[j]) /\ (work[p][j] # NoWork => work[p][j] \in Work)
    BY DEF DeliveryOK, WorkTypeOK
  <2>2. work[p][j] # NoWork => work[p][j].stamp \in Nat /\ job[j].stamp \in Nat
    BY <1>0, <2>1 DEF Work, Job
  <2> QED BY <1>3, <2>1, <2>2 DEF Claim
<1>6. mishaps' \in mishaps..MaxMishaps /\ retries' \in retries..MaxRetries
      /\ mishaps' + retries' > mishaps + retries
  BY <1>0, <1>1
<1> QED BY <1>1, <1>3, <1>4, <1>5, <1>6, JobChanges
-----------------------------------------------------------------------------
(* The shape of what a process does with one of its jobs.                  *)
Takes(p, j, w) == work' = [work EXCEPT ![p][j] = w]

(* Then nothing else that a process has claimed changes.                   *)
LEMMA OneClaim ==
  ASSUME WorkTypeOK, NEW p \in Processes, NEW j \in Jobs, NEW w \in Work \cup {NoWork},
         Takes(p, j, w)
  PROVE  /\ work' \in [Processes -> [Jobs -> Work \cup {NoWork}]]
         /\ work'[p][j] = w
         /\ \A q \in Processes, i \in Jobs : q # p \/ i # j => work'[q][i] = work[q][i]
BY DEF WorkTypeOK, Takes

(* A process takes up what is due: each such job was to be claimed once    *)
(* more, and now is.                                                       *)
LEMMA TickKeepsDelivery ==
  ASSUME DeliveryOK, NEW p \in Processes, tick(p)
  PROVE  DeliveryOK'
<1> USE NotificationAssumption
<1> DEFINE W(j) == [pc |-> IF j \in movedOn \/ AddressesOf(j) = {} THEN "settle" ELSE "send",
                    stamp |-> job[j].stamp + 1, attempts |-> job[j].attempts,
                    to |-> AddressesOf(j), gone |-> {}, result |-> "FAILED"]
<1>0. /\ job \in [Jobs -> Job] /\ work \in [Processes -> [Jobs -> Work \cup {NoWork}]]
      /\ received \in [Jobs \X Addresses -> Nat]
      /\ mishaps \in 0..MaxMishaps /\ retries \in 0..MaxRetries
  BY DEF DeliveryOK, WorkTypeOK
<1>1. /\ \A j \in Jobs : work[p][j] = NoWork
      /\ job' = [j \in Jobs |-> IF j \in Claimable
                                THEN [job[j] EXCEPT !.stamp = @ + 1, !.due = FALSE] ELSE job[j]]
      /\ work' = [work EXCEPT ![p] = [j \in Jobs |-> IF j \notin Claimable THEN NoWork ELSE W(j)]]
      /\ UNCHANGED <<channel, holder, received, mishaps, retries>>
  BY DEF tick
<1>2. ASSUME NEW j \in Claimable
      PROVE  /\ j \in Jobs /\ job[j].status = "PENDING" /\ job[j].due
             /\ job'[j] \in Job /\ job'[j].status = "PENDING" /\ job'[j].due = FALSE
             /\ job'[j].stamp = job[j].stamp + 1 /\ job'[j].attempts = job[j].attempts
             /\ job[j].stamp \in Nat /\ job'[j].stamp \in Nat
             /\ work'[p][j] \in Work /\ work'[p][j].stamp = job'[j].stamp
             /\ work'[p][j].attempts = job'[j].attempts /\ work'[p][j].result = "FAILED"
  <2>1. j \in Jobs /\ job[j].status = "PENDING" /\ job[j].due
    BY <1>2 DEF Claimable
  <2>2. /\ job'[j] = [job[j] EXCEPT !.stamp = @ + 1, !.due = FALSE] /\ work'[p][j] = W(j)
    BY <1>0, <1>1, <1>2, <2>1
  <2>3. PICK g : g = job[j]
    OBVIOUS
  <2>a. \A y \in Job : [y EXCEPT !.stamp = @ + 1, !.due = FALSE] \in Job
    <3>1. \A y \in Job, n \in Nat : [y EXCEPT !.stamp = n, !.due = FALSE] \in Job
      BY DEF Job
    <3>2. \A y \in Job : y.stamp + 1 \in Nat
      BY DEF Job
    <3> QED BY <3>1, <3>2, Zenon
  <2>b. g \in Job /\ [g EXCEPT !.stamp = @ + 1, !.due = FALSE] \in Job
    BY <1>0, <2>1, <2>3, <2>a, Zenon
  <2>4. /\ [g EXCEPT !.stamp = @ + 1, !.due = FALSE].status = g.status
        /\ [g EXCEPT !.stamp = @ + 1, !.due = FALSE].due = FALSE
        /\ [g EXCEPT !.stamp = @ + 1, !.due = FALSE].stamp = g.stamp + 1
        /\ [g EXCEPT !.stamp = @ + 1, !.due = FALSE].attempts = g.attempts
        /\ g.stamp \in Nat /\ g.stamp + 1 \in Nat /\ g.attempts \in Nat
    BY <2>b DEF Job
  <2>5. AddressesOf(j) \in SUBSET Addresses
    BY <2>1 DEF AddressesOf, Addresses
  <2>6. W(j) \in Work
    BY <2>3, <2>b, <2>4, <2>5 DEF Work
  <2> QED BY <2>1, <2>2, <2>3, <2>b, <2>4, <2>6
<1> HIDE DEF W
<1>3. ASSUME NEW j \in Jobs, j \notin Claimable PROVE job'[j] = job[j] /\ work'[p][j] = NoWork
  BY <1>0, <1>1, <1>3
<1>4. \A q \in Processes : q # p => work'[q] = work[q]
  BY <1>0, <1>1
<1>5. WorkTypeOK'
  <2>1. job' \in [Jobs -> Job]
    BY <1>0, <1>1, <1>2, <1>3
  <2>2. \A j \in Jobs : work'[p][j] \in Work \cup {NoWork}
    BY <1>2, <1>3
  <2>3. work' \in [Processes -> [Jobs -> Work \cup {NoWork}]]
    BY <1>0, <1>1, <2>2
  <2> QED BY <1>0, <1>1, <2>1, <2>3 DEF WorkTypeOK
<1>6. ASSUME NEW j \in Jobs
      PROVE  /\ Untried(job'[j])
             /\ \A q \in Processes : Claim(work'[q][j], job'[j])
             /\ \A q, r \in Processes :
                  work'[q][j] # NoWork /\ work'[r][j] # NoWork /\ work'[q][j].stamp = work'[r][j].stamp => q = r
  <2>1. CASE j \in Claimable
    <3>1. Untried(job'[j])
      BY <1>2, <2>1 DEF DeliveryOK, Untried
    <3>2. Claim(work'[p][j], job'[j])
      <4>1. PICK w, g : w = work'[p][j] /\ g = job'[j]
        OBVIOUS
      <4>2. w \in Work /\ w.stamp = g.stamp /\ w.attempts = g.attempts /\ w.result = "FAILED" /\ g.status = "PENDING"
            /\ g.stamp \in Nat
        BY <1>2, <2>1, <4>1
      <4> QED BY <4>1, <4>2 DEF Claim
    <3>3. ASSUME NEW q \in Processes, q # p, work'[q][j] # NoWork
          PROVE  work'[q][j] = work[q][j] /\ work[q][j].stamp \in Nat /\ work[q][j].stamp <= job[j].stamp
                 /\ Claim(work'[q][j], job'[j])
      <4>0. work'[q][j] = work[q][j]
        BY <1>4, <3>3
      <4>1. PICK w, g, h : w = work[q][j] /\ g = job[j] /\ h = job'[j]
        OBVIOUS
      <4>a. w \in Work /\ w # NoWork /\ Claim(w, g)
        BY <1>0, <3>3, <4>0, <4>1 DEF DeliveryOK
      <4>2. w.stamp \in Nat /\ g.stamp \in Nat /\ h.stamp = g.stamp + 1 /\ h.status = "PENDING"
        BY <1>2, <2>1, <4>1, <4>a DEF Work
      <4> QED BY <4>0, <4>1, <4>a, <4>2 DEF Claim
    <3>4. \A q \in Processes : Claim(work'[q][j], job'[j])
      BY <3>2, <3>3 DEF Claim
    <3>5. \A q \in Processes : q # p /\ work'[q][j] # NoWork => work'[q][j].stamp < work'[p][j].stamp
      <4> SUFFICES ASSUME NEW q \in Processes, q # p, work'[q][j] # NoWork
                   PROVE  work'[q][j].stamp < work'[p][j].stamp
        OBVIOUS
      <4>1. PICK m, n, k : m = work'[q][j].stamp /\ n = job[j].stamp /\ k = work'[p][j].stamp
        OBVIOUS
      <4>2. m \in Nat /\ n \in Nat /\ m <= n
        BY <1>2, <2>1, <3>3, <4>1
      <4>3. k = n + 1
        BY <1>2, <2>1, <4>1
      <4> QED BY <4>1, <4>2, <4>3
    <3>6. ASSUME NEW q \in Processes, NEW r \in Processes, work'[q][j] # NoWork, work'[r][j] # NoWork,
                 work'[q][j].stamp = work'[r][j].stamp
          PROVE  q = r
      <4>1. CASE q # p /\ r # p
        BY <3>3, <3>6, <4>1 DEF DeliveryOK, ClaimsAreAlone
      <4>2. CASE q = p \/ r = p
        <5>1. \A s \in Nat : ~(s < s)
          OBVIOUS
        <5>2. work'[p][j].stamp \in Nat
          BY <1>2, <2>1
        <5> QED BY <3>5, <3>6, <4>2, <5>1, <5>2
      <4> QED BY <4>1, <4>2
    <3> QED BY <3>1, <3>4, <3>6
  <2>2. CASE j \notin Claimable
    <3>1. /\ job'[j] = job[j] /\ \A q \in Processes : work'[q][j] = work[q][j]
      BY <1>1, <1>3, <1>4, <2>2
    <3> QED BY <3>1 DEF DeliveryOK, ClaimsAreAlone
  <2> QED BY <2>1, <2>2
<1>7. ASSUME NEW j \in Jobs
      PROVE  ToCome(j)' <= ToCome(j) /\ ToCome(j)' \in Nat /\ ToCome(j) \in Nat
  <2>1. CASE j \in Claimable
    <3>1. Armed(j) /\ ~Armed(j)'
      <4>1. ~Hopeless(work'[p][j], job'[j])
        BY <1>2, <2>1 DEF Hopeless
      <4> QED BY <1>2, <2>1, <4>1 DEF Armed
    <3>2. Senders(j)' \subseteq Senders(j) \cup {p}
      BY <1>4 DEF Senders
    <3>3. Cardinality(Senders(j)') <= Cardinality(Senders(j)) + 1
          /\ Cardinality(Senders(j)') \in Nat /\ Cardinality(Senders(j)) \in Nat
      <4>1. IsFiniteSet(Senders(j)) /\ Cardinality(Senders(j)) \in Nat
        BY SendersAreFinite
      <4>2. /\ IsFiniteSet(Senders(j) \cup {p})
            /\ Cardinality(Senders(j) \cup {p}) = IF p \in Senders(j) THEN Cardinality(Senders(j))
                                                 ELSE Cardinality(Senders(j)) + 1
        BY <4>1, FS_AddElement
      <4>3. Cardinality(Senders(j)') <= Cardinality(Senders(j) \cup {p}) /\ IsFiniteSet(Senders(j)')
        BY <3>2, <4>2, FS_Subset
      <4> QED BY <4>1, <4>2, <4>3, FS_CardinalityType
    <3> QED BY <3>1, <3>3 DEF ToCome
  <2>2. CASE j \notin Claimable
    <3>1. /\ job'[j] = job[j] /\ \A q \in Processes : work'[q][j] = work[q][j]
      BY <1>1, <1>3, <1>4, <2>2
    <3>2. Senders(j)' = Senders(j) /\ (Armed(j)' <=> Armed(j))
      BY <3>1, UntouchedJob
    <3> QED BY <3>2, NoMoreToCome
  <2> QED BY <2>1, <2>2
<1>8. Budget'
  <2> SUFFICES ASSUME NEW j \in Jobs, NEW a \in Addresses
               PROVE  received'[<<j, a>>] + ToCome(j)' <= 1 + mishaps' + retries'
    BY DEF Budget
  <2>1. received'[<<j, a>>] = received[<<j, a>>] /\ received[<<j, a>>] \in Nat
        /\ received[<<j, a>>] + ToCome(j) <= 1 + mishaps + retries /\ mishaps' = mishaps /\ retries' = retries
    BY <1>0, <1>1 DEF DeliveryOK, Budget
  <2>2. mishaps \in Nat /\ retries \in Nat
    BY <1>0
  <2> QED BY <1>7, <2>1, <2>2
<1> QED BY <1>1, <1>5, <1>6, <1>8 DEF DeliveryOK, OwnersOK, ClaimsAreAlone

(* The steps that change one piece of work and nothing about its being     *)
(* sent: it is cleaned up, settled or lost.                                *)
LEMMA WorkMovesOn ==
  ASSUME DeliveryOK, NEW p \in Processes, NEW j \in Jobs, NEW w \in Work \cup {NoWork}, NEW g \in Job,
         Takes(p, j, w), job' = [job EXCEPT ![j] = g],
         w # NoWork => w.pc # "send" /\ work[p][j] # NoWork /\ work[p][j].stamp = w.stamp,
         Untried(g), Claim(w, g),
         \A q \in Processes : q # p => Claim(work[q][j], g),
         Armed(j)' => Armed(j),
         UNCHANGED <<channel, received, mishaps, retries>>,
         holder' \in [Devices -> Users \cup {NoOwner}]
  PROVE  DeliveryOK'
<1>1. /\ work' \in [Processes -> [Jobs -> Work \cup {NoWork}]] /\ work'[p][j] = w
      /\ \A q \in Processes, i \in Jobs : q # p \/ i # j => work'[q][i] = work[q][i]
  BY OneClaim DEF DeliveryOK
<1>2. /\ job'[j] = g /\ (\A i \in Jobs : i # j => job'[i] = job[i]) /\ job' \in [Jobs -> Job]
  BY DEF DeliveryOK, WorkTypeOK
<1>3. WorkTypeOK'
  BY <1>1, <1>2 DEF DeliveryOK, WorkTypeOK
<1>4. ClaimsAreAlone'
  BY <1>1 DEF DeliveryOK, ClaimsAreAlone
<1>5. ASSUME NEW i \in Jobs PROVE Untried(job'[i]) /\ \A q \in Processes : Claim(work'[q][i], job'[i])
  BY <1>1, <1>2 DEF DeliveryOK
<1>6. ASSUME NEW i \in Jobs PROVE Senders(i)' \subseteq Senders(i) /\ (Armed(i)' => Armed(i))
  <2>1. CASE i = j
    BY <1>1, <2>1 DEF Senders
  <2>2. CASE i # j
    BY <1>1, <1>2, <2>2, UntouchedJob
  <2> QED BY <2>1, <2>2
<1>7. Budget'
  <2>1. mishaps' + retries' >= mishaps + retries
    <3>1. mishaps \in Nat /\ retries \in Nat
      BY NotificationAssumption DEF DeliveryOK, WorkTypeOK
    <3> QED BY <3>1
  <2> QED BY <1>3, <1>6, <2>1, BudgetIsKept DEF DeliveryOK
<1> QED BY <1>3, <1>4, <1>5, <1>7 DEF DeliveryOK, OwnersOK

(* Devices are forgotten: the work goes on to be settled.                  *)
LEMMA CleanupKeepsDelivery ==
  ASSUME DeliveryOK, NEW p \in Processes, NEW j \in Jobs, ForgetsDevices(p, j)
  PROVE  DeliveryOK'
<1>0. job \in [Jobs -> Job] /\ work \in [Processes -> [Jobs -> Work \cup {NoWork}]]
  BY DEF DeliveryOK, WorkTypeOK
<1>1. /\ work[p][j] # NoWork /\ work[p][j].pc = "clean"
      /\ work' = [work EXCEPT ![p][j].pc = "settle"]
      /\ UNCHANGED <<channel, job, received, mishaps, retries>>
      /\ holder' = [d \in Devices |-> IF d \in work[p][j].gone /\ holder[d] = Recipient[j]
                                      THEN NoOwner ELSE holder[d]]
  BY DEF ForgetsDevices
<1>2. PICK v, w, g : v = work[p][j] /\ w = [v EXCEPT !.pc = "settle"] /\ g = job[j]
  OBVIOUS
<1>3. v \in Work /\ g \in Job
  BY <1>0, <1>1, <1>2
<1>4. /\ w \in Work /\ w.pc = "settle" /\ w.stamp = v.stamp /\ w.attempts = v.attempts
      /\ w.result = v.result
  BY <1>2, <1>3 DEF Work
<1>5. Takes(p, j, w) /\ job' = [job EXCEPT ![j] = g]
  BY <1>0, <1>1, <1>2 DEF Takes
<1>6. Untried(g) /\ Claim(v, g) /\ (\A q \in Processes : Claim(work[q][j], g)) /\ v # NoWork
  BY <1>1, <1>2 DEF DeliveryOK
<1>7. Claim(w, g)
  BY <1>4, <1>6 DEF Claim
<1>8. Armed(j)' => Armed(j)
  <2>1. work'[p][j] = w /\ \A q \in Processes, i \in Jobs : q # p \/ i # j => work'[q][i] = work[q][i]
    BY <1>4, <1>5, OneClaim DEF DeliveryOK
  <2>2. Hopeless(w, g) => Hopeless(v, g)
    BY <1>1, <1>2, <1>4, <1>6, NotificationAssumption DEF Hopeless
  <2>3. \A q \in Processes : Hopeless(work'[q][j], job[j]) => Hopeless(work[q][j], job[j])
    BY <1>2, <2>1, <2>2
  <2> QED BY <1>1, <2>3 DEF Armed
<1>9. holder' \in [Devices -> Users \cup {NoOwner}]
  BY <1>1 DEF DeliveryOK, OwnersOK
<1> QED BY <1>1, <1>2, <1>3, <1>4, <1>5, <1>6, <1>7, <1>8, <1>9, WorkMovesOn

(* An outcome is written by the one holder of the current stamp, or not at *)
(* all.                                                                    *)
LEMMA SettleKeepsDelivery ==
  ASSUME DeliveryOK, NEW p \in Processes, NEW j \in Jobs, settle(p, j)
  PROVE  DeliveryOK'
<1> USE NotificationAssumption
<1>0. job \in [Jobs -> Job] /\ work \in [Processes -> [Jobs -> Work \cup {NoWork}]]
  BY DEF DeliveryOK, WorkTypeOK
<1>1. /\ work[p][j] # NoWork /\ work[p][j].pc = "settle"
      /\ work' = [work EXCEPT ![p][j] = NoWork]
      /\ UNCHANGED <<channel, holder, received, mishaps, retries>>
  BY DEF settle
<1>2. PICK v, g : v = work[p][j] /\ g = job[j]
  OBVIOUS
<1>3. /\ v \in Work /\ g \in Job /\ v # NoWork /\ Claim(v, g) /\ Untried(g)
      /\ \A q \in Processes : Claim(work[q][j], g)
      /\ v.stamp \in Nat /\ v.attempts \in Nat /\ v.result \in {"SENT", "RETRY", "FAILED"}
      /\ g.stamp \in Nat /\ g.attempts \in 0..MaxAttempts /\ g.status # "none"
  BY <1>0, <1>1, <1>2 DEF DeliveryOK, Claim, Work, Job
<1>4. Takes(p, j, NoWork) /\ Claim(NoWork, g) /\ work'[p][j] = NoWork
      /\ \A q \in Processes, i \in Jobs : q # p \/ i # j => work'[q][i] = work[q][i]
  <2>1. Takes(p, j, NoWork)
    BY <1>1 DEF Takes
  <2> QED BY <2>1, OneClaim DEF DeliveryOK, Claim
<1>5. CASE ~Fenced(p, j)
  <2>1. job' = job /\ job' = [job EXCEPT ![j] = g]
    BY <1>0, <1>1, <1>2, <1>5 DEF settle
  <2>2. Armed(j)' => Armed(j)
    <3> SUFFICES ASSUME Armed(j)', ~job[j].due PROVE \A q \in Processes : Hopeless(work[q][j], job[j])
      BY <1>2, <1>3, <2>1 DEF Armed
    <3>1. job[j].status = "PENDING" /\ v.stamp # g.stamp
      BY <1>2, <1>3, <1>5, <2>1 DEF Armed, Fenced
    <3>2. \A q \in Processes : Hopeless(work'[q][j], job[j])
      BY <1>2, <1>3, <2>1 DEF Armed
    <3>3. ASSUME NEW q \in Processes PROVE Hopeless(work[q][j], job[j])
      <4>1. CASE q = p
        BY <1>2, <3>1, <4>1 DEF Hopeless
      <4>2. CASE q # p
        BY <1>4, <3>2, <4>2
      <4> QED BY <4>1, <4>2
    <3> QED BY <3>3
  <2> QED BY <1>1, <1>2, <1>3, <1>4, <2>1, <2>2, WorkMovesOn DEF DeliveryOK, OwnersOK
<1>6. CASE Fenced(p, j)
  <2>0. g.status = "PENDING" /\ v.stamp = g.stamp /\ v.attempts = g.attempts /\ g.attempts + 1 \in 0..MaxAttempts
    BY <1>2, <1>3, <1>6 DEF Fenced, Claim, Untried
  <2>1. PICK h : h = [status |-> IF v.result = "RETRY" THEN g.status ELSE v.result,
                      attempts |-> g.attempts + 1,
                      stamp |-> IF v.result = "RETRY" THEN g.stamp + 1 ELSE g.stamp,
                      due |-> IF v.result = "RETRY" THEN FALSE ELSE g.due]
    OBVIOUS
  <2>2. job' = [job EXCEPT ![j] = h]
    BY <1>0, <1>1, <1>2, <1>6, <2>1 DEF settle
  <2>3. g.due \in BOOLEAN
    BY <1>3 DEF Job
  <2>4. h.attempts = g.attempts + 1
    BY <2>1
  <2>5. CASE v.result = "RETRY"
    <3>1. h = [status |-> "PENDING", attempts |-> g.attempts + 1, stamp |-> g.stamp + 1, due |-> FALSE]
      BY <2>0, <2>1, <2>5
    <3>2. h \in Job /\ h.status = "PENDING" /\ h.stamp = g.stamp + 1
      BY <1>3, <2>0, <3>1 DEF Job
    <3>3. Untried(h)
      BY <1>3, <2>0, <2>4, <2>5 DEF Claim, Untried
    <3>4. ASSUME NEW q \in Processes PROVE Claim(work[q][j], h)
      <4>1. PICK w : w = work[q][j]
        OBVIOUS
      <4>2. Claim(w, g) /\ (w # NoWork => w \in Work)
        BY <1>0, <1>3, <4>1
      <4>3. w # NoWork => w.stamp \in Nat
        BY <4>2 DEF Work
      <4> QED BY <1>3, <3>2, <4>1, <4>2, <4>3 DEF Claim
    <3>5. Armed(j)
      <4>1. ASSUME NEW q \in Processes PROVE Hopeless(work[q][j], job[j])
        <5>1. work[q][j] # NoWork /\ work[q][j].stamp = job[j].stamp => q = p
          BY <1>1, <1>2, <2>0 DEF DeliveryOK, ClaimsAreAlone
        <5> QED BY <1>1, <1>2, <2>5, <5>1 DEF Hopeless
      <4> QED BY <1>2, <2>0, <4>1 DEF Armed
    <3>6. Claim(NoWork, h)
      BY DEF Claim
    <3> QED BY <1>1, <1>4, <2>2, <3>2, <3>3, <3>4, <3>5, <3>6, WorkMovesOn DEF DeliveryOK, OwnersOK
  <2>6. CASE v.result # "RETRY"
    <3>1. h = [status |-> v.result, attempts |-> g.attempts + 1, stamp |-> g.stamp, due |-> g.due]
      BY <2>1, <2>6
    <3>2. h.status = v.result /\ h.stamp = g.stamp /\ v.result \in {"SENT", "FAILED"}
      BY <1>3, <2>6, <3>1
    <3>3. h \in Job
      <4>1. \A a \in BOOLEAN, n \in 0..MaxAttempts, m \in Nat, t \in {"SENT", "FAILED"} :
              [status |-> t, attempts |-> n, stamp |-> m, due |-> a] \in Job
        BY DEF Job
      <4> QED BY <1>3, <2>0, <2>3, <3>1, <3>2, <4>1, Zenon
    <3>4. Untried(h) /\ Claim(NoWork, h) /\ \A q \in Processes : Claim(work[q][j], h)
      BY <1>3, <3>2 DEF Untried, Claim
    <3>5. ~Armed(j)'
      <4>1. job'[j] = h
        BY <1>0, <2>2
      <4> QED BY <3>2, <4>1 DEF Armed
    <3> QED BY <1>1, <1>4, <2>2, <3>3, <3>4, <3>5, WorkMovesOn DEF DeliveryOK, OwnersOK
  <2> QED BY <2>5, <2>6
<1> QED BY <1>5, <1>6

(* A process that dies forgets its work, and counts as a mishap.           *)
LEMMA DeathKeepsDelivery ==
  ASSUME DeliveryOK, NEW p \in Processes, ProcessDies(p)
  PROVE  DeliveryOK'
<1> USE NotificationAssumption
<1>0. /\ job \in [Jobs -> Job] /\ work \in [Processes -> [Jobs -> Work \cup {NoWork}]]
      /\ mishaps \in 0..MaxMishaps /\ retries \in 0..MaxRetries
  BY DEF DeliveryOK, WorkTypeOK
<1>1. /\ work' = [work EXCEPT ![p] = [j \in Jobs |-> NoWork]]
      /\ mishaps < MaxMishaps /\ mishaps' = mishaps + 1
      /\ UNCHANGED <<channel, job, holder, received, retries>>
  BY DEF ProcessDies
<1>2. /\ \A j \in Jobs : work'[p][j] = NoWork
      /\ \A q \in Processes : q # p => work'[q] = work[q]
      /\ work' \in [Processes -> [Jobs -> Work \cup {NoWork}]]
  BY <1>0, <1>1
<1>3. WorkTypeOK'
  BY <1>0, <1>1, <1>2 DEF DeliveryOK, WorkTypeOK
<1>4. \A j \in Jobs : Senders(j)' \subseteq Senders(j)
  BY <1>2 DEF Senders
<1>5. mishaps' + retries' > mishaps + retries /\ mishaps' + retries' >= mishaps + retries
  BY <1>0, <1>1
<1>6. Budget'
  BY <1>1, <1>3, <1>4, <1>5, BudgetIsKept DEF DeliveryOK
<1>7. ASSUME NEW j \in Jobs, NEW q \in Processes
      PROVE  Claim(work'[q][j], job'[j]) /\ (work'[q][j] # NoWork => q # p /\ work'[q][j] = work[q][j])
  <2>1. CASE q = p
    BY <1>2, <2>1 DEF Claim
  <2>2. CASE q # p
    BY <1>1, <1>2, <2>2 DEF DeliveryOK
  <2> QED BY <2>1, <2>2
<1> QED BY <1>1, <1>3, <1>6, <1>7 DEF DeliveryOK, OwnersOK, ClaimsAreAlone
-----------------------------------------------------------------------------
(* What a sender makes of its answers: a sent message is no reason to try  *)
(* again, and another try is only for a job that has one left.             *)
LEMMA OutcomesAreSettled ==
  ASSUME NEW outcomes, NEW n \in Nat
  PROVE  /\ settleOutcome(outcomes, n) \in {"SENT", "RETRY", "FAILED"}
         /\ "SENT" \in outcomes => settleOutcome(outcomes, n) = "SENT"
         /\ settleOutcome(outcomes, n) = "RETRY" => n + 1 < MaxAttempts
BY NotificationAssumption DEF settleOutcome

(* A message is sent: the sender is done, and if the job may be claimed    *)
(* again, then nobody was reached unless an answer was lost.               *)
LEMMA SendingKeepsDelivery ==
  ASSUME DeliveryOK, NEW p \in Processes, NEW j \in Jobs, deliver(p, j)
  PROVE  DeliveryOK'
<1> USE NotificationAssumption
<1>0. /\ job \in [Jobs -> Job] /\ work \in [Processes -> [Jobs -> Work \cup {NoWork}]]
      /\ received \in [Jobs \X Addresses -> Nat]
      /\ mishaps \in Nat /\ mishaps <= MaxMishaps /\ retries \in 0..MaxRetries
  BY DEF DeliveryOK, WorkTypeOK
<1> DEFINE v == work[p][j]
           g == job[j]
<1>1. v = work[p][j] /\ g = job[j]
  OBVIOUS
<1>2. v # NoWork /\ v.pc = "send" /\ UNCHANGED <<channel, job, holder, retries>>
  BY <1>1 DEF deliver
<1>3. /\ v \in Work /\ v.to \subseteq Addresses /\ v.stamp \in Nat /\ v.attempts \in Nat /\ g \in Job
      /\ Untried(g) /\ \A q \in Processes : Claim(work[q][j], g)
  BY <1>0, <1>1, <1>2 DEF DeliveryOK, Work
<1>4. PICK answers \in [v.to -> PushOutcome] :
        \E lost \in SUBSET {a \in v.to : answers[a] = "TRANSIENT"} :
          /\ Cardinality(lost) <= MaxMishaps - mishaps
          /\ mishaps' = mishaps + Cardinality(lost)
          /\ received' = [x \in DOMAIN received |->
               IF x[1] = j /\ x[2] \in v.to /\ (x[2] \in lost \/ answers[x[2]] = "SENT")
               THEN received[x] + 1 ELSE received[x]]
          /\ work' = [work EXCEPT ![p][j].pc = "clean",
               ![p][j].gone = {a \in v.to \cap Devices : answers[a] = "INVALID_TOKEN"},
               ![p][j].result = settleOutcome({answers[a] : a \in v.to}, v.attempts)]
  BY DEF deliver
<1> HIDE DEF v, g
<1>5. PICK lost \in SUBSET {a \in v.to : answers[a] = "TRANSIENT"} :
          /\ Cardinality(lost) <= MaxMishaps - mishaps
          /\ mishaps' = mishaps + Cardinality(lost)
          /\ received' = [x \in DOMAIN received |->
               IF x[1] = j /\ x[2] \in v.to /\ (x[2] \in lost \/ answers[x[2]] = "SENT")
               THEN received[x] + 1 ELSE received[x]]
          /\ work' = [work EXCEPT ![p][j].pc = "clean",
               ![p][j].gone = {a \in v.to \cap Devices : answers[a] = "INVALID_TOKEN"},
               ![p][j].result = settleOutcome({answers[a] : a \in v.to}, v.attempts)]
  BY <1>4
<1>6. PICK r, n : r = settleOutcome({answers[a] : a \in v.to}, v.attempts) /\ n = Cardinality(lost)
  OBVIOUS
<1>7. /\ r \in {"SENT", "RETRY", "FAILED"}
      /\ r = "RETRY" => v.attempts + 1 < MaxAttempts
      /\ r = "RETRY" => \A a \in v.to : answers[a] # "SENT"
  BY <1>3, <1>6, OutcomesAreSettled
<1>8. IsFiniteSet(lost) /\ n \in Nat /\ \A a \in lost : n >= 1
  <2>1. IsFiniteSet(Addresses)
    BY FS_Union DEF Addresses
  <2>2. IsFiniteSet(lost)
    BY <1>3, <2>1, FS_Subset
  <2>3. n \in Nat /\ (n = 0 <=> lost = {})
    BY <1>6, <2>2, FS_CardinalityType, FS_EmptySet
  <2> QED BY <2>2, <2>3
<1>9. mishaps' \in 0..MaxMishaps /\ mishaps' \in Nat /\ mishaps' = mishaps + n
  <2>1. n <= MaxMishaps - mishaps /\ mishaps' = mishaps + n
    BY <1>5, <1>6
  <2>2. MaxMishaps \in Nat
    OBVIOUS
  <2> QED BY <1>0, <1>8, <2>1, <2>2
<1>10. PICK w, gone : /\ gone = {a \in v.to \cap Devices : answers[a] = "INVALID_TOKEN"}
                      /\ w = [v EXCEPT !.pc = "clean", !.gone = gone, !.result = r]
  OBVIOUS
<1>11. /\ w \in Work /\ w.pc = "clean" /\ w.stamp = v.stamp /\ w.attempts = v.attempts /\ w.result = r
       /\ w # NoWork
  <2>1. gone \in SUBSET Devices
    BY <1>10
  <2>2. w = [v EXCEPT !.pc = "clean", !.gone = gone, !.result = r]
    BY <1>10
  <2>3. w \in Work /\ w.pc = "clean" /\ w.stamp = v.stamp /\ w.attempts = v.attempts /\ w.result = r
    BY <1>3, <1>7, <2>1, <2>2 DEF Work
  <2> QED BY <2>3
<1>12. Takes(p, j, w)
  BY <1>0, <1>1, <1>5, <1>6, <1>10 DEF Takes
<1>13. /\ work' \in [Processes -> [Jobs -> Work \cup {NoWork}]] /\ work'[p][j] = w
       /\ \A q \in Processes, i \in Jobs : q # p \/ i # j => work'[q][i] = work[q][i]
  BY <1>11, <1>12, OneClaim DEF DeliveryOK
<1>14. WorkTypeOK'
  <2>1. received' \in [Jobs \X Addresses -> Nat]
    <3>1. received' = [x \in DOMAIN received |->
               IF x[1] = j /\ x[2] \in v.to /\ (x[2] \in lost \/ answers[x[2]] = "SENT")
               THEN received[x] + 1 ELSE received[x]]
      BY <1>5
    <3>2. DOMAIN received = Jobs \X Addresses /\ \A x \in Jobs \X Addresses : received[x] \in Nat
      BY <1>0
    <3> QED BY <3>1, <3>2
  <2> QED BY <1>0, <1>2, <1>9, <1>13, <2>1 DEF WorkTypeOK
<1>15. ClaimsAreAlone'
  BY <1>1, <1>2, <1>11, <1>13 DEF DeliveryOK, ClaimsAreAlone
<1>16. \A i \in Jobs : Untried(job'[i]) /\ \A q \in Processes : Claim(work'[q][i], job'[i])
  <2>1. Claim(w, g)
    BY <1>1, <1>2, <1>3, <1>7, <1>11 DEF Claim
  <2> QED BY <1>1, <1>2, <1>13, <2>1 DEF DeliveryOK
<1>17. Cardinality(Senders(j)') = Cardinality(Senders(j)) - 1
       /\ Cardinality(Senders(j)) \in Nat /\ Cardinality(Senders(j)') \in Nat
  <2>1. Senders(j)' = Senders(j) \ {p} /\ p \in Senders(j)
    BY <1>1, <1>2, <1>11, <1>13 DEF Senders
  <2> QED BY <2>1, SendersAreFinite, FS_RemoveElement, FS_CardinalityType
<1>18. r # "RETRY" => (Armed(j)' => Armed(j))
  <2> SUFFICES ASSUME r # "RETRY", Armed(j)', job[j].status = "PENDING", ~job[j].due,
                      NEW q \in Processes
               PROVE  Hopeless(work[q][j], job[j])
    BY <1>2 DEF Armed
  <2>1. Hopeless(work'[q][j], job[j])
    BY <1>2 DEF Armed
  <2>2. CASE q = p
    BY <1>1, <1>11, <1>13, <2>1, <2>2 DEF Hopeless
  <2>3. CASE q # p
    BY <1>13, <2>1, <2>3
  <2> QED BY <2>2, <2>3
<1>19. Budget'
  <2> SUFFICES ASSUME NEW i \in Jobs, NEW a \in Addresses
               PROVE  received'[<<i, a>>] + ToCome(i)' <= 1 + mishaps' + retries'
    BY DEF Budget
  <2>1. /\ received[<<i, a>>] \in Nat /\ retries \in Nat /\ retries' = retries
        /\ received[<<i, a>>] + ToCome(i) <= 1 + mishaps + retries
    BY <1>0, <1>2 DEF DeliveryOK, Budget
  <2>2. CASE i # j
    <3>1. received'[<<i, a>>] = received[<<i, a>>]
      BY <1>0, <1>5, <2>2
    <3>2. Senders(i)' = Senders(i) /\ (Armed(i)' <=> Armed(i))
      BY <1>2, <1>13, <2>2, UntouchedJob
    <3>3. ToCome(i)' <= ToCome(i) /\ ToCome(i)' \in Nat /\ ToCome(i) \in Nat
      BY <3>2, NoMoreToCome
    <3> QED BY <1>0, <1>8, <1>9, <2>1, <3>1, <3>3
  <2>3. CASE i = j
    <3>1. received'[<<j, a>>] = IF a \in v.to /\ (a \in lost \/ answers[a] = "SENT")
                                THEN received[<<j, a>>] + 1 ELSE received[<<j, a>>]
      BY <1>0, <1>5
    <3>2. CASE r # "RETRY"
      <4>1. ToCome(j)' + 1 <= ToCome(j) /\ ToCome(j)' \in Nat /\ ToCome(j) \in Nat
        BY <1>17, <1>18, <3>2 DEF ToCome
      <4> QED BY <1>0, <1>8, <1>9, <2>1, <2>3, <3>1, <4>1
    <3>3. CASE r = "RETRY"
      <4>1. ToCome(j)' <= ToCome(j) /\ ToCome(j)' \in Nat /\ ToCome(j) \in Nat
        BY <1>17 DEF ToCome
      <4>2. received'[<<j, a>>] <= received[<<j, a>>] + n /\ received'[<<j, a>>] \in Nat
        BY <1>7, <1>8, <2>1, <2>3, <3>1, <3>3
      <4> QED BY <1>0, <1>8, <1>9, <2>1, <2>3, <4>1, <4>2
    <3> QED BY <3>2, <3>3
  <2> QED BY <2>2, <2>3
<1> QED BY <1>2, <1>14, <1>15, <1>16, <1>19 DEF DeliveryOK, OwnersOK

(* Devices change hands while jobs are under way: no job is touched.       *)
LEMMA HandsKeepDelivery ==
  ASSUME DeliveryOK, holder' \in [Devices -> Users \cup {NoOwner}],
         UNCHANGED <<channel, job, work, received, mishaps, retries>>
  PROVE  DeliveryOK'
BY DEF DeliveryOK, WorkTypeOK, OwnersOK, Budget, ClaimsAreAlone, ToCome, Senders, Armed

(* A device that is registered touches no job.                             *)
LEMMA RegisteringKeepsDelivery ==
  ASSUME DeliveryOK, NEW u \in Users, NEW d \in Devices, register(u, d)
  PROVE  DeliveryOK'
<1>1. holder \in [Devices -> Users \cup {NoOwner}]
  BY DEF DeliveryOK, OwnersOK
<1>2. PICK claimed : claimed = [holder EXCEPT ![d] = u]
  OBVIOUS
<1>3. claimed \in [Devices -> Users \cup {NoOwner}]
  BY <1>1, <1>2
<1>4. holder' = claimed \/ \E e \in Devices : holder' = [claimed EXCEPT ![e] = NoOwner]
  BY <1>2 DEF register
<1>5. holder' \in [Devices -> Users \cup {NoOwner}]
  BY <1>3, <1>4
<1> QED BY <1>5, HandsKeepDelivery DEF register

-----------------------------------------------------------------------------
(* Initially nothing is queued.                                            *)
LEMMA DeliveryStarts == NotificationInit => DeliveryOK
<1> SUFFICES ASSUME NotificationInit PROVE DeliveryOK
  OBVIOUS
<1> USE NotificationAssumption
<1>1. WorkTypeOK
  BY DEF NotificationInit, WorkTypeOK, Job
<1>2. Budget
  <2> SUFFICES ASSUME NEW j \in Jobs, NEW a \in Addresses
               PROVE  received[<<j, a>>] + ToCome(j) <= 1 + mishaps + retries
    BY DEF Budget
  <2>1. Senders(j) = {}
    BY DEF NotificationInit, Senders
  <2>2. ToCome(j) \in 0..1
    BY <2>1, FS_EmptySet DEF ToCome
  <2>3. received[<<j, a>>] = 0 /\ mishaps = 0 /\ retries = 0
    BY DEF NotificationInit
  <2> QED BY <2>2, <2>3
<1>3. OwnersOK /\ ClaimsAreAlone
  BY DEF NotificationInit, OwnersOK, ClaimsAreAlone
<1>4. \A j \in Jobs : Untried(job[j]) /\ \A p \in Processes : Claim(work[p][j], job[j])
  BY DEF NotificationInit, Untried, Claim
<1> QED BY <1>1, <1>2, <1>3, <1>4 DEF DeliveryOK

(* Every step keeps the invariant of the delivery.                         *)
LEMMA DeliveryKept == DeliveryOK /\ [NotificationNext]_notificationVars => DeliveryOK'
<1> SUFFICES ASSUME DeliveryOK, [NotificationNext]_notificationVars PROVE DeliveryOK'
  OBVIOUS
<1>1. ASSUME NEW p \in Processes, Delivers(p) PROVE DeliveryOK'
  BY <1>1, TickKeepsDelivery, SendingKeepsDelivery, CleanupKeepsDelivery, SettleKeepsDelivery DEF Delivers
<1>2. ASSUME NEW p \in Processes, ProcessDies(p) PROVE DeliveryOK'
  BY <1>2, DeathKeepsDelivery
<1>3. ASSUME NEW j \in Jobs, handle(j) \/ NextAttempt(j) \/ retryNotificationJob(j) PROVE DeliveryOK'
  BY <1>3, QueueKeepsDelivery, DueKeepsDelivery, RetryKeepsDelivery
<1>4. ASSUME NEW j \in Jobs, BookingMovesOn(j) PROVE DeliveryOK'
  BY <1>4, HandsKeepDelivery DEF BookingMovesOn, DeliveryOK, OwnersOK
<1>5. ASSUME NEW d \in Devices, unregister(d) PROVE DeliveryOK'
  BY <1>5, HandsKeepDelivery DEF unregister, DeliveryOK, OwnersOK
<1>6. ASSUME NEW d \in Devices, NEW u \in Users, register(u, d) PROVE DeliveryOK'
  BY <1>6, RegisteringKeepsDelivery
<1>7. ASSUME NEW u \in Users, UserSuspended(u) PROVE DeliveryOK'
  BY <1>7, HandsKeepDelivery DEF UserSuspended, DeliveryOK, OwnersOK
<1>8. CASE UNCHANGED notificationVars
  BY <1>8, HandsKeepDelivery DEF notificationVars, DeliveryOK, OwnersOK
<1> QED BY <1>1, <1>2, <1>3, <1>4, <1>5, <1>6, <1>7, <1>8 DEF NotificationNext

(* What the invariant says of the messages that have arrived.              *)
LEMMA DuplicatesAreBounded == DeliveryOK => NotificationTypeOK /\ DuplicatesAreExcused
<1> SUFFICES ASSUME DeliveryOK PROVE NotificationTypeOK /\ DuplicatesAreExcused
  OBVIOUS
<1>1. NotificationTypeOK
  BY DEF DeliveryOK, WorkTypeOK, OwnersOK, Job, NotificationTypeOK
<1>2. ASSUME NEW x \in DOMAIN received PROVE received[x] <= 1 + mishaps + retries
  <2>0. received \in [Jobs \X Addresses -> Nat]
    BY DEF DeliveryOK, WorkTypeOK
  <2>1. PICK j \in Jobs, a \in Addresses : x = <<j, a>>
    BY <1>2, <2>0
  <2>2. received[<<j, a>>] + ToCome(j) <= 1 + mishaps + retries /\ received[<<j, a>>] \in Nat
    BY <2>0 DEF DeliveryOK, Budget
  <2>3. ToCome(j) \in Nat
    BY SendersAreFinite DEF ToCome
  <2>4. mishaps \in Nat /\ retries \in Nat
    BY NotificationAssumption DEF DeliveryOK, WorkTypeOK
  <2> QED BY <2>1, <2>2, <2>3, <2>4
<1> QED BY <1>1, <1>2 DEF DuplicatesAreExcused

(* A job that is over is written by nobody but an operator: handle takes up*)
(* only what is new, the workers only what is pending.                     *)
LEMMA OverIsOver ==
  ASSUME DeliveryOK, NotificationNext, NEW j \in Jobs
  PROVE  /\ job[j].status = "SENT" => job'[j] = job[j]
         /\ job[j].status = "FAILED" => job'[j] = job[j] \/ job'[j].status = "PENDING"
<1>0. job \in [Jobs -> Job]
  BY DEF DeliveryOK, WorkTypeOK
<1>1. ASSUME NEW p \in Processes, tick(p), job[j].status \in {"SENT", "FAILED"} PROVE job'[j] = job[j]
  BY <1>1 DEF tick, Claimable
<1>2. ASSUME NEW p \in Processes, NEW i \in Jobs, settle(p, i), job[j].status \in {"SENT", "FAILED"}
      PROVE  job'[j] = job[j]
  BY <1>0, <1>2 DEF settle, Fenced
<1>3. ASSUME NEW i \in Jobs, handle(i) \/ NextAttempt(i), job[j].status \in {"SENT", "FAILED"}
      PROVE  job'[j] = job[j]
  <2>1. CASE i = j
    BY <1>3, <2>1 DEF handle, NextAttempt
  <2>2. CASE i # j
    BY <1>0, <1>3, <2>2 DEF handle, NextAttempt
  <2> QED BY <2>1, <2>2
<1>4. ASSUME NEW i \in Jobs, retryNotificationJob(i)
      PROVE  /\ job[j].status = "SENT" => job'[j] = job[j]
             /\ job'[j] = job[j] \/ job'[j].status = "PENDING"
  <2>1. job[i].status = "FAILED"
        /\ job' = [job EXCEPT ![i] = [status |-> "PENDING", attempts |-> 0, stamp |-> @.stamp + 1, due |-> TRUE]]
    BY <1>4 DEF retryNotificationJob
  <2>2. CASE i = j
    BY <1>0, <2>1, <2>2
  <2>3. CASE i # j
    BY <1>0, <2>1, <2>3
  <2> QED BY <2>2, <2>3
<1>5. ASSUME \/ \E p \in Processes : ProcessDies(p) \/ \E i \in Jobs : deliver(p, i) \/ ForgetsDevices(p, i)
             \/ \E i \in Jobs : BookingMovesOn(i)
             \/ \E d \in Devices : unregister(d) \/ \E u \in Users : register(u, d)
             \/ \E u \in Users : UserSuspended(u)
      PROVE  job' = job
  BY <1>5 DEF ProcessDies, deliver, ForgetsDevices, BookingMovesOn, unregister, register, UserSuspended
<1> QED BY <1>1, <1>2, <1>3, <1>4, <1>5 DEF NotificationNext, Delivers

(* Only the process that cleans up writes the work of its jobs, and it     *)
(* takes a device only from the one the message was for.                   *)
LEMMA CleanupTakesItsOwn ==
  ASSUME DeliveryOK, NotificationNext, NEW p \in Processes, NEW j \in Jobs,
         work[p][j] # NoWork, work'[p][j] # NoWork,
         work[p][j].pc = "clean", work'[p][j].pc = "settle", NEW d \in Devices
  PROVE  holder'[d] = holder[d] \/ holder[d] = Recipient[j]
<1>0. /\ work \in [Processes -> [Jobs -> Work \cup {NoWork}]]
      /\ holder \in [Devices -> Users \cup {NoOwner}]
  BY DEF DeliveryOK, WorkTypeOK, OwnersOK
<1>1. ASSUME NEW q \in Processes, NEW i \in Jobs, ForgetsDevices(q, i)
      PROVE  holder'[d] = holder[d] \/ holder[d] = Recipient[j]
  <2>1. CASE q = p /\ i = j
    BY <1>0, <1>1, <2>1 DEF ForgetsDevices
  <2>2. CASE q # p \/ i # j
    <3>1. work'[p][j] = work[p][j]
      BY <1>0, <1>1, <2>2 DEF ForgetsDevices
    <3> QED BY <3>1
  <2> QED BY <2>1, <2>2
<1>2. ASSUME \/ \E q \in Processes : ProcessDies(q) \/ tick(q)
             \/ \E q \in Processes, i \in Jobs : deliver(q, i) \/ settle(q, i)
      PROVE  holder' = holder
  <2>1. ASSUME NEW q \in Processes, ProcessDies(q) PROVE holder' = holder
    BY <2>1 DEF ProcessDies
  <2>2. ASSUME NEW q \in Processes, tick(q) PROVE holder' = holder
    BY <2>2 DEF tick
  <2>3. ASSUME NEW q \in Processes, NEW i \in Jobs, deliver(q, i) PROVE holder' = holder
    BY <2>3 DEF deliver
  <2>4. ASSUME NEW q \in Processes, NEW i \in Jobs, settle(q, i) PROVE holder' = holder
    BY <2>4 DEF settle
  <2> QED BY <1>2, <2>1, <2>2, <2>3, <2>4
<1>3. ASSUME \/ \E i \in Jobs : handle(i) \/ NextAttempt(i) \/ retryNotificationJob(i) \/ BookingMovesOn(i)
             \/ \E e \in Devices : unregister(e) \/ \E u \in Users : register(u, e)
             \/ \E u \in Users : UserSuspended(u)
      PROVE  work' = work
  BY <1>3 DEF handle, NextAttempt, retryNotificationJob, BookingMovesOn, unregister, register, UserSuspended
<1> QED BY <1>1, <1>2, <1>3 DEF NotificationNext, Delivers

(* Two processes that may have one job at once settle it once, send it once*)
(* and clean up after it only what was its own.                            *)
THEOREM MessagesAreFenced == NotificationSpec => DeliveriesAreFenced
<1>1. NotificationInit /\ [][NotificationNext]_notificationVars => []DeliveryOK
  BY DeliveryStarts, DeliveryKept, PTL
<1>2. DeliveryOK /\ [NotificationNext]_notificationVars =>
        [\A j \in Jobs :
           /\ job[j].status = "SENT" => job'[j] = job[j]
           /\ job[j].status = "FAILED" => job'[j] = job[j] \/ job'[j].status = "PENDING"]_notificationVars
  BY OverIsOver
<1>3. DeliveryOK /\ [NotificationNext]_notificationVars =>
        [\A p \in Processes, j \in Jobs :
           work[p][j] # NoWork /\ work'[p][j] # NoWork /\ work[p][j].pc = "clean" /\ work'[p][j].pc = "settle" =>
             \A d \in Devices : holder'[d] = holder[d] \/ holder[d] = Recipient[j]]_notificationVars
  BY CleanupTakesItsOwn
<1> QED BY <1>1, <1>2, <1>3, DuplicatesAreBounded, PTL
        DEF NotificationSpec, DeliveriesAreFenced, OutcomeStands, CleanupSparesNewOwner
-----------------------------------------------------------------------------
(* THE EXPORT OF EVENTS                                                    *)
(*                                                                         *)
(* How often an event may still be stored before another claim runs out:   *)
(* once by each exporter that is about to insert it, and once more if      *)
(* nobody has claimed it yet.                                              *)
Inserting(e) == {x \in Exporters : round[x] = "inserting" /\ e \in hand[x]}

Unclaimed(e) == e \notin leased \union exported /\ (sent[e] = 0 \/ table[e] # 0)

ToStore(e) == Cardinality(Inserting(e)) + IF Unclaimed(e) THEN 1 ELSE 0

ExportTypeOK ==
  /\ sent \in [Facts -> Nat] /\ age \in [Facts -> 0..2] /\ table \in [Facts -> Nat]
  /\ copies \in [Facts -> Nat] /\ lapses \in [Facts -> Nat]
  /\ noted \subseteq Facts /\ exported \subseteq Facts /\ leased \subseteq Facts /\ fresh \subseteq Facts
  /\ round \in [Exporters -> {"idle", "inserting", "answered"}]
  /\ hand \in [Exporters -> SUBSET Facts] /\ refused \in [Exporters -> SUBSET Facts]

(* A row leaves the table only when it is old and the warehouse has it; it *)
(* does not come back, for an old event is not delivered any more.         *)
FactOK(e) ==
  /\ age[e] > 0 \/ e \in noted \/ table[e] # 0 => sent[e] > 0
  /\ sent[e] > 0 /\ table[e] = 0 => age[e] = 2 /\ Kept(e)
  /\ e \in exported => Kept(e)
  /\ e \in fresh => copies[e] > 0

AnswerOK(x) == round[x] = "answered" => \A e \in hand[x] \ refused[x] : Kept(e)

StoresWithin(e) == copies[e] + ToStore(e) <= 1 + lapses[e]

ExportOK ==
  /\ ExportTypeOK
  /\ \A e \in Facts : FactOK(e) /\ StoresWithin(e)
  /\ \A x \in Exporters : AnswerOK(x)

-----------------------------------------------------------------------------
(* The exporters that insert an event are finitely many.                   *)
LEMMA InsertingIsFinite ==
  ASSUME NEW e \in Facts
  PROVE  IsFiniteSet(Inserting(e)) /\ Cardinality(Inserting(e)) \in Nat
<1>1. Inserting(e) \subseteq Exporters
  BY DEF Inserting
<1> QED BY <1>1, AnalyticsAssumption, FS_Subset, FS_CardinalityType

(* A step that stores nothing, starts no insertion and frees no row, unless*)
(* a claim runs out, keeps within what is excused.                         *)
LEMMA NothingMoreToStore ==
  ASSUME ExportOK, ExportTypeOK', NEW e \in Facts, copies'[e] = copies[e],
         Inserting(e)' \subseteq Inserting(e),
         lapses'[e] >= lapses[e], (Unclaimed(e)' => Unclaimed(e)) \/ lapses'[e] > lapses[e]
  PROVE  StoresWithin(e)'
<1>1. /\ Cardinality(Inserting(e)') \in Nat /\ Cardinality(Inserting(e)) \in Nat
      /\ Cardinality(Inserting(e)') <= Cardinality(Inserting(e))
  BY InsertingIsFinite, FS_Subset, FS_CardinalityType
<1>2. /\ copies[e] \in Nat /\ lapses[e] \in Nat /\ lapses'[e] \in Nat
      /\ copies[e] + ToStore(e) <= 1 + lapses[e]
  BY DEF ExportOK, ExportTypeOK, StoresWithin
<1>3. ToStore(e) \in Nat /\ ToStore(e)' \in Nat
      /\ (ToStore(e)' <= ToStore(e) \/ (ToStore(e)' <= ToStore(e) + 1 /\ lapses'[e] > lapses[e]))
  BY <1>1 DEF ToStore
<1>4. PICK a, b, c, d, f : a = copies[e] /\ b = ToStore(e) /\ c = ToStore(e)' /\ d = lapses[e] /\ f = lapses'[e]
  OBVIOUS
<1>5. a + c <= 1 + f
  BY <1>2, <1>3, <1>4
<1> QED BY <1>4, <1>5 DEF StoresWithin

(* Steps of the broker, the clock and the sweep.                           *)
LEMMA QuietExport ==
  ASSUME ExportOK, ExportTypeOK', UNCHANGED <<round, hand, refused, unnamed, copies>>,
         \A e \in Facts : /\ FactOK(e)'
                          /\ lapses'[e] >= lapses[e]
                          /\ (Unclaimed(e)' => Unclaimed(e)) \/ lapses'[e] > lapses[e]
  PROVE  ExportOK'
<1>1. ASSUME NEW e \in Facts PROVE StoresWithin(e)'
  <2>1. Inserting(e)' = Inserting(e)
    BY DEF Inserting
  <2> QED BY <2>1, NothingMoreToStore
<1>2. \A x \in Exporters : AnswerOK(x)'
  BY DEF ExportOK, AnswerOK, Kept
<1> QED BY <1>1, <1>2 DEF ExportOK

(* An event is delivered: if it has no row by now it never had one.        *)
LEMMA ReceiptKeepsExport ==
  ASSUME ExportOK, NEW f \in Facts, Receives(f)
  PROVE  ExportOK'
<1>1. /\ age[f] = 0 /\ sent' = [sent EXCEPT ![f] = @ + 1] /\ noted' = noted \union {f}
      /\ UNCHANGED <<age, exported, leased, round, hand, refused, unnamed, copies, fresh, lapses>>
  BY DEF Receives
<1>2. PICK n \in Nat : n # 0 /\ table' = IF f \in noted \union Rows THEN table ELSE [table EXCEPT ![f] = n]
  <2>1. IsFiniteSet({g \in Facts : sent[g] > 0})
    BY AnalyticsAssumption, FS_Subset
  <2>2. Cardinality({g \in Facts : sent[g] > 0}) + 1 \in Nat \ {0}
    BY <2>1, FS_CardinalityType
  <2> QED BY <2>2 DEF Receives
<1>3. /\ sent \in [Facts -> Nat] /\ table \in [Facts -> Nat] /\ lapses \in [Facts -> Nat]
      /\ \A e \in Facts : FactOK(e)
  BY DEF ExportOK, ExportTypeOK
<1>4. sent' \in [Facts -> Nat] /\ table' \in [Facts -> Nat] /\ noted' \subseteq Facts
  BY <1>1, <1>2, <1>3 DEF ExportOK, ExportTypeOK
<1>5. ExportTypeOK'
  BY <1>1, <1>4 DEF ExportOK, ExportTypeOK
<1>6. ASSUME NEW e \in Facts
      PROVE  /\ FactOK(e)' /\ lapses'[e] >= lapses[e]
             /\ (Unclaimed(e)' => Unclaimed(e)) \/ lapses'[e] > lapses[e]
  <2>0. lapses'[e] >= lapses[e]
    BY <1>1, <1>3
  <2>1. CASE e # f
    <3>1. sent'[e] = sent[e] /\ table'[e] = table[e] /\ (e \in noted' <=> e \in noted)
      BY <1>1, <1>2, <1>3, <2>1
    <3> QED BY <1>1, <1>3, <2>0, <3>1 DEF FactOK, Kept, Unclaimed
  <2>2. CASE e = f
    <3>1. sent'[f] = sent[f] + 1 /\ sent[f] \in Nat /\ age[f] = 0
      BY <1>1, <1>3
    <3>2. table'[f] # 0 /\ (sent[f] = 0 \/ table[f] # 0)
      BY <1>2, <1>3, <3>1 DEF FactOK, Kept, Rows
    <3> QED BY <1>1, <1>3, <2>0, <2>2, <3>1, <3>2 DEF FactOK, Kept, Unclaimed
  <2> QED BY <2>1, <2>2
<1> QED BY <1>1, <1>5, <1>6, QuietExport

(* Time: BigQuery forgets, claims run out, and events grow old.            *)
LEMMA TimeKeepsExport ==
  ASSUME ExportOK, NEW f \in Facts, Forgets(f) \/ ClaimLapses(f) \/ GrowsOld(f) \/ purgeByAge
  PROVE  ExportOK'
<1>0. /\ sent \in [Facts -> Nat] /\ age \in [Facts -> 0..2] /\ lapses \in [Facts -> Nat]
      /\ \A e \in Facts : FactOK(e)
  BY DEF ExportOK, ExportTypeOK
<1>1. CASE Forgets(f)
  <2>1. UNCHANGED <<sent, age, noted, table, exported, leased, round, hand, refused, unnamed, copies, lapses>>
        /\ fresh' \subseteq fresh
    BY <1>1 DEF Forgets
  <2>2. ExportTypeOK'
    BY <2>1 DEF ExportOK, ExportTypeOK
  <2>3. \A e \in Facts : FactOK(e)' /\ (Unclaimed(e)' => Unclaimed(e)) /\ lapses'[e] >= lapses[e]
    BY <1>0, <2>1 DEF FactOK, Kept, Unclaimed
  <2> QED BY <2>1, <2>2, <2>3, QuietExport
<1>2. CASE ClaimLapses(f)
  <2>1. /\ UNCHANGED <<sent, age, noted, table, exported, round, hand, refused, unnamed, copies, fresh>>
        /\ leased' = leased \ {f} /\ lapses' = [lapses EXCEPT ![f] = @ + 1]
    BY <1>2 DEF ClaimLapses
  <2>2. ExportTypeOK'
    BY <2>1 DEF ExportOK, ExportTypeOK
  <2>3. \A e \in Facts : FactOK(e)' /\ lapses'[e] >= lapses[e] /\ ((Unclaimed(e)' => Unclaimed(e)) \/ lapses'[e] > lapses[e])
    BY <1>0, <2>1 DEF FactOK, Kept, Unclaimed
  <2> QED BY <2>1, <2>2, <2>3, QuietExport
<1>3. CASE GrowsOld(f)
  <2>1. /\ UNCHANGED <<sent, noted, table, exported, leased, round, hand, refused, unnamed, copies, fresh, lapses>>
        /\ age[f] < 2 /\ sent[f] > 0 /\ age' = [age EXCEPT ![f] = @ + 1]
    BY <1>3 DEF GrowsOld
  <2>2. ExportTypeOK'
    BY <1>0, <2>1 DEF ExportOK, ExportTypeOK
  <2>3. ASSUME NEW e \in Facts
        PROVE  FactOK(e)' /\ lapses'[e] >= lapses[e] /\ (Unclaimed(e)' => Unclaimed(e))
    BY <1>0, <2>1 DEF FactOK, Kept, Unclaimed
  <2> QED BY <2>1, <2>2, <2>3, QuietExport
<1>4. CASE purgeByAge
  <2>1. UNCHANGED <<sent, age, table, exported, leased, round, hand, refused, unnamed, copies, fresh, lapses>>
        /\ noted' \subseteq noted
    BY <1>4 DEF purgeByAge
  <2>2. ExportTypeOK'
    BY <2>1 DEF ExportOK, ExportTypeOK
  <2>3. \A e \in Facts : FactOK(e)' /\ (Unclaimed(e)' => Unclaimed(e)) /\ lapses'[e] >= lapses[e]
    BY <1>0, <2>1 DEF FactOK, Kept, Unclaimed
  <2> QED BY <2>1, <2>2, <2>3, QuietExport
<1> QED BY <1>1, <1>2, <1>3, <1>4

(* Rows that are old and exported are deleted.                             *)
LEMMA SweepKeepsExport ==
  ASSUME ExportOK, purgeExportedAnalytics
  PROVE  ExportOK'
<1>0. /\ sent \in [Facts -> Nat] /\ age \in [Facts -> 0..2] /\ lapses \in [Facts -> Nat]
      /\ table \in [Facts -> Nat] /\ \A e \in Facts : FactOK(e)
  BY DEF ExportOK, ExportTypeOK
<1>1. PICK due : /\ due = {e \in exported : age[e] = 2}
                 /\ table' = [e \in Facts |-> IF e \in due THEN 0 ELSE table[e]]
                 /\ exported' = exported \ due /\ leased' = leased \ due
                 /\ UNCHANGED <<sent, age, noted, round, hand, refused, unnamed, copies, fresh, lapses>>
  BY DEF purgeExportedAnalytics
<1>2. ExportTypeOK'
  BY <1>0, <1>1 DEF ExportOK, ExportTypeOK
<1>3. \A e \in Facts : FactOK(e)' /\ (Unclaimed(e)' => Unclaimed(e)) /\ lapses'[e] >= lapses[e]
  BY <1>0, <1>1 DEF FactOK, Kept, Unclaimed
<1> QED BY <1>1, <1>2, <1>3, QuietExport

(* Rows are claimed: each was to be stored once more, and now will be.     *)
LEMMA ClaimKeepsExport ==
  ASSUME ExportOK, NEW x \in Exporters, claimBatch(x)
  PROVE  ExportOK'
<1>0. /\ round \in [Exporters -> {"idle", "inserting", "answered"}]
      /\ hand \in [Exporters -> SUBSET Facts]
      /\ copies \in [Facts -> Nat] /\ lapses \in [Facts -> Nat] /\ \A e \in Facts : FactOK(e)
  BY DEF ExportOK, ExportTypeOK
<1>1. PICK batch : /\ batch = Oldest(Rows \ (exported \union leased))
                   /\ round[x] = "idle"
                   /\ round' = [round EXCEPT ![x] = "inserting"]
                   /\ hand' = [hand EXCEPT ![x] = batch]
                   /\ leased' = leased \union batch
                   /\ UNCHANGED <<sent, age, noted, table, exported, refused, unnamed, copies, fresh, lapses>>
  BY DEF claimBatch
<1>2. batch \subseteq Facts /\ \A e \in batch : e \notin exported \union leased /\ table[e] # 0
  BY <1>1 DEF Oldest, Rows
<1>3. ExportTypeOK'
  BY <1>0, <1>1, <1>2 DEF ExportOK, ExportTypeOK
<1>4. \A e \in Facts : FactOK(e)'
  BY <1>0, <1>1 DEF FactOK, Kept
<1>5. \A y \in Exporters : AnswerOK(y)'
  BY <1>0, <1>1 DEF ExportOK, AnswerOK, Kept
<1>6. ASSUME NEW e \in Facts PROVE StoresWithin(e)'
  <2>1. CASE e \notin batch
    <3>1. Inserting(e)' = Inserting(e)
      BY <1>0, <1>1, <2>1 DEF Inserting
    <3>2. (Unclaimed(e)' => Unclaimed(e)) /\ copies'[e] = copies[e] /\ lapses'[e] >= lapses[e]
      BY <1>0, <1>1 DEF Unclaimed
    <3> QED BY <1>3, <3>1, <3>2, NothingMoreToStore
  <2>2. CASE e \in batch
    <3>1. Unclaimed(e) /\ ~Unclaimed(e)'
      BY <1>1, <1>2, <2>2 DEF Unclaimed
    <3>2. Inserting(e)' \subseteq Inserting(e) \cup {x}
      BY <1>0, <1>1 DEF Inserting
    <3>3. Cardinality(Inserting(e)') <= Cardinality(Inserting(e)) + 1
          /\ Cardinality(Inserting(e)') \in Nat /\ Cardinality(Inserting(e)) \in Nat
      <4>1. IsFiniteSet(Inserting(e)) /\ Cardinality(Inserting(e)) \in Nat
        BY InsertingIsFinite
      <4>2. /\ IsFiniteSet(Inserting(e) \cup {x})
            /\ Cardinality(Inserting(e) \cup {x}) = IF x \in Inserting(e) THEN Cardinality(Inserting(e))
                                                   ELSE Cardinality(Inserting(e)) + 1
        BY <4>1, FS_AddElement
      <4>3. Cardinality(Inserting(e)') <= Cardinality(Inserting(e) \cup {x}) /\ IsFiniteSet(Inserting(e)')
        BY <3>2, <4>2, FS_Subset
      <4> QED BY <4>1, <4>2, <4>3, FS_CardinalityType
    <3>4. ToStore(e)' <= ToStore(e) /\ ToStore(e)' \in Nat /\ ToStore(e) \in Nat
      BY <3>1, <3>3 DEF ToStore
    <3>5. /\ copies'[e] = copies[e] /\ lapses'[e] = lapses[e] /\ copies[e] \in Nat /\ lapses[e] \in Nat
          /\ copies[e] + ToStore(e) <= 1 + lapses[e]
      BY <1>0, <1>1 DEF ExportOK, StoresWithin
    <3>6. copies'[e] + ToStore(e)' <= 1 + lapses'[e]
      BY <3>4, <3>5
    <3> QED BY <3>6 DEF StoresWithin
  <2> QED BY <2>1, <2>2
<1> QED BY <1>3, <1>4, <1>5, <1>6 DEF ExportOK

(* Rows are stored: whoever inserted them inserts them no more.            *)
LEMMA StoringKeepsExport ==
  ASSUME ExportOK, NEW x \in Exporters, NEW taken \in SUBSET hand[x], round[x] = "inserting",
         Stores(taken), round' \in [Exporters -> {"idle", "inserting", "answered"}],
         hand' \in [Exporters -> SUBSET Facts], refused' \in [Exporters -> SUBSET Facts],
         round'[x] # "inserting", unnamed \subseteq unnamed',
         round'[x] = "answered" => hand'[x] \ refused'[x] \subseteq taken \union unnamed',
         \A y \in Exporters :
           y # x => round'[y] = round[y] /\ hand'[y] = hand[y] /\ refused'[y] = refused[y],
         UNCHANGED <<sent, age, noted, table, exported, leased, lapses>>
  PROVE  ExportOK'
<1>0. /\ round \in [Exporters -> {"idle", "inserting", "answered"}]
      /\ hand \in [Exporters -> SUBSET Facts] /\ fresh \subseteq Facts
      /\ copies \in [Facts -> Nat] /\ lapses \in [Facts -> Nat] /\ \A e \in Facts : FactOK(e)
  BY DEF ExportOK, ExportTypeOK
<1>1. /\ copies' = [e \in Facts |-> IF e \in taken \ fresh THEN copies[e] + 1 ELSE copies[e]]
      /\ fresh' = fresh \union taken /\ taken \subseteq Facts
  BY <1>0 DEF Stores
<1>2. /\ copies' \in [Facts -> Nat]
      /\ \A e \in Facts : /\ copies'[e] >= copies[e] /\ copies'[e] <= copies[e] + 1
                          /\ e \in taken => copies'[e] > 0
                          /\ e \notin taken => copies'[e] = copies[e]
  BY <1>0, <1>1 DEF FactOK, Kept
<1>3. ExportTypeOK'
  BY <1>1, <1>2 DEF ExportOK, ExportTypeOK
<1>4. \A e \in Facts : FactOK(e)'
  BY <1>0, <1>1, <1>2 DEF FactOK, Kept
<1>5. ASSUME NEW y \in Exporters PROVE AnswerOK(y)'
  <2>1. CASE y = x
    BY <1>1, <1>2, <2>1 DEF AnswerOK, Kept
  <2>2. CASE y # x
    <3>1. AnswerOK(y) /\ hand[y] \subseteq Facts
      BY <1>0 DEF ExportOK
    <3>2. \A e \in hand[y] : copies[e] > 0 => copies'[e] > 0
      BY <1>0, <1>2, <3>1
    <3> QED BY <2>2, <3>1, <3>2 DEF AnswerOK, Kept
  <2> QED BY <2>1, <2>2
<1>6. ASSUME NEW e \in Facts PROVE StoresWithin(e)'
  <2>0. Unclaimed(e)' <=> Unclaimed(e)
    BY DEF Unclaimed
  <2>1. CASE e \notin hand[x]
    <3>1. copies'[e] = copies[e] /\ Inserting(e)' \subseteq Inserting(e) /\ lapses'[e] >= lapses[e]
      BY <1>0, <1>2, <2>1 DEF Inserting
    <3> QED BY <1>3, <2>0, <3>1, NothingMoreToStore
  <2>2. CASE e \in hand[x]
    <3>1. Inserting(e)' = Inserting(e) \ {x} /\ x \in Inserting(e)
      BY <1>0, <2>2 DEF Inserting
    <3>2. /\ Cardinality(Inserting(e)') = Cardinality(Inserting(e)) - 1
          /\ Cardinality(Inserting(e)) \in Nat /\ Cardinality(Inserting(e)') \in Nat
      BY <3>1, InsertingIsFinite, FS_RemoveElement, FS_CardinalityType
    <3>3. ToStore(e)' + 1 <= ToStore(e) /\ ToStore(e)' \in Nat /\ ToStore(e) \in Nat
      BY <2>0, <3>2 DEF ToStore
    <3>4. /\ copies'[e] <= copies[e] + 1 /\ lapses'[e] = lapses[e]
          /\ copies[e] \in Nat /\ copies'[e] \in Nat /\ lapses[e] \in Nat
          /\ copies[e] + ToStore(e) <= 1 + lapses[e]
      BY <1>0, <1>2 DEF ExportOK, StoresWithin
    <3>5. copies'[e] + ToStore(e)' <= 1 + lapses'[e]
      BY <3>3, <3>4
    <3> QED BY <3>5 DEF StoresWithin
  <2> QED BY <2>1, <2>2
<1> QED BY <1>3, <1>4, <1>5, <1>6 DEF ExportOK

(* BigQuery answers, or the round ends without an answer.                  *)
LEMMA InsertKeepsExport ==
  ASSUME ExportOK, NEW x \in Exporters, NEW taken \in SUBSET hand[x],
         (\E named \in SUBSET hand[x] : insertRows(x, taken, named)) \/ GivesUp(x, taken)
  PROVE  ExportOK'
<1>0. /\ round \in [Exporters -> {"idle", "inserting", "answered"}]
      /\ hand \in [Exporters -> SUBSET Facts] /\ refused \in [Exporters -> SUBSET Facts]
  BY DEF ExportOK, ExportTypeOK
<1>1. ASSUME NEW named \in SUBSET hand[x], insertRows(x, taken, named) PROVE ExportOK'
  <2>1. /\ round[x] = "inserting" /\ Stores(taken)
        /\ round' = [round EXCEPT ![x] = "answered"] /\ hand' = hand
        /\ refused' = [refused EXCEPT ![x] = named]
        /\ unnamed' = unnamed \union ((hand[x] \ taken) \ named)
        /\ UNCHANGED <<sent, age, noted, table, exported, leased, lapses>>
    BY <1>1 DEF insertRows
  <2>2. /\ round' \in [Exporters -> {"idle", "inserting", "answered"}] /\ hand' \in [Exporters -> SUBSET Facts]
        /\ refused' \in [Exporters -> SUBSET Facts] /\ round'[x] = "answered"
        /\ hand'[x] \ refused'[x] \subseteq taken \union unnamed' /\ unnamed \subseteq unnamed'
        /\ \A y \in Exporters : y # x => round'[y] = round[y] /\ hand'[y] = hand[y] /\ refused'[y] = refused[y]
    BY <1>0, <2>1
  <2> QED BY <2>1, <2>2, StoringKeepsExport
<1>2. CASE GivesUp(x, taken)
  <2>1. /\ Stores(taken) /\ (round[x] = "inserting" \/ (round[x] = "answered" /\ taken = {}))
        /\ round' = [round EXCEPT ![x] = "idle"] /\ hand' = [hand EXCEPT ![x] = {}] /\ refused' = [refused EXCEPT ![x] = {}]
        /\ UNCHANGED <<sent, age, noted, table, exported, leased, unnamed, lapses>>
    BY <1>2 DEF GivesUp
  <2>2. /\ round' \in [Exporters -> {"idle", "inserting", "answered"}] /\ hand' \in [Exporters -> SUBSET Facts]
        /\ refused' \in [Exporters -> SUBSET Facts] /\ round'[x] = "idle" /\ hand'[x] = {}
        /\ \A y \in Exporters : y # x => round'[y] = round[y] /\ hand'[y] = hand[y] /\ refused'[y] = refused[y]
    BY <1>0, <2>1
  <2>3. CASE round[x] = "inserting"
    BY <2>1, <2>2, <2>3, StoringKeepsExport
  <2>4. CASE round[x] = "answered" /\ taken = {}
    <3>1. copies' = copies /\ fresh' = fresh
      BY <2>1, <2>4 DEF Stores, ExportOK, ExportTypeOK
    <3>2. ExportTypeOK'
      BY <2>1, <2>2, <3>1 DEF ExportOK, ExportTypeOK
    <3>3. \A e \in Facts : FactOK(e)'
      BY <2>1, <3>1 DEF ExportOK, FactOK, Kept
    <3>4. \A y \in Exporters : AnswerOK(y)'
      BY <2>1, <2>2, <3>1 DEF ExportOK, AnswerOK, Kept
    <3>5. ASSUME NEW e \in Facts PROVE StoresWithin(e)'
      <4>1. Inserting(e)' \subseteq Inserting(e) /\ (Unclaimed(e)' => Unclaimed(e))
            /\ copies'[e] = copies[e] /\ lapses'[e] >= lapses[e]
        <5>1. lapses[e] \in Nat /\ lapses'[e] = lapses[e]
          BY <2>1 DEF ExportOK, ExportTypeOK
        <5> QED BY <2>1, <2>2, <3>1, <5>1 DEF Inserting, Unclaimed
      <4> QED BY <3>2, <4>1, NothingMoreToStore
    <3> QED BY <3>2, <3>3, <3>4, <3>5 DEF ExportOK
  <2> QED BY <2>1, <2>3, <2>4
<1> QED BY <1>1, <1>2

(* Rows are marked whose copy is in the warehouse.                         *)
LEMMA MarkKeepsExport ==
  ASSUME ExportOK, NEW x \in Exporters, exportBatch(x)
  PROVE  ExportOK'
<1>0. /\ round \in [Exporters -> {"idle", "inserting", "answered"}]
      /\ hand \in [Exporters -> SUBSET Facts] /\ refused \in [Exporters -> SUBSET Facts]
      /\ lapses \in [Facts -> Nat] /\ AnswerOK(x) /\ \A e \in Facts : FactOK(e)
  BY DEF ExportOK, ExportTypeOK
<1>1. PICK marked : /\ marked = (hand[x] \ refused[x]) \intersect Rows
                    /\ round[x] = "answered"
                    /\ exported' = exported \union marked /\ leased' = leased \ marked
                    /\ round' = [round EXCEPT ![x] = "idle"]
                    /\ hand' = [hand EXCEPT ![x] = {}] /\ refused' = [refused EXCEPT ![x] = {}]
                    /\ UNCHANGED <<sent, age, noted, table, unnamed, copies, fresh, lapses>>
  BY DEF exportBatch
<1>2. marked \subseteq Facts /\ \A e \in marked : Kept(e)
  BY <1>0, <1>1 DEF AnswerOK, Kept
<1>3. ExportTypeOK'
  BY <1>0, <1>1, <1>2 DEF ExportOK, ExportTypeOK
<1>4. \A e \in Facts : FactOK(e)'
  BY <1>0, <1>1, <1>2 DEF FactOK, Kept
<1>5. \A y \in Exporters : AnswerOK(y)'
  BY <1>0, <1>1 DEF ExportOK, AnswerOK, Kept
<1>6. ASSUME NEW e \in Facts PROVE StoresWithin(e)'
  <2>1. Inserting(e)' \subseteq Inserting(e)
    BY <1>0, <1>1 DEF Inserting
  <2>2. (Unclaimed(e)' => Unclaimed(e)) /\ copies'[e] = copies[e] /\ lapses'[e] >= lapses[e]
    BY <1>0, <1>1 DEF Unclaimed
  <2> QED BY <1>3, <2>1, <2>2, NothingMoreToStore
<1> QED BY <1>3, <1>4, <1>5, <1>6 DEF ExportOK

(* Initially nothing was delivered.                                        *)
LEMMA ExportStarts == AnalyticsInit => ExportOK
<1> SUFFICES ASSUME AnalyticsInit PROVE ExportOK
  OBVIOUS
<1>1. ExportTypeOK
  BY DEF AnalyticsInit, ExportTypeOK
<1>2. \A e \in Facts : FactOK(e)
  BY DEF AnalyticsInit, FactOK, Kept
<1>3. \A x \in Exporters : AnswerOK(x)
  BY DEF AnalyticsInit, AnswerOK, Kept
<1>4. ASSUME NEW e \in Facts PROVE StoresWithin(e)
  <2>1. Inserting(e) = {}
    BY DEF AnalyticsInit, Inserting
  <2>2. ToStore(e) \in 0..1
    BY <2>1, FS_EmptySet DEF ToStore
  <2>3. copies[e] = 0 /\ lapses[e] = 0
    BY DEF AnalyticsInit
  <2> QED BY <2>2, <2>3 DEF StoresWithin
<1> QED BY <1>1, <1>2, <1>3, <1>4 DEF ExportOK

(* Every step keeps the invariant of the export.                           *)
LEMMA ExportKept == ExportOK /\ [AnalyticsNext]_analyticsVars => ExportOK'
<1> SUFFICES ASSUME ExportOK, [AnalyticsNext]_analyticsVars PROVE ExportOK'
  OBVIOUS
<1>1. ASSUME NEW e \in Facts, Receives(e) \/ Forgets(e) \/ ClaimLapses(e) \/ GrowsOld(e) PROVE ExportOK'
  BY <1>1, ReceiptKeepsExport, TimeKeepsExport
<1>2. ASSUME NEW x \in Exporters, claimBatch(x) \/ exportBatch(x) PROVE ExportOK'
  BY <1>2, ClaimKeepsExport, MarkKeepsExport
<1>3. ASSUME NEW x \in Exporters, NEW taken \in SUBSET hand[x],
             (\E named \in SUBSET hand[x] : insertRows(x, taken, named)) \/ GivesUp(x, taken)
      PROVE  ExportOK'
  BY <1>3, InsertKeepsExport
<1>4. CASE purgeByAge
  <2>1. PICK f \in Facts : TRUE
    BY <1>4 DEF purgeByAge, ExportOK, ExportTypeOK
  <2> QED BY <1>4, <2>1, TimeKeepsExport
<1>5. CASE purgeExportedAnalytics
  BY <1>5, SweepKeepsExport
<1>6. CASE UNCHANGED analyticsVars
  BY <1>6 DEF analyticsVars, ExportOK, ExportTypeOK, FactOK, Kept, StoresWithin, ToStore, Inserting, Unclaimed, AnswerOK, Kept
<1> QED BY <1>1, <1>2, <1>3, <1>4, <1>5, <1>6 DEF AnalyticsNext

(* Nothing is deleted before the warehouse has it, unless its refusal named*)
(* nobody, and the warehouse counts an event twice only where a claim ran  *)
(* out, for any number of exporters.                                       *)
THEOREM ExportIsExact == AnalyticsSpec => []AnalyticsInv
<1>1. ExportOK => AnalyticsInv
  <2> SUFFICES ASSUME ExportOK, NEW e \in Facts
               PROVE  /\ sent[e] > 0 /\ (e \notin Rows \/ e \in exported) => Kept(e)
                      /\ copies[e] <= 1 + lapses[e]
    BY DEF AnalyticsInv, NothingLost, CopiesAreExcused
  <2>1. FactOK(e) /\ copies[e] + ToStore(e) <= 1 + lapses[e] /\ copies[e] \in Nat /\ lapses[e] \in Nat
    BY DEF ExportOK, ExportTypeOK, StoresWithin
  <2>2. ToStore(e) \in Nat
    BY InsertingIsFinite DEF ToStore
  <2> QED BY <2>1, <2>2 DEF FactOK, Kept, Rows
<1> QED BY <1>1, ExportStarts, ExportKept, PTL DEF AnalyticsSpec
-----------------------------------------------------------------------------
(* THE AUDIT LOG                                                           *)
(*                                                                         *)
(* Every committed row is chained to all the rows before it, because the   *)
(* lock is taken before the id; what a verification has got through it has *)
(* got through without a gap, so later rows lie beyond it.                 *)
UpTo(t) == {j \in DOMAIN log : j <= t}

Archived(t) ==
  \A i \in UpTo(t) : \E o \in archive : i \in o.rows /\ [from |-> o.from, through |-> o.through] \in exports

LogOK ==
  /\ lastId \in 0..MaxId /\ DOMAIN log \subseteq 1..lastId /\ altered \subseteq DOMAIN log
  /\ \A i \in DOMAIN log : log[i] = UpTo(i)

(* What a writer has not committed comes after all that is.                *)
DraftOK(w) ==
  /\ DOMAIN draft[w] \subseteq 1..lastId
  /\ \A i \in DOMAIN draft[w] : /\ draft[w][i] = DOMAIN log \cup {j \in DOMAIN draft[w] : j <= i}
                                /\ \A j \in DOMAIN log : j < i
  /\ DOMAIN draft[w] # {} => chainLock = w

WritersOK ==
  /\ chainLock \in Writers \cup {NoWriter} /\ DOMAIN draft = Writers
  /\ \A w \in Writers : DraftOK(w)

Point == [through : Nat, hash : SUBSET Nat, status : {"OK", "BROKEN"}]

Result == [pc : {"put", "exported", "checkpoint"}, from : Nat \ {0}, through : Nat, hash : SUBSET Nat,
           status : {"OK", "BROKEN"}]

Check == {NoCheck} \cup [pc : {"verify"}, base : Point] \cup Result

(* How far something is known to be sound, or why it is not.               *)
Reached(through, hash, status) ==
  /\ through \in DOMAIN log \cup {0} /\ hash = UpTo(through)
  /\ status = "BROKEN" => altered # {}

PointOK(p) == Reached(p.through, p.hash, p.status) /\ (p.status = "OK" => Archived(p.through))

CheckOK(c) ==
  /\ c.pc = "verify" => PointOK(c.base) /\ c.base.status = "OK"
  /\ c.pc \in {"put", "exported", "checkpoint"} => Reached(c.through, c.hash, c.status)
  /\ c.pc \in {"put", "exported"} =>
       c.status = "OK" /\ c.from - 1 \in DOMAIN log \cup {0} /\ Archived(c.from - 1)
  /\ c.pc = "exported" => \E o \in archive : /\ o.from = c.from /\ o.through = c.through
                                             /\ \A i \in UpTo(c.through) : i >= c.from => i \in o.rows
  /\ c.pc = "checkpoint" /\ c.status = "OK" => Archived(c.through)

VerifiersOK ==
  /\ check \in [Verifiers -> Check] /\ checkpoints \in Seq(Point)
  /\ \A v \in Verifiers : CheckOK(check[v])
  /\ \A k \in 1..Len(checkpoints) : PointOK(checkpoints[k])

ChainOK == LogOK /\ WritersOK /\ VerifiersOK

-----------------------------------------------------------------------------
Less == {p \in Nat \X Nat : p[1] < p[2]}

(* The order of the naturals is well-founded.                              *)
LEMMA LessIsWellFounded == IsWellFoundedOn(Less, Nat)
<1>1. Less = OpToRel(<, Nat)
  BY DEF Less, OpToRel
<1> QED BY <1>1, NatLessThanWellFounded, Zenon

(* Of some ids one is the greatest: n less the least of the differences.   *)
LEMMA LatestIsLast ==
  ASSUME NEW n \in Nat, NEW ids \in SUBSET (0..n), ids # {}
  PROVE  Latest(ids) \in ids /\ \A j \in ids : j <= Latest(ids)
<1>1. PICK T : T = {n - i : i \in ids}
  OBVIOUS
<1>2. T \subseteq Nat /\ T # {}
  <2>1. \A i \in ids : i \in 0..n
    OBVIOUS
  <2>2. \A i \in 0..n : n - i \in Nat
    OBVIOUS
  <2>3. \A i \in ids : n - i \in Nat
    BY <2>1, <2>2
  <2> QED BY <1>1, <2>3
<1>3. PICK x \in T : \A y \in T : ~(<<y, x>> \in Less)
  BY <1>2, LessIsWellFounded, WFMin, Zenon
<1>4. PICK m \in ids : x = n - m
  BY <1>1, <1>3
<1>5. ASSUME NEW j \in ids PROVE j <= m
  <2>1. n - j \in T /\ n - j \in Nat /\ x \in Nat
    BY <1>1, <1>2, <1>3
  <2>2. ~(n - j < x)
    BY <1>3, <2>1 DEF Less
  <2> QED BY <1>4, <2>2
<1>6. \E i \in ids : \A j \in ids : j <= i
  BY <1>5
<1> QED BY <1>6 DEF Latest

(* A batch holds whatever comes before what it holds.                      *)
LEMMA BatchIsInitial ==
  ASSUME NEW n \in Nat, NEW ids \in SUBSET (0..n), NEW i \in Batch(ids), NEW j \in ids, j <= i
  PROVE  i \in ids /\ j \in Batch(ids)
<1>1. i \in ids /\ Cardinality({k \in ids : k < i}) < BatchSize
  BY DEF Batch
<1>2. IsFiniteSet(0..n)
  BY FS_Interval
<1>3. IsFiniteSet({k \in ids : k < i})
  BY <1>2, FS_Subset
<1>4. {k \in ids : k < j} \subseteq {k \in ids : k < i}
  <2>1. i \in 0..n /\ j \in 0..n /\ \A k \in ids : k \in 0..n
    BY <1>1
  <2>2. \A k \in 0..n : k < j => k < i
    BY <2>1
  <2> QED BY <2>1, <2>2
<1>5. /\ Cardinality({k \in ids : k < j}) <= Cardinality({k \in ids : k < i})
      /\ IsFiniteSet({k \in ids : k < j})
  BY <1>3, <1>4, FS_Subset
<1>6. Cardinality({k \in ids : k < j}) \in Nat /\ Cardinality({k \in ids : k < i}) \in Nat
  BY <1>3, <1>5, FS_CardinalityType
<1>7. Cardinality({k \in ids : k < j}) < BatchSize
  BY <1>1, <1>5, <1>6, AuditAssumption
<1> QED BY <1>1, <1>7 DEF Batch

-----------------------------------------------------------------------------
(* What is known stays known while rows are added behind, and while the    *)
(* archive and the lists grow.                                             *)
LEMMA KnownStaysKnown ==
  ASSUME LogOK, LogOK', DOMAIN log \subseteq DOMAIN log',
         \A i \in DOMAIN log' \ DOMAIN log : \A j \in DOMAIN log : j < i,
         altered \subseteq altered', archive \subseteq archive', exports \subseteq exports'
  PROVE  /\ \A t \in DOMAIN log \cup {0} : UpTo(t)' = UpTo(t)
         /\ \A p : PointOK(p) => PointOK(p)'
         /\ \A c \in Check : CheckOK(c) => CheckOK(c)'
<1>0. DOMAIN log \subseteq Nat \ {0} /\ DOMAIN log' \subseteq Nat \ {0}
  BY AuditAssumption DEF LogOK
<1>1. ASSUME NEW t \in DOMAIN log \cup {0} PROVE UpTo(t)' = UpTo(t)
  <2>1. \A i \in DOMAIN log' : i <= t => i \in DOMAIN log
    BY <1>0
  <2> QED BY <2>1 DEF UpTo
<1>2. ASSUME NEW t \in DOMAIN log \cup {0}, Archived(t) PROVE Archived(t)'
  BY <1>1, <1>2 DEF Archived
<1>3. ASSUME NEW a, NEW h, NEW s, Reached(a, h, s) PROVE Reached(a, h, s)' /\ UpTo(a)' = UpTo(a)
  BY <1>1, <1>3 DEF Reached
<1>4. ASSUME NEW p, PointOK(p) PROVE PointOK(p)'
  <2>1. Reached(p.through, p.hash, p.status)' /\ p.through \in DOMAIN log \cup {0}
    BY <1>3, <1>4 DEF PointOK, Reached
  <2> QED BY <1>2, <1>4, <2>1 DEF PointOK
<1>5. ASSUME NEW c \in Check, CheckOK(c) PROVE CheckOK(c)'
  <2>1. CASE c.pc = "verify"
    BY <1>4, <1>5, <2>1 DEF CheckOK
  <2>2. CASE c.pc \in {"put", "exported", "checkpoint"}
    <3>0. c \in Result
      BY <2>2 DEF Check, NoCheck
    <3>1. /\ Reached(c.through, c.hash, c.status)' /\ UpTo(c.through)' = UpTo(c.through)
          /\ c.through \in DOMAIN log \cup {0} /\ c.through \in Int /\ c.from \in Nat \ {0}
      BY <1>0, <1>3, <1>5, <2>2, <3>0 DEF CheckOK, Reached, Result
    <3>2. c.pc \in {"put", "exported"} => Archived(c.from - 1)'
      BY <1>2, <1>5 DEF CheckOK
    <3>3. c.pc = "checkpoint" /\ c.status = "OK" => Archived(c.through)'
      BY <1>2, <1>5, <3>1 DEF CheckOK
    <3> QED BY <1>5, <2>2, <3>1, <3>2, <3>3 DEF CheckOK
  <2>3. CASE c = NoCheck
    BY <2>3 DEF CheckOK, NoCheck
  <2> QED BY <2>1, <2>2, <2>3 DEF Check, Result
<1> QED BY <1>1, <1>4, <1>5

-----------------------------------------------------------------------------
(* The last row a writer sees is chained to all that it sees.              *)
LEMMA LastHashIsWhole ==
  ASSUME LogOK, NEW w \in Writers, DraftOK(w)
  PROVE  LastHash(w) = DOMAIN log \cup DOMAIN draft[w]
<1>1. PICK rows : rows = DOMAIN log \cup DOMAIN draft[w]
  OBVIOUS
<1>2. lastId \in Nat /\ rows \in SUBSET (0..lastId) /\ DOMAIN log \subseteq Nat /\ DOMAIN draft[w] \subseteq Nat
  BY <1>1, AuditAssumption DEF LogOK, DraftOK
<1>3. CASE rows = {}
  BY <1>1, <1>3 DEF LastHash
<1>4. CASE rows # {}
  <2>1. PICK last : last = Latest(rows)
    OBVIOUS
  <2>2. last \in rows /\ \A j \in rows : j <= last
    BY <1>2, <1>4, <2>1, LatestIsLast
  <2>3. CASE last \in DOMAIN draft[w]
    <3>1. LastHash(w) = draft[w][last]
      BY <1>1, <1>4, <2>1, <2>3 DEF LastHash
    <3>2. draft[w][last] = DOMAIN log \cup {j \in DOMAIN draft[w] : j <= last}
      BY <2>3 DEF DraftOK
    <3> QED BY <1>1, <2>2, <3>1, <3>2
  <2>4. CASE last \notin DOMAIN draft[w]
    <3>1. LastHash(w) = log[last] /\ last \in DOMAIN log
      BY <1>1, <1>4, <2>1, <2>2, <2>4 DEF LastHash
    <3>2. DOMAIN draft[w] = {}
      <4>1. \A j \in DOMAIN draft[w] : j <= last /\ last < j /\ j \in Nat /\ last \in Nat
        BY <1>1, <1>2, <2>2, <3>1 DEF DraftOK
      <4> QED BY <4>1
    <3> QED BY <1>1, <2>2, <3>1, <3>2 DEF LogOK, UpTo
  <2> QED BY <2>3, <2>4
<1> QED BY <1>3, <1>4

(* A row is appended to a transaction that holds the lock.                 *)
LEMMA RecordKeepsChain ==
  ASSUME ChainOK, NEW w \in Writers, record(w)
  PROVE  ChainOK'
<1>0. /\ lastId \in Nat /\ DOMAIN draft = Writers /\ \A u \in Writers : DraftOK(u)
      /\ DOMAIN log \subseteq 1..lastId
  BY AuditAssumption DEF ChainOK, LogOK, WritersOK
<1>1. /\ chainLock \in {NoWriter, w} /\ lastId < MaxId /\ lastId' = lastId + 1 /\ chainLock' = w
      /\ draft' = Adds(w) /\ UNCHANGED <<log, altered, checkpoints, archive, exports, check>>
  BY DEF record
<1>2. PICK d : d = [i \in DOMAIN draft[w] \cup {lastId + 1} |->
                      IF i = lastId + 1 THEN DOMAIN log \cup DOMAIN draft[w] \cup {i} ELSE draft[w][i]]
  OBVIOUS
<1>3. draft' = [draft EXCEPT ![w] = d]
  <2>1. LastHash(w) = DOMAIN log \cup DOMAIN draft[w]
    BY <1>0, LastHashIsWhole DEF ChainOK
  <2> QED BY <1>0, <1>1, <1>2, <2>1 DEF Adds
<1>4. draft'[w] = d /\ DOMAIN draft' = Writers /\ \A u \in Writers : u # w => draft'[u] = draft[u]
  BY <1>0, <1>3
<1>5. LogOK'
  BY <1>0, <1>1, AuditAssumption DEF ChainOK, LogOK, UpTo
<1>6. DraftOK(w)'
  <2>1. /\ DOMAIN draft[w] \subseteq 1..lastId
        /\ \A i \in DOMAIN draft[w] : /\ draft[w][i] = DOMAIN log \cup {j \in DOMAIN draft[w] : j <= i}
                                      /\ \A j \in DOMAIN log : j < i
    BY <1>0 DEF DraftOK
  <2>2. DOMAIN d = DOMAIN draft[w] \cup {lastId + 1} /\ DOMAIN d \subseteq 1..(lastId + 1)
    BY <1>0, <1>2, <2>1
  <2>3. ASSUME NEW i \in DOMAIN d
        PROVE  d[i] = DOMAIN log \cup {j \in DOMAIN d : j <= i} /\ \A j \in DOMAIN log : j < i
    <3>1. CASE i = lastId + 1
      BY <1>0, <1>2, <2>1, <2>2, <3>1
    <3>2. CASE i # lastId + 1
      BY <1>0, <1>2, <2>1, <2>2, <3>2
    <3> QED BY <3>1, <3>2
  <2> QED BY <1>0, <1>1, <1>4, <2>2, <2>3 DEF DraftOK
<1>7. ASSUME NEW u \in Writers, u # w PROVE DraftOK(u)'
  <2>1. DOMAIN draft[u] = {}
    BY <1>0, <1>1, <1>7, AuditAssumption DEF DraftOK
  <2> QED BY <1>4, <1>7, <2>1 DEF DraftOK
<1>8. WritersOK'
  BY <1>1, <1>4, <1>6, <1>7 DEF WritersOK
<1>9. VerifiersOK'
  <2>1. /\ \A p : PointOK(p) => PointOK(p)'
        /\ \A c \in Check : CheckOK(c) => CheckOK(c)'
    BY <1>1, <1>5, KnownStaysKnown DEF ChainOK
  <2> QED BY <1>1, <2>1 DEF ChainOK, VerifiersOK
<1> QED BY <1>5, <1>8, <1>9 DEF ChainOK

(* A transaction commits all its rows, or none.                            *)
LEMMA EndKeepsChain ==
  ASSUME ChainOK, NEW w \in Writers, Committed(w) \/ RolledBack(w)
  PROVE  ChainOK'
<1>0. /\ lastId \in Nat /\ DOMAIN draft = Writers /\ \A u \in Writers : DraftOK(u)
      /\ DOMAIN log \subseteq 1..lastId
  BY AuditAssumption DEF ChainOK, LogOK, WritersOK
<1>1. PICK rows : /\ rows = draft[w] \/ rows = NoRows
                  /\ DOMAIN draft[w] # {}
                  /\ log' = [i \in DOMAIN log \cup DOMAIN rows |-> IF i \in DOMAIN rows THEN rows[i] ELSE log[i]]
                  /\ draft' = [draft EXCEPT ![w] = NoRows] /\ chainLock' = NoWriter
                  /\ UNCHANGED <<lastId, altered, checkpoints, archive, exports, check>>
  BY DEF Committed, RolledBack, Ends
<1>2. DOMAIN NoRows = {}
  BY DEF NoRows
<1>3. /\ DOMAIN rows \subseteq 1..lastId
      /\ \A i \in DOMAIN rows : /\ rows[i] = DOMAIN log \cup {j \in DOMAIN rows : j <= i}
                                /\ \A j \in DOMAIN log : j < i
  BY <1>0, <1>1, <1>2 DEF DraftOK
<1>4. DOMAIN log' = DOMAIN log \cup DOMAIN rows /\ DOMAIN log' \subseteq 1..lastId
  BY <1>0, <1>1, <1>3
<1>5. ASSUME NEW i \in DOMAIN log' PROVE log'[i] = {j \in DOMAIN log' : j <= i}
  <2>1. CASE i \in DOMAIN rows
    <3>1. log'[i] = DOMAIN log \cup {j \in DOMAIN rows : j <= i}
      BY <1>1, <1>3, <2>1
    <3>2. \A j \in DOMAIN log : j <= i
      BY <1>0, <1>3, <2>1
    <3> QED BY <1>4, <3>1, <3>2
  <2>2. CASE i \notin DOMAIN rows
    <3>1. i \in DOMAIN log /\ log'[i] = {j \in DOMAIN log : j <= i}
      BY <1>1, <1>4, <2>2 DEF ChainOK, LogOK, UpTo
    <3>2. \A j \in DOMAIN rows : ~(j <= i)
      BY <1>0, <1>3, <3>1
    <3> QED BY <1>4, <3>1, <3>2
  <2> QED BY <2>1, <2>2
<1>6. LogOK'
  BY <1>1, <1>4, <1>5 DEF ChainOK, LogOK, UpTo
<1>7. ASSUME NEW u \in Writers PROVE DraftOK(u)'
  <2>1. DOMAIN draft'[u] = {}
    <3>1. CASE u = w
      BY <1>0, <1>1, <1>2, <3>1
    <3>2. CASE u # w
      <4>1. DOMAIN draft[u] = {}
        BY <1>0, <1>1, <3>2 DEF DraftOK
      <4> QED BY <1>0, <1>1, <3>2, <4>1
    <3> QED BY <3>1, <3>2
  <2> QED BY <2>1 DEF DraftOK
<1>8. WritersOK'
  BY <1>0, <1>1, <1>7 DEF WritersOK
<1>9. VerifiersOK'
  <2>0. \A i \in DOMAIN log' \ DOMAIN log : \A j \in DOMAIN log : j < i
    BY <1>3, <1>4
  <2>1. /\ \A p : PointOK(p) => PointOK(p)'
        /\ \A c \in Check : CheckOK(c) => CheckOK(c)'
    BY <1>1, <1>4, <1>6, <2>0, KnownStaysKnown DEF ChainOK
  <2> QED BY <1>1, <2>1 DEF ChainOK, VerifiersOK
<1> QED BY <1>6, <1>8, <1>9 DEF ChainOK

(* Somebody alters a row: what was sound may be found broken from now on.  *)
LEMMA AlteringKeepsChain ==
  ASSUME ChainOK, NEW i, Altered(i)
  PROVE  ChainOK'
<1>1. /\ i \in DOMAIN log /\ altered' = altered \cup {i}
      /\ UNCHANGED <<lastId, log, chainLock, draft, checkpoints, archive, exports, check>>
  BY DEF Altered
<1>2. LogOK' /\ WritersOK'
  BY <1>1 DEF ChainOK, LogOK, WritersOK, DraftOK, UpTo
<1>3. /\ \A p : PointOK(p) => PointOK(p)'
      /\ \A c \in Check : CheckOK(c) => CheckOK(c)'
  BY <1>1, <1>2, KnownStaysKnown DEF ChainOK
<1> QED BY <1>1, <1>2, <1>3 DEF ChainOK, VerifiersOK

-----------------------------------------------------------------------------
(* A step of one verifier: the log stays as it is.                         *)
LEMMA VerifierMoves ==
  ASSUME ChainOK, NEW v \in Verifiers, NEW c \in Check, check' = [check EXCEPT ![v] = c], CheckOK(c)',
         UNCHANGED <<lastId, log, altered, chainLock, draft>>,
         archive \subseteq archive', exports \subseteq exports',
         \/ checkpoints' = checkpoints
         \/ \E p \in Point : PointOK(p)' /\ checkpoints' = Append(checkpoints, p)
  PROVE  ChainOK'
<1>1. LogOK' /\ WritersOK'
  BY DEF ChainOK, LogOK, WritersOK, DraftOK, UpTo
<1>2. /\ \A p : PointOK(p) => PointOK(p)'
      /\ \A b \in Check : CheckOK(b) => CheckOK(b)'
  BY <1>1, KnownStaysKnown DEF ChainOK
<1>3. /\ check \in [Verifiers -> Check] /\ checkpoints \in Seq(Point)
      /\ \A u \in Verifiers : CheckOK(check[u])
      /\ \A k \in 1..Len(checkpoints) : PointOK(checkpoints[k])
  BY DEF ChainOK, VerifiersOK
<1>4. check' \in [Verifiers -> Check] /\ \A u \in Verifiers : check'[u] = IF u = v THEN c ELSE check[u]
  BY <1>3
<1>5. ASSUME NEW u \in Verifiers PROVE CheckOK(check[u])'
  <2>1. PICK b : b = check'[u]
    OBVIOUS
  <2>2. CheckOK(b)'
    BY <1>2, <1>3, <1>4, <2>1
  <2> QED BY <2>1, <2>2
<1>6. checkpoints' \in Seq(Point) /\ \A k \in 1..Len(checkpoints') : PointOK(checkpoints[k])'
  <2>1. CASE checkpoints' = checkpoints
    BY <1>2, <1>3, <2>1
  <2>2. ASSUME NEW p \in Point, PointOK(p)', checkpoints' = Append(checkpoints, p)
        PROVE  checkpoints' \in Seq(Point) /\ \A k \in 1..Len(checkpoints') : PointOK(checkpoints[k])'
    <3>1. checkpoints' \in Seq(Point) /\ Len(checkpoints') = Len(checkpoints) + 1
      BY <1>3, <2>2
    <3>2. ASSUME NEW k \in 1..Len(checkpoints') PROVE PointOK(checkpoints[k])'
      <4>1. PICK q : q = checkpoints'[k]
        OBVIOUS
      <4>2. q = p \/ (k \in 1..Len(checkpoints) /\ q = checkpoints[k])
        BY <1>3, <2>2, <3>1, <4>1
      <4>3. PointOK(q)'
        BY <1>2, <1>3, <2>2, <4>2
      <4> QED BY <4>1, <4>3
    <3> QED BY <3>1, <3>2
  <2> QED BY <2>1, <2>2
<1> QED BY <1>1, <1>4, <1>5, <1>6 DEF ChainOK, VerifiersOK

(* Nothing is known of an idle verifier.                                   *)
LEMMA IdleIsOK == NoCheck \in Check /\ CheckOK(NoCheck)'
BY DEF Check, NoCheck, CheckOK
(* What a verifier starts from is the latest checkpoint.                   *)
LEMMA BeginKeepsChain ==
  ASSUME ChainOK, NEW v \in Verifiers, verifyOnce(v)
  PROVE  ChainOK'
<1>1. PICK p : p = latestCheckpoint
  OBVIOUS
<1>2. /\ p.status = "OK" /\ check' = [check EXCEPT ![v] = [pc |-> "verify", base |-> p]]
      /\ UNCHANGED <<lastId, log, altered, chainLock, draft, checkpoints, archive, exports>>
  BY <1>1 DEF verifyOnce
<1>3. p \in Point /\ PointOK(p)
  <2>1. CASE checkpoints = <<>>
    <3>1. p = [through |-> 0, hash |-> {}, status |-> "OK"]
      BY <1>1, <2>1 DEF latestCheckpoint, Unverified
    <3>2. UpTo(0) = {}
      BY AuditAssumption DEF ChainOK, LogOK, UpTo
    <3> QED BY <3>1, <3>2 DEF Point, PointOK, Reached, Archived
  <2>2. CASE checkpoints # <<>>
    <3>1. checkpoints \in Seq(Point) /\ Len(checkpoints) \in 1..Len(checkpoints)
      BY <2>2 DEF ChainOK, VerifiersOK
    <3> QED BY <1>1, <2>2, <3>1 DEF latestCheckpoint, ChainOK, VerifiersOK
  <2> QED BY <2>1, <2>2
<1>4. PICK c : c = [pc |-> "verify", base |-> p]
  OBVIOUS
<1>5. c \in Check /\ CheckOK(c)
  BY <1>2, <1>3, <1>4 DEF Check, CheckOK
<1>6. CheckOK(c)'
  <2>1. LogOK'
    BY <1>2 DEF ChainOK, LogOK, UpTo
  <2> QED BY <1>2, <1>5, <2>1, KnownStaysKnown DEF ChainOK
<1> QED BY <1>2, <1>4, <1>5, <1>6, VerifierMoves

(* The rows that a verification looks at from a checkpoint on, and those of*)
(* them up to the first that is not sound.                                 *)
Following(p) == Batch({i \in DOMAIN log : i > p.through})
SoundRows(p) ==
  {i \in Following(p) : \A j \in Following(p) :
     j <= i => j \notin altered /\ log[j] = p.hash \cup {k \in Following(p) : k <= j}}

(* The rows of a batch are what comes after the checkpoint, without a gap; *)
(* those that are sound reach as far as the hash says, and if some are not,*)
(* then somebody has altered a row.                                        *)
LEMMA BatchReaches ==
  ASSUME LogOK, NEW p, Reached(p.through, p.hash, "OK")
  PROVE  /\ Reached(Latest(SoundRows(p) \cup {p.through}), p.hash \cup SoundRows(p), "OK")
         /\ SoundRows(p) # Following(p) => altered # {}
<1>a. PICK rows : rows = Following(p)
  OBVIOUS
<1>b. rows = Batch({i \in DOMAIN log : i > p.through})
  BY <1>a DEF Following
<1>c. PICK sound : sound = SoundRows(p)
  OBVIOUS
<1>d. sound = {i \in rows : \A j \in rows :
                 j <= i => j \notin altered /\ log[j] = p.hash \cup {k \in rows : k <= j}}
  BY <1>a, <1>c DEF SoundRows
<1>0. /\ lastId \in Nat /\ DOMAIN log \subseteq 1..lastId /\ DOMAIN log \subseteq 0..lastId
      /\ p.through \in 0..lastId /\ p.through \in DOMAIN log \cup {0}
      /\ p.hash = UpTo(p.through) /\ \A i \in DOMAIN log : log[i] = UpTo(i)
  BY AuditAssumption DEF LogOK, Reached
<1>1. PICK ids : ids = {i \in DOMAIN log : i > p.through}
  OBVIOUS
<1>2. ids \in SUBSET (0..lastId) /\ rows = Batch(ids) /\ rows \subseteq ids
  BY <1>0, <1>1, <1>b DEF Batch
<1>3. \A i \in rows, j \in ids : j <= i => j \in rows
  BY <1>0, <1>2, BatchIsInitial
<1>4. ASSUME NEW j \in rows PROVE log[j] = p.hash \cup {k \in rows : k <= j}
  <2>1. j \in DOMAIN log /\ j \in 0..lastId /\ j > p.through
    BY <1>0, <1>1, <1>2
  <2>2. ASSUME NEW k \in DOMAIN log, k <= j PROVE k \in UpTo(p.through) \/ k \in rows
    <3>1. k \in 0..lastId
      BY <1>0
    <3>2. CASE k <= p.through
      BY <3>2 DEF UpTo
    <3>3. CASE k > p.through
      BY <1>1, <1>3, <2>2, <3>3
    <3> QED BY <1>0, <3>1, <3>2, <3>3
  <2>3. \A k \in UpTo(p.through) : k \in DOMAIN log /\ k <= j
    BY <1>0, <2>1 DEF UpTo
  <2>4. log[j] = UpTo(j) /\ rows \subseteq DOMAIN log
    BY <1>0, <1>1, <1>2, <2>1
  <2> QED BY <1>0, <2>2, <2>3, <2>4 DEF UpTo
<1>5. sound # rows => altered # {}
  <2> SUFFICES ASSUME altered = {} PROVE sound = rows
    OBVIOUS
  <2> QED BY <1>4, <1>d
<1>e. sound \subseteq rows
  BY <1>d
<1>6. PICK t : t = Latest(sound \cup {p.through})
  OBVIOUS
<1>7. t \in sound \cup {p.through} /\ \A j \in sound \cup {p.through} : j <= t
  <2>1. sound \cup {p.through} \in SUBSET (0..lastId)
    BY <1>0, <1>2, <1>e
  <2> QED BY <1>0, <1>6, <2>1, LatestIsLast
<1>8. t \in DOMAIN log \cup {0} /\ t \in 0..lastId
  BY <1>0, <1>1, <1>2, <1>7, <1>e
<1>9. ASSUME NEW k \in UpTo(t) PROVE k \in p.hash \cup sound
  <2>0. k \in DOMAIN log /\ k <= t /\ k \in 0..lastId
    BY <1>0 DEF UpTo
  <2>1. CASE k <= p.through
    BY <1>0, <2>0, <2>1 DEF UpTo
  <2>2. CASE k > p.through
    <3>1. t # p.through
      BY <1>0, <1>8, <2>0, <2>2
    <3>2. t \in sound /\ t \in rows
      BY <1>7, <1>e, <3>1
    <3>3. k \in rows
      BY <1>1, <1>3, <2>0, <2>2, <3>2
    <3>4. \A j \in rows : j <= k => j <= t
      <4>1. \A j \in rows : j \in 0..lastId
        BY <1>2
      <4> QED BY <1>8, <2>0, <4>1
    <3> QED BY <1>d, <3>2, <3>3, <3>4
  <2> QED BY <1>0, <2>0, <2>1, <2>2
<1>10. p.hash \cup sound \subseteq UpTo(t)
  <2>1. \A k \in UpTo(p.through) : k \in DOMAIN log /\ k <= t
    <3>1. p.through <= t /\ \A k \in DOMAIN log : k \in 0..lastId
      BY <1>0, <1>7
    <3> QED BY <1>0, <1>8, <3>1 DEF UpTo
  <2>2. sound \subseteq DOMAIN log
    BY <1>1, <1>2, <1>e
  <2> QED BY <1>0, <1>7, <2>1, <2>2 DEF UpTo
<1>11. p.hash \cup sound = UpTo(t)
  BY <1>9, <1>10
<1> QED BY <1>5, <1>6, <1>8, <1>11, <1>a, <1>c DEF Reached

(* A batch is verified: it is sound up to somewhere.                       *)
LEMMA RangeKeepsChain ==
  ASSUME ChainOK, NEW v \in Verifiers, audit_chain_verify_range(v)
  PROVE  ChainOK'
<1>1. PICK b : b = check[v]
  OBVIOUS
<1>2. b \in Check /\ CheckOK(b) /\ b.pc = "verify"
  BY <1>1 DEF ChainOK, VerifiersOK, audit_chain_verify_range
<1>3. PICK p : p = b.base
  OBVIOUS
<1>4. p \in Point /\ PointOK(p) /\ p.status = "OK"
  BY <1>2, <1>3 DEF Check, NoCheck, Result, CheckOK
<1>5. PICK rows : rows = Following(p)
  OBVIOUS
<1>6. PICK sound : sound = SoundRows(p)
  OBVIOUS
<1>7. /\ Reached(Latest(sound \cup {p.through}), p.hash \cup sound, "OK")
      /\ sound # rows => altered # {}
  <2>1. LogOK /\ Reached(p.through, p.hash, "OK")
    BY <1>4 DEF ChainOK, PointOK
  <2> QED BY <1>5, <1>6, <2>1, BatchReaches, Zenon
<1>8. PICK c : c = IF rows = {} THEN NoCheck
                  ELSE [pc |-> IF sound = rows THEN "put" ELSE "checkpoint", from |-> p.through + 1,
                        through |-> Latest(sound \cup {p.through}), hash |-> p.hash \cup sound,
                        status |-> IF sound = rows THEN "OK" ELSE "BROKEN"]
  OBVIOUS
<1>9. /\ check' = [check EXCEPT ![v] = c]
      /\ UNCHANGED <<lastId, log, altered, chainLock, draft, checkpoints, archive, exports>>
  BY <1>1, <1>3, <1>5, <1>6, <1>8 DEF audit_chain_verify_range, Following, SoundRows
<1>10. c \in Check /\ CheckOK(c)
  <2>1. CASE rows = {}
    BY <1>8, <2>1 DEF Check, CheckOK, NoCheck
  <2>2. CASE rows # {}
    <3>1. PICK t, h : t = Latest(sound \cup {p.through}) /\ h = p.hash \cup sound
      OBVIOUS
    <3>2. /\ c.from = p.through + 1 /\ c.through = t /\ c.hash = h
          /\ c.pc = IF sound = rows THEN "put" ELSE "checkpoint"
          /\ c.status = IF sound = rows THEN "OK" ELSE "BROKEN"
      BY <1>8, <2>2, <3>1
    <3>3. DOMAIN log \subseteq Nat
      BY AuditAssumption DEF ChainOK, LogOK
    <3>4. /\ p.through \in Nat /\ p.through + 1 \in Nat \ {0} /\ p.through + 1 - 1 = p.through
          /\ t \in Nat /\ h \in SUBSET Nat
      BY <1>4, <1>7, <3>1, <3>3 DEF Point, Reached, UpTo
    <3>5. c \in Result
      BY <1>8, <2>2, <3>1, <3>4 DEF Result
    <3>6. Reached(c.through, c.hash, c.status)
      BY <1>7, <3>1, <3>2 DEF Reached
    <3>7. c.from - 1 = p.through /\ Archived(p.through) /\ p.through \in DOMAIN log \cup {0}
      BY <1>4, <3>2, <3>4 DEF PointOK, Reached
    <3> QED BY <3>2, <3>5, <3>6, <3>7 DEF Check, CheckOK
  <2> QED BY <2>1, <2>2
<1>11. CheckOK(c)'
  <2>1. LogOK'
    BY <1>9 DEF ChainOK, LogOK, UpTo
  <2> QED BY <1>9, <1>10, <2>1, KnownStaysKnown DEF ChainOK
<1> QED BY <1>9, <1>10, <1>11, VerifierMoves

(* The rows go to the archive, unless an object of that name is there.     *)
LEMMA ExportKeepsChain ==
  ASSUME ChainOK, NEW v \in Verifiers, exportRange(v)
  PROVE  ChainOK'
<1>1. PICK b : b = check[v]
  OBVIOUS
<1>2. b \in Check /\ CheckOK(b) /\ b.pc = "put" /\ check \in [Verifiers -> Check]
  BY <1>1 DEF ChainOK, VerifiersOK, exportRange
<1>3. b \in Result
  BY <1>2 DEF Check, NoCheck
<1>4. PICK object : object = [from |-> b.from, through |-> b.through,
        rows |-> {i \in DOMAIN log : b.from <= i /\ i <= b.through},
        altered |-> {i \in altered : b.from <= i /\ i <= b.through}]
  OBVIOUS
<1>5. /\ IF object \in archive
         THEN check' = [check EXCEPT ![v] = NoCheck] /\ UNCHANGED archive
         ELSE archive' = archive \cup {object} /\ check' = [check EXCEPT ![v].pc = "exported"]
      /\ UNCHANGED <<lastId, log, altered, chainLock, draft, checkpoints, exports>>
  BY <1>1, <1>4 DEF exportRange
<1>6. CASE object \in archive
  BY <1>5, <1>6, IdleIsOK, VerifierMoves
<1>7. CASE object \notin archive
  <2>1. PICK c : c = [b EXCEPT !.pc = "exported"]
    OBVIOUS
  <2>2. /\ c \in Result /\ c.pc = "exported" /\ c.from = b.from /\ c.through = b.through
        /\ c.hash = b.hash /\ c.status = b.status
    BY <1>3, <2>1 DEF Result
  <2>3. check' = [check EXCEPT ![v] = c] /\ archive' = archive \cup {object}
    BY <1>1, <1>2, <1>5, <1>7, <2>1
  <2>4. LogOK'
    BY <1>5 DEF ChainOK, LogOK, UpTo
  <2>5. CheckOK(b)'
    BY <1>2, <1>5, <2>3, <2>4, KnownStaysKnown DEF ChainOK
  <2>6. /\ object \in archive' /\ object.from = c.from /\ object.through = c.through
        /\ \A i \in UpTo(c.through)' : i >= c.from => i \in object.rows
    <3>1. object.rows = {i \in DOMAIN log : c.from <= i /\ i <= c.through}
          /\ object.from = c.from /\ object.through = c.through
      BY <1>4, <2>2
    <3>2. DOMAIN log' = DOMAIN log /\ DOMAIN log \subseteq Nat /\ c.from \in Nat
      BY <1>5, <2>2, AuditAssumption DEF ChainOK, LogOK, Result
    <3> QED BY <2>3, <3>1, <3>2 DEF UpTo
  <2>7. CheckOK(c)'
    BY <1>2, <2>2, <2>5, <2>6 DEF CheckOK
  <2> QED BY <1>5, <2>2, <2>3, <2>7, VerifierMoves DEF Check
<1> QED BY <1>6, <1>7

(* The range is written down: everything up to its end is in the archive.  *)
LEMMA ListingKeepsChain ==
  ASSUME ChainOK, NEW v \in Verifiers, Exported(v)
  PROVE  ChainOK'
<1>1. PICK b : b = check[v]
  OBVIOUS
<1>2. b \in Check /\ CheckOK(b) /\ b.pc = "exported" /\ check \in [Verifiers -> Check]
  BY <1>1 DEF ChainOK, VerifiersOK, Exported
<1>3. b \in Result
  BY <1>2 DEF Check, NoCheck
<1>4. /\ exports' = exports \cup {[from |-> b.from, through |-> b.through]}
      /\ check' = [check EXCEPT ![v].pc = "checkpoint"]
      /\ UNCHANGED <<lastId, log, altered, chainLock, draft, checkpoints, archive>>
  BY <1>1 DEF Exported
<1>5. PICK c : c = [b EXCEPT !.pc = "checkpoint"]
  OBVIOUS
<1>6. /\ c \in Result /\ c.pc = "checkpoint" /\ c.from = b.from /\ c.through = b.through
      /\ c.hash = b.hash /\ c.status = b.status /\ check' = [check EXCEPT ![v] = c]
      /\ b.from \in Nat \ {0} /\ b.through \in Nat
  BY <1>1, <1>2, <1>3, <1>4, <1>5 DEF Result
<1>7. LogOK'
  BY <1>4 DEF ChainOK, LogOK, UpTo
<1>8. CheckOK(b)'
  BY <1>2, <1>4, <1>7, KnownStaysKnown DEF ChainOK
<1>9. Archived(c.through)'
  <2>1. PICK o \in archive' : /\ o.from = b.from /\ o.through = b.through
                              /\ \A i \in UpTo(b.through)' : i >= b.from => i \in o.rows
    BY <1>2, <1>8 DEF CheckOK
  <2>2. [from |-> o.from, through |-> o.through] \in exports'
    BY <1>4, <2>1
  <2>3. Archived(b.from - 1)'
    BY <1>2, <1>8 DEF CheckOK
  <2> SUFFICES ASSUME NEW i \in UpTo(c.through)'
               PROVE  \E a \in archive' : i \in a.rows /\ [from |-> a.from, through |-> a.through] \in exports'
    BY DEF Archived
  <2>4. i \in DOMAIN log' /\ i \in Nat
    BY <1>7, AuditAssumption DEF LogOK, UpTo
  <2>5. CASE i >= b.from
    BY <1>6, <2>1, <2>2, <2>5
  <2>6. CASE i < b.from
    <3>1. i <= b.from - 1
      BY <1>6, <2>4, <2>6
    <3> QED BY <2>3, <2>4, <3>1 DEF Archived, UpTo
  <2> QED BY <1>6, <2>4, <2>5, <2>6
<1>10. CheckOK(c)'
  BY <1>2, <1>6, <1>8, <1>9 DEF CheckOK
<1> QED BY <1>4, <1>6, <1>10, VerifierMoves DEF Check

(* A checkpoint says what the verification has found.                      *)
LEMMA CheckpointKeepsChain ==
  ASSUME ChainOK, NEW v \in Verifiers, Checkpointed(v)
  PROVE  ChainOK'
<1>1. PICK b : b = check[v]
  OBVIOUS
<1>2. b \in Check /\ CheckOK(b) /\ b.pc = "checkpoint"
  BY <1>1 DEF ChainOK, VerifiersOK, Checkpointed
<1>3. b \in Result
  BY <1>2 DEF Check, NoCheck
<1>4. PICK p : p = [through |-> b.through, hash |-> b.hash, status |-> b.status]
  OBVIOUS
<1>5. /\ checkpoints' = Append(checkpoints, p) /\ check' = [check EXCEPT ![v] = NoCheck]
      /\ UNCHANGED <<lastId, log, altered, chainLock, draft, archive, exports>>
  BY <1>1, <1>4 DEF Checkpointed
<1>6. p \in Point /\ PointOK(p)
  BY <1>2, <1>3, <1>4 DEF Point, Result, PointOK, CheckOK
<1>7. PointOK(p)'
  <2>1. LogOK'
    BY <1>5 DEF ChainOK, LogOK, UpTo
  <2> QED BY <1>5, <1>6, <2>1, KnownStaysKnown DEF ChainOK
<1> QED BY <1>5, <1>6, <1>7, IdleIsOK, VerifierMoves

-----------------------------------------------------------------------------
(* Initially the log is empty.                                             *)
LEMMA ChainStarts == AuditInit => ChainOK
<1> SUFFICES ASSUME AuditInit PROVE ChainOK
  OBVIOUS
<1>1. DOMAIN log = {} /\ LogOK
  BY AuditAssumption DEF AuditInit, NoRows, LogOK
<1>2. WritersOK
  BY DEF AuditInit, NoRows, WritersOK, DraftOK
<1>3. VerifiersOK
  <2>1. \A v \in Verifiers : check[v] = NoCheck
    BY DEF AuditInit
  <2>2. \A v \in Verifiers : CheckOK(check[v])
    BY <2>1 DEF CheckOK, NoCheck
  <2>3. check \in [Verifiers -> Check] /\ checkpoints \in Seq(Point) /\ Len(checkpoints) = 0
    BY DEF AuditInit, Check
  <2> QED BY <2>2, <2>3 DEF VerifiersOK
<1> QED BY <1>1, <1>2, <1>3 DEF ChainOK

(* Every step keeps the invariant of the log.                              *)
LEMMA ChainKept == ChainOK /\ [AuditNext]_auditVars => ChainOK'
<1> SUFFICES ASSUME ChainOK, [AuditNext]_auditVars PROVE ChainOK'
  OBVIOUS
<1>1. ASSUME NEW w \in Writers, record(w) \/ Committed(w) \/ RolledBack(w) PROVE ChainOK'
  BY <1>1, RecordKeepsChain, EndKeepsChain
<1>2. ASSUME NEW i \in 1..MaxId, Altered(i) PROVE ChainOK'
  BY <1>2, AlteringKeepsChain
<1>3. ASSUME NEW v \in Verifiers, Verifies(v) PROVE ChainOK'
  BY <1>3, BeginKeepsChain, RangeKeepsChain, ExportKeepsChain, ListingKeepsChain, CheckpointKeepsChain DEF Verifies
<1>4. ASSUME NEW v \in Verifiers, VerificationDies(v) PROVE ChainOK'
  BY <1>4, IdleIsOK, VerifierMoves DEF VerificationDies
<1>5. CASE UNCHANGED auditVars
  <2>1. LogOK' /\ WritersOK'
    BY <1>5 DEF auditVars, ChainOK, LogOK, WritersOK, DraftOK, UpTo
  <2>2. /\ \A p : PointOK(p) => PointOK(p)'
        /\ \A c \in Check : CheckOK(c) => CheckOK(c)'
    BY <1>5, <2>1, KnownStaysKnown DEF ChainOK, auditVars
  <2> QED BY <1>5, <2>1, <2>2 DEF auditVars, ChainOK, VerifiersOK
<1> QED BY <1>1, <1>2, <1>3, <1>4, <1>5 DEF AuditNext

(* Nobody is accused of altering a log that nobody altered, and what a     *)
(* sound checkpoint vouches for is in the archive, for any number of       *)
(* writers, verifiers and rows.                                            *)
THEOREM CheckpointsAreTrue == AuditSpec => []AuditInv
<1>1. ChainOK => AuditInv
  <2> SUFFICES ASSUME ChainOK PROVE AuditInv
    OBVIOUS
  <2>1. /\ check \in [Verifiers -> Check] /\ DOMAIN checkpoints = 1..Len(checkpoints)
        /\ \A k \in 1..Len(checkpoints) : PointOK(checkpoints[k])
    BY DEF ChainOK, VerifiersOK
  <2>2. ASSUME NEW v \in Verifiers PROVE check[v].pc \in {"idle", "verify", "put", "exported", "checkpoint"}
    <3>1. \A c \in Check : c.pc \in {"idle", "verify", "put", "exported", "checkpoint"}
      BY DEF Check, NoCheck, Result
    <3> QED BY <2>1, <3>1
  <2>3. AuditTypeOK
    BY <2>2 DEF AuditTypeOK, ChainOK, LogOK, WritersOK
  <2>4. NoFalseAlarm
    BY <2>1 DEF NoFalseAlarm, PointOK, Reached
  <2>5. NothingSlipsBehind
    BY <2>1 DEF NothingSlipsBehind, PointOK, Archived, UpTo
  <2> QED BY <2>3, <2>4, <2>5 DEF AuditInv
<1> QED BY <1>1, ChainStarts, ChainKept, PTL DEF AuditSpec
=============================================================================
