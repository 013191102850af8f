------------------------ MODULE NotificationDelivery ------------------------
(***************************************************************************)
(* Jobs that send a message to a user: a push to each of the devices, or a *)
(* text to the phone.  Workers of several processes claim what is due by   *)
(* putting the next attempt off, which is their lease, and write the       *)
(* outcome only if that time still stands.                                 *)
(***************************************************************************)
EXTENDS Naturals, FiniteSets

CONSTANTS
  Jobs,
  Recipient,    \* job |-> user
  Users, Devices,
  Processes,    \* that run the worker
  MaxAttempts,  \* NOTIFICATION_MAX_ATTEMPTS
  MaxDevices,   \* MAX_DEVICES_PER_USER
  MaxMishaps,   \* bound: crashes, overrun leases and lost answers
  MaxRetries,   \* bound: retries an operator asks for
  NoOwner, NoWork

Addresses == Devices \cup Users

(* What a process knows of a job that it has claimed.                      *)
Work == [pc : {"send", "clean", "settle"}, stamp : Nat, attempts : Nat, to : SUBSET Addresses,
         gone : SUBSET Devices, result : {"SENT", "RETRY", "FAILED"}]

ASSUME NotificationAssumption ==
  /\ MaxAttempts \in Nat \ {0} /\ MaxDevices \in Nat \ {0}
  /\ MaxMishaps \in Nat /\ MaxRetries \in Nat
  /\ IsFiniteSet(Processes) /\ IsFiniteSet(Devices) /\ IsFiniteSet(Users)
  /\ Recipient \in [Jobs -> Users]
  /\ NoOwner \notin Users /\ NoWork \notin Work

VARIABLES
  channel,   \* job |-> PUSH, or TEXT for SMS and EMAIL
  job,       \* job |-> [status, attempts, stamp: which next_attempt_at, due]
  holder,    \* device |-> user_id
  suspended, \* users who are not to be sent texts
  movedOn,   \* jobs whose booking has another status than they tell of
  work,      \* process |-> job |-> what it has claimed
  received,  \* <<job, device or phone>> |-> messages that arrived
  mishaps, retries
notificationVars == <<channel, job, holder, suspended, movedOn, work, received, mishaps, retries>>

NotificationInit ==
  /\ channel \in [Jobs -> {"PUSH", "TEXT"}]
  /\ job = [j \in Jobs |-> [status |-> "none", attempts |-> 0, stamp |-> 0, due |-> FALSE]]
  /\ holder \in [Devices -> Users \cup {NoOwner}]
  /\ suspended = {} /\ movedOn = {}
  /\ work = [p \in Processes |-> [j \in Jobs |-> NoWork]]
  /\ received = [x \in Jobs \X Addresses |-> 0]
  /\ mishaps = 0 /\ retries = 0
-----------------------------------------------------------------------------
(* mutation: a job that exists is queued again                             *)
QueuedAgain(j) ==
  /\ job' = [job EXCEPT ![j].status = "PENDING", ![j].due = TRUE]
  /\ UNCHANGED <<channel, holder, suspended, movedOn, work, received, mishaps, retries>>

(* ON CONFLICT DO NOTHING: an event that comes again leaves the job alone. *)
handle(j) ==
  /\ job' = IF job[j].status = "none"
            THEN [job EXCEPT ![j].status = "PENDING", ![j].due = TRUE]
            ELSE job
  /\ UNCHANGED <<channel, holder, suspended, movedOn, work, received, mishaps, retries>>

(* Whom a job is for, as the tables stand when it is claimed.              *)
AddressesOf(j) ==
  IF channel[j] = "PUSH" THEN {d \in Devices : holder[d] = Recipient[j]}
                    ELSE {Recipient[j]} \ suspended

Claimable == {j \in Jobs : job[j].status = "PENDING" /\ job[j].due}

(* A process has one turn at a time.                                       *)
tick(p) ==
  /\ \A j \in Jobs : work[p][j] = NoWork
  /\ Claimable # {}
  /\ job' = [j \in Jobs |-> IF j \in Claimable
                            THEN [job[j] EXCEPT !.stamp = @ + 1, !.due = FALSE] ELSE job[j]]
  /\ work' = [work EXCEPT ![p] = [j \in Jobs |->
       IF j \notin Claimable THEN NoWork
       ELSE [pc |-> IF j \in movedOn \/ AddressesOf(j) = {} THEN "settle" ELSE "send",
             stamp |-> job[j].stamp + 1, attempts |-> job[j].attempts,
             to |-> AddressesOf(j), gone |-> {}, result |-> "FAILED"]]]
  /\ UNCHANGED <<channel, holder, suspended, movedOn, received, mishaps, retries>>

settleOutcome(outcomes, attempts) ==
  IF "SENT" \in outcomes THEN "SENT"
  ELSE IF "TRANSIENT" \in outcomes /\ attempts + 1 < MaxAttempts THEN "RETRY"
  ELSE "FAILED"

(* What a sender makes of the answers of its service.                      *)
PushOutcome == {"SENT", "INVALID_TOKEN", "TRANSIENT", "PERMANENT"}

(* Each address answers for itself.  A message that arrives may be answered*)
(* by a timeout.                                                           *)
deliver(p, j) ==
  LET w == work[p][j]
  IN /\ w # NoWork /\ w.pc = "send"
     /\ \E answers \in [w.to -> PushOutcome] :
        \E lost \in SUBSET {a \in w.to : answers[a] = "TRANSIENT"} :
          /\ Cardinality(lost) <= MaxMishaps - mishaps
          /\ mishaps' = mishaps + Cardinality(lost)
          /\ received' = [x \in DOMAIN received |->
               IF x[1] = j /\ x[2] \in w.to /\ (x[2] \in lost \/ answers[x[2]] = "SENT")
               THEN received[x] + 1 ELSE received[x]]
          /\ work' = [work EXCEPT ![p][j].pc = "clean",
               ![p][j].gone = {a \in w.to \cap Devices : answers[a] = "INVALID_TOKEN"},
               ![p][j].result = settleOutcome({answers[a] : a \in w.to}, w.attempts)]
     /\ UNCHANGED <<channel, job, holder, suspended, movedOn, retries>>

(* Devices that are not valid are deleted, unless they are somebody else's *)
(* by now.                                                                 *)
ForgetsDevices(p, j) ==
  /\ work[p][j] # NoWork /\ work[p][j].pc = "clean"
  /\ holder' = [d \in Devices |-> IF d \in work[p][j].gone /\ holder[d] = Recipient[j]
                                  THEN NoOwner ELSE holder[d]]
  /\ work' = [work EXCEPT ![p][j].pc = "settle"]
  /\ UNCHANGED <<channel, job, suspended, movedOn, received, mishaps, retries>>

Fenced(p, j) == job[j].status = "PENDING" /\ job[j].stamp = work[p][j].stamp

settle(p, j) ==
  LET kind == work[p][j].result
  IN /\ work[p][j] # NoWork /\ work[p][j].pc = "settle"
     /\ job' = IF ~Fenced(p, j) THEN job
               ELSE [job EXCEPT ![j] =
                 [status |-> IF kind = "RETRY" THEN @.status ELSE kind,
                  attempts |-> @.attempts + 1,
                  stamp |-> IF kind = "RETRY" THEN @.stamp + 1 ELSE @.stamp,
                  due |-> IF kind = "RETRY" THEN FALSE ELSE @.due]]
     /\ work' = [work EXCEPT ![p][j] = NoWork]
     /\ UNCHANGED <<channel, holder, suspended, movedOn, received, mishaps, retries>>

Held(j) == \E p \in Processes : work[p][j] # NoWork /\ work[p][j].stamp = job[j].stamp

(* mutation: what was claimed is never claimed again                       *)
NeverFallsDue(j) ==
  /\ job[j].status = "PENDING" /\ ~job[j].due /\ ~Held(j) /\ job[j].attempts > 0
  /\ job' = [job EXCEPT ![j].due = TRUE]
  /\ UNCHANGED <<channel, holder, suspended, movedOn, work, received, mishaps, retries>>

(* The time of the next attempt comes: the backoff is over, or a lease,    *)
(* perhaps one that is still in use.                                       *)
NextAttempt(j) ==
  /\ job[j].status = "PENDING" /\ ~job[j].due
  /\ IF Held(j) THEN mishaps < MaxMishaps /\ mishaps' = mishaps + 1 ELSE UNCHANGED mishaps
  /\ job' = [job EXCEPT ![j].due = TRUE]
  /\ UNCHANGED <<channel, holder, suspended, movedOn, work, received, retries>>

ProcessDies(p) ==
  /\ \E j \in Jobs : work[p][j] # NoWork
  /\ mishaps < MaxMishaps /\ mishaps' = mishaps + 1
  /\ work' = [work EXCEPT ![p] = [j \in Jobs |-> NoWork]]
  /\ UNCHANGED <<channel, job, holder, suspended, movedOn, received, retries>>

retryNotificationJob(j) ==
  /\ job[j].status = "FAILED"
  /\ retries < MaxRetries /\ retries' = retries + 1
  /\ job' = [job EXCEPT ![j] = [status |-> "PENDING", attempts |-> 0, stamp |-> @.stamp + 1, due |-> TRUE]]
  /\ UNCHANGED <<channel, holder, suspended, movedOn, work, received, mishaps>>
-----------------------------------------------------------------------------
(* A token belongs to whom it was registered by last.  Who has too many    *)
(* loses the one that was seen the longest ago.                            *)
register(u, d) ==
  LET mine == {e \in Devices : e # d /\ holder[e] = u}
      claimed == [holder EXCEPT ![d] = u]
  IN /\ IF Cardinality(mine) >= MaxDevices
        THEN \E e \in mine : holder' = [claimed EXCEPT ![e] = NoOwner]
        ELSE holder' = claimed
     /\ UNCHANGED <<channel, job, suspended, movedOn, work, received, mishaps, retries>>

unregister(d) ==
  /\ holder[d] # NoOwner
  /\ holder' = [holder EXCEPT ![d] = NoOwner]
  /\ UNCHANGED <<channel, job, suspended, movedOn, work, received, mishaps, retries>>

UserSuspended(u) ==
  /\ \E j \in Jobs : channel[j] = "TEXT" /\ Recipient[j] = u   \* bound: to others it is all one
  /\ u \notin suspended /\ suspended' = suspended \cup {u}
  /\ UNCHANGED <<channel, job, holder, movedOn, work, received, mishaps, retries>>

BookingMovesOn(j) ==
  /\ j \notin movedOn /\ movedOn' = movedOn \cup {j}
  /\ UNCHANGED <<channel, job, holder, suspended, work, received, mishaps, retries>>

Delivers(p) ==
  \/ tick(p)
  \/ \E j \in Jobs : deliver(p, j) \/ ForgetsDevices(p, j) \/ settle(p, j)

NotificationNext ==
  \/ \E p \in Processes : Delivers(p) \/ ProcessDies(p)
  \/ \E j \in Jobs : handle(j) \/ NextAttempt(j) \/ retryNotificationJob(j) \/ BookingMovesOn(j)
  \/ \E d \in Devices : unregister(d) \/ \E u \in Users : register(u, d)
  \/ \E u \in Users : UserSuspended(u)

(* The workers' timers go on, and time passes.                             *)
NotificationSpec ==
  /\ NotificationInit /\ [][NotificationNext]_notificationVars
  /\ \A p \in Processes : WF_notificationVars(Delivers(p))
  /\ \A j \in Jobs : WF_notificationVars(NextAttempt(j))
-----------------------------------------------------------------------------
NotificationTypeOK ==
  /\ \A j \in Jobs : /\ job[j].status \in {"none", "PENDING", "SENT", "FAILED"}
                     /\ job[j].attempts \in 0..MaxAttempts /\ job[j].stamp \in Nat
  /\ holder \in [Devices -> Users \cup {NoOwner}] /\ channel \in [Jobs -> {"PUSH", "TEXT"}]
  /\ mishaps \in 0..MaxMishaps /\ retries \in 0..MaxRetries

(* A turn that has lost its lease does not write over the outcome of       *)
(* another: what is sent stays sent, and what has failed waits for an      *)
(* operator.                                                               *)
OutcomeStands ==
  [][\A j \in Jobs :
       /\ job[j].status = "SENT" => job'[j] = job[j]
       /\ job[j].status = "FAILED" => job'[j] = job[j] \/ job'[j].status = "PENDING"]_notificationVars

(* A message arrives once, unless a process died, a lease ran out while its*)
(* holder was at work, an answer was lost or an operator asked for it;     *)
(* neither two workers nor an event that comes twice send it twice.        *)
DuplicatesAreExcused ==
  \A x \in DOMAIN received : received[x] <= 1 + mishaps + retries

(* A device that a message could not reach is taken from nobody but the one*)
(* the message was for, though it may have changed hands in between.       *)
CleanupSparesNewOwner ==
  [][\A p \in Processes, j \in Jobs :
       work[p][j] # NoWork /\ work'[p][j] # NoWork /\ work[p][j].pc = "clean" /\ work'[p][j].pc = "settle" =>
         \A d \in Devices : holder'[d] = holder[d] \/ holder[d] = Recipient[j]]_notificationVars

(* Every job that is queued is sent or fails for good at last, though      *)
(* processes die with it and answers get lost.                             *)
EveryJobSettles ==
  \A j \in Jobs : job[j].status = "PENDING" ~> job[j].status \in {"SENT", "FAILED"}

(* Two processes that may have one job at once settle it once, send it     *)
(* once, and clean up after it only what was its own.                      *)
DeliveriesAreFenced ==
  [](NotificationTypeOK /\ DuplicatesAreExcused) /\ OutcomeStands /\ CleanupSparesNewOwner
=============================================================================
