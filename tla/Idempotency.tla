---------------------------- MODULE Idempotency ----------------------------
(***************************************************************************)
(* One idempotency key: the row of idempotency_keys, and the requests that *)
(* carry the key through the interceptor.                                  *)
(*                                                                         *)
(* begin is three statements, each in a transaction of its own: INSERT,    *)
(* SELECT and the conditional UPDATE that takes over the reservation of a  *)
(* request that died.  The handler commits its effect in transactions of   *)
(* its own, and the row is completed or deleted after that.                *)
(*                                                                         *)
(* Nobody can promise that the effect happens once whatever goes wrong, so *)
(* the history variable mishaps records what has gone wrong so far, and    *)
(* each property names the mishaps it does not survive.                    *)
(***************************************************************************)
EXTENDS Naturals, FiniteSets

CONSTANTS
  Clients,      \* those who send a request with the key, again and again
  Bodies,       \* request fingerprints
  body,         \* the fingerprint of a client's request
  Purges        \* does anybody call purgeExpired?

ASSUME BodyAssumption == body \in [Clients -> Bodies]
ASSUME NoBodyAssumption == "NONE" \notin Bodies
ASSUME PurgesAssumption == Purges \in BOOLEAN

VARIABLES
  row,      \* the row of the key, or NoRow
  request,  \* the request each client has under way
  effect,   \* has the command been executed: not, once, or more than once?
  mishaps   \* history: what has gone wrong

vars == <<row, request, effect, mishaps>>

Row == [fingerprint : Bodies,
        status      : {"IN_PROGRESS", "COMPLETED"},
        response    : Bodies \cup {"NONE"},  \* whose response is stored
        lapsed      : BOOLEAN,   \* IN_PROGRESS_LEASE_SECONDS after created_at
        expired     : BOOLEAN]   \* past expires_at

NoRow == [status |-> "NONE"]

Idle == [pc |-> "idle", answer |-> "NONE"]
At(pc) == [pc |-> pc, answer |-> "NONE"]

Requests == [pc     : {"idle", "conflict", "reserved", "running", "executed",
                       "failed", "replayed"},
             answer : Bodies \cup {"NONE"}]

Mishaps == {"outlived",   \* a lease ran out under a request that was alive
            "vanished",   \* a row was deleted between INSERT and SELECT
            "replaced",   \* a request took over the row of another one
            "purged",     \* the row was purged
            "lost"}       \* the effect was committed and the row was not

(* The interceptor has called the handler, and is not done.                *)
Working(c) == request[c].pc \in {"running", "executed", "failed"}

Move(c, pc) == request' = [request EXCEPT ![c] = At(pc)]
Note(mishap) == mishaps' = mishaps \cup {mishap}

Init == /\ row = NoRow
        /\ request = [c \in Clients |-> Idle]
        /\ effect = "none"
        /\ mishaps = {}
-----------------------------------------------------------------------------
(* begin                                                                   *)

Insert(c) ==
  /\ request[c].pc \in {"idle", "replayed"}
  /\ IF row = NoRow
     THEN /\ row' = [fingerprint |-> body[c], status |-> "IN_PROGRESS",
                     response |-> "NONE", lapsed |-> FALSE, expired |-> FALSE]
          /\ Move(c, "running")
     ELSE /\ Move(c, "conflict")
          /\ UNCHANGED row
  /\ UNCHANGED <<effect, mishaps>>

Matches(c) == row.fingerprint = body[c]

(* A row that is gone by now lets the request run without a reservation.   *)
Select(c) ==
  /\ request[c].pc = "conflict"
  /\ IF row = NoRow
     THEN Move(c, "running") /\ Note("vanished")
     ELSE /\ UNCHANGED mishaps
          /\ IF ~Matches(c) THEN Move(c, "idle")
             ELSE IF row.status = "COMPLETED"
             THEN request' = [request EXCEPT ![c] = [pc |-> "replayed",
                                                     answer |-> row.response]]
             ELSE Move(c, "reserved")
  /\ UNCHANGED <<row, effect>>

(* mutation: the UPDATE does not look at created_at                        *)
DeadOrAlive == row # NoRow /\ row.status = "IN_PROGRESS"

(* mutation: no reservation is ever taken over                             *)
NeverDead == FALSE

Dead == row # NoRow /\ row.status = "IN_PROGRESS" /\ row.lapsed

(* CHECK (expires_at > created_at) refuses the UPDATE of a row that has    *)
(* expired; the request ends with an error, as it does when another one    *)
(* holds the row.                                                          *)
TakeOver(c) ==
  /\ request[c].pc = "reserved"
  /\ IF Dead /\ ~row.expired
     THEN /\ row' = [row EXCEPT !.lapsed = FALSE]
          /\ Move(c, "running")
          /\ IF Matches(c) THEN UNCHANGED mishaps ELSE Note("replaced")
     ELSE Move(c, "idle") /\ UNCHANGED <<row, mishaps>>
  /\ UNCHANGED effect
-----------------------------------------------------------------------------
(* handleWithKey                                                           *)

(* The handler commits.                                                    *)
Execute(c) ==
  /\ request[c].pc = "running"
  /\ effect' = IF effect = "none" THEN "once" ELSE "again"
  /\ Move(c, "executed")
  /\ UNCHANGED <<row, mishaps>>

(* The handler throws, or the row cannot be completed after it.            *)
Fail(c) ==
  /\ \/ request[c].pc = "running" /\ UNCHANGED mishaps
     \/ request[c].pc = "executed" /\ Note("lost")
  /\ Move(c, "failed")
  /\ UNCHANGED <<row, effect>>

(* An UPDATE by key alone: it meets any row, or none.                      *)
complete(c) ==
  /\ request[c].pc = "executed"
  /\ row' = IF row = NoRow THEN row
            ELSE [row EXCEPT !.status = "COMPLETED", !.response = body[c]]
  /\ Move(c, "idle")
  /\ UNCHANGED <<effect, mishaps>>

release(c) ==
  /\ request[c].pc = "failed"
  /\ row' = IF row.status = "IN_PROGRESS" THEN NoRow ELSE row
  /\ Move(c, "idle")
  /\ UNCHANGED <<effect, mishaps>>

(* The process dies, or the error of release is swallowed.                 *)
Crash(c) ==
  /\ request[c].pc \in {"conflict", "reserved", "running", "executed", "failed"}
  /\ IF request[c].pc = "executed" THEN Note("lost") ELSE UNCHANGED mishaps
  /\ Move(c, "idle")
  /\ UNCHANGED <<row, effect>>
-----------------------------------------------------------------------------
(* The clock.                                                              *)

Lapse ==
  /\ row # NoRow /\ row.status = "IN_PROGRESS" /\ ~row.lapsed
  /\ row' = [row EXCEPT !.lapsed = TRUE]
  /\ IF \E c \in Clients : Working(c) THEN Note("outlived") ELSE UNCHANGED mishaps
  /\ UNCHANGED <<request, effect>>

Expire ==
  /\ row # NoRow /\ ~row.expired
  /\ row' = [row EXCEPT !.expired = TRUE]
  /\ UNCHANGED <<request, effect, mishaps>>

purgeExpired ==
  /\ Purges
  /\ row # NoRow /\ row.expired
  /\ row' = NoRow
  /\ Note("purged")
  /\ UNCHANGED <<request, effect>>
-----------------------------------------------------------------------------
Handling(c) == \/ Insert(c) \/ Select(c) \/ TakeOver(c)
               \/ Execute(c) \/ Fail(c) \/ complete(c) \/ release(c)

Next == \/ \E c \in Clients : Handling(c) \/ Crash(c)
        \/ Lapse \/ Expire \/ purgeExpired

Spec == Init /\ [][Next]_vars

(* Requests that are alive go on, clients try again, and time passes.      *)
(* Requests die any number of times, but not for ever.  That a row is      *)
(* purged is not promised: the repository has nobody who calls             *)
(* purgeExpired.                                                           *)
FairSpec == /\ Spec
            /\ \A c \in Clients : WF_vars(Handling(c))
            /\ WF_vars(Lapse)
            /\ <>[][\A c \in Clients : Crash(c) => Handling(c)]_vars
-----------------------------------------------------------------------------
(* Properties.                                                             *)

TypeOK ==
  /\ row \in Row \cup {NoRow}
  /\ request \in [Clients -> Requests]
  /\ effect \in {"none", "once", "again"}
  /\ mishaps \subseteq Mishaps

Without(bad) == mishaps \cap bad = {}

(* The same command is never handled by two requests at a time, however    *)
(* requests fail, die and take over from each other, unless one outlived   *)
(* its lease or ran without a row.                                         *)
OneAtATime ==
  Without({"outlived", "vanished", "purged"}) =>
    \A c, d \in Clients : Working(c) /\ Working(d) => c = d

(* The command is executed once, unless what recorded it was lost.         *)
ExecutedOnce == mishaps \subseteq {"replaced"} => effect # "again"

(* A stored response is only replayed to the request it answers.           *)
ReplaysMatch ==
  Without({"outlived", "vanished", "purged", "replaced"}) =>
    \A c \in Clients : request[c].pc = "replayed" => request[c].answer = body[c]

(* Whoever works holds the row, and the row is alive.                      *)
WorkerHoldsRow ==
  Without({"outlived", "vanished", "purged"}) =>
    \A c \in Clients : Working(c) =>
      /\ row # NoRow /\ row.status = "IN_PROGRESS" /\ ~row.lapsed
      /\ "replaced" \notin mishaps => row.fingerprint = body[c]

(* An effect is known to the request that had it, or to the row.           *)
EffectIsRecorded ==
  mishaps \subseteq {"replaced"} /\ effect # "none" =>
    \/ row # NoRow /\ row.status = "COMPLETED"
    \/ \E c \in Clients : request[c].pc = "executed"

ResponseMatchesRow ==
  Without({"outlived", "vanished", "purged", "replaced"}) =>
    (row # NoRow /\ row.status = "COMPLETED" => row.response = row.fingerprint)

IdempotencyInv ==
  /\ TypeOK
  /\ OneAtATime /\ ExecutedOnce /\ ReplaysMatch
  /\ WorkerHoldsRow /\ EffectIsRecorded /\ ResponseMatchesRow

(* The key of a request that died does not stay reserved until expires_at: *)
(* somebody takes it over and ends it, unless that time has come.          *)
KeyIsFreed ==
  (row.status = "IN_PROGRESS") ~> (row.status # "IN_PROGRESS" \/ row.expired)

(* What the lease is there for; not so of a row that has expired, which    *)
(* nobody can take over and nobody removes.                                *)
KeyIsFreedForGood == (row.status = "IN_PROGRESS") ~> (row.status # "IN_PROGRESS")
=============================================================================
