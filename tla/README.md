# Verification of Emek

Emek is a marketplace for home services: a customer asks for a service in free
text, a matching service proposes providers, a provider accepts, the customer's
money is held, the service takes place under a safety session, and the money is
released to the provider. The repository holds a NestJS API over PostgreSQL
(`services/api`), a stateless AI service (`services/ai`), three user interfaces
(`apps/`), shared packages, infrastructure and end-to-end tests. This directory
holds TLA+ models of what keeps state in them, the configurations that check the
models with TLC, and proofs checked by TLAPS.

The API runs as several instances over one database. What is hard about it is
the same everywhere: PostgreSQL runs every transaction at READ COMMITTED; calls
to other services are made outside transactions, between a step that reserves
and a step that records; any instance may die between two steps; leases let
another one take over work whose owner may still be alive; and the people and
phones at the other end repeat what they got no answer to.

- [Inventory](#inventory)
- [Modules](#modules) and how they correspond to the code
- [Runs](#runs), their bounds and what they show
- [Disagreements](#disagreements) between the code and what is said of it
- [Fairness](#fairness)
- [Proofs](#proofs), and what is only model-checked
- [Abstractions](#abstractions)
- [Not modelled](#not-modelled) and [Plan](#plan)

## Inventory

Paths are below `services/api/src` unless they say otherwise.

| Component | State | Operations | What makes it correct |
|---|---|---|---|
| **Payments** `payments/` | `payments` (status, frozen_from_status, refunded, authorization expiry), `payment_commands` (outgoing idempotency keys), `payment_events` (webhooks seen) | authorize, release, refund, reauthorize, webhook, freeze, unfreeze, mark service completed, expire; the scheduled release worker | Money is captured at most once; never while a dispute or hold lasts; what the books say has happened; a completed booking is paid |
| **Bookings** `bookings/` | `bookings.status`, history | transitions by customer, provider, operator, system, each with its effect on payment and safety | Only table transitions; the effect commits with the transition; SETTLED is final |
| **Disputes** `disputes/` | `disputes` (one open per booking) | open, assign, resolve | An open dispute freezes the money; a decision lets it go on |
| **Idempotency keys** `common/idempotency/` | `idempotency_keys` | begin (INSERT, SELECT, UPDATE), complete, release, purge | A command runs once under its key; its response is replayed; a dead request does not keep the key |
| **Outbox** `common/outbox/` | `outbox` | emit (inside the transaction of the change), claim, publish, mark | Every committed event is published at least once or is FAILED |
| **Event consumers** `common/events/` | `processed_events`, `dead_letter_events` | receive, deduplicate, handle, dead-letter, ACK/NACK | Each effect once, with its mark, or not at all |
| **Safety** `safety/` | `safety_sessions`, `panic_events`, risk levels, signals | session life cycle from booking transitions, panic, periodic evaluation with the anomaly service, operator override, maintenance | A panic is never forgotten or lowered by a late evaluation; a closed session is not revived |
| **Telemetry** `safety/telemetry*`, `apps/mobile/lib/telemetry` | the phone's numbered buffer; the trace, the fence and its crossings | read, buffer, send, resend, validate, store; the rules over what was kept | The trace holds each reading once and in order; an alarm has evidence; silence is noticed |
| **Notification delivery** `notifications/`, `ops/notification-jobs.repository.ts` | `notification_jobs` with lease tokens, devices | claim, deliver, settle (fenced by the lease), retry, operator's retry | A job is sent, or ends FAILED where an operator finds it; a stale worker settles nothing |
| **Requests** `requests/`, `nlp/` | `booking_requests` | parse, fill in, store with window, length and price | What is stored can be matched, and is paid for |
| **Matching** `matching/` | bookings, windows, capacity of providers, circuit breaker | prepare, call the engine, check and persist; the fallback | No provider is promised twice or beyond capacity; advice is checked again; one booking per request |
| **AI service** `services/ai/app/optimization`, `matching` | none; a solver with a time limit and a greedy substitute | rank, place, check | The answer can be carried out; an optimum leaves nobody out for a better score |
| **Identity** `identity/`, `users/` | users, auth subjects, identities, attempts, recovery requests | register, start, callback, recover, approve, revoke | A callback is applied once; recovery moves an account to its owner; nobody is locked out |
| **Onboarding** `providers/`, `apps/*` | the provider's state, areas, skills | submit, approve, reject, suspend; areas | A decision is about what stands, and acts once |
| **Evidence** `documents/`, `apps/*` | documents, objects in the storage | register, upload, confirm | The confirmed photo is the registered one; a photo gets through |
| **Screens** `apps/web`, `apps/mobile` | what was read last, the key of a command | offer, press, repeat, refresh | What is offered is accepted; a press acts once |
| **Audit chain** `common/audit/`, `audit/` | `audit_logs`, checkpoints, archive | record under an advisory lock, verify, archive | No gap, no fork, no false alarm |
| **Analytics** `analytics/` | facts and their claims, reconciliation runs and findings | copy, export, purge; run, record, close | Nothing is lost or stored twice; a finding is grounded |

How they interact: a booking transition calls payments and the safety session in
its own transaction; disputes and panics freeze the payment in theirs; the
scheduled worker and operators release it; every state change writes an event to
the outbox and a line to the audit chain; the publisher carries events to
Pub/Sub, the subscriber to the consumers, one of which queues notifications and
one of which copies facts for analytics; the interceptor puts any of the HTTP
operations under an idempotency key, which the screens choose and keep.

Which of them are modelled as a whole, which in part, and why the rest is not,
is in `PROJECT.json` (`components`), which also lists (`hazards`) what is hard to
test in the code, at its line, with the properties that would notice.

## Modules

| Modules | Component | Model-checked by | Proved in |
|---|---|---|---|
| `BookingStates`, `PaymentStates`, `Payments`, `Escrow`, `PaymentsEscrow` | one booking and its held money | `MCPayments`, `MCPaymentsCast` | `PaymentsProofs` |
| `PaymentAuthorization` | how the money comes to be held | `MCMarketplace` | `MarketplaceProofs` |
| `Idempotency` | one key | `MCIdempotency` | `IdempotencyProofs` |
| `EventDelivery` | one event, outbox to consumers | `MCEventDelivery` | `EventDeliveryProofs` |
| `SafetyStates`, `Safety`, `Alarm` | the session of one visit | `MCSafety` | `SafetyProofs` |
| `Geofence`, `SafetyRules`, `Telemetry` | from the phone to the rules | `MCTelemetry` | `TelemetryProofs` |
| `CircuitBreaker` | before the matching and the anomaly service | `MCBackground` | `ClientProofs` |
| `BookingScreens`, `Evidence` | the visit and its photos on web and phone | `MCBackground` | `ClientProofs` |
| `NotificationDelivery`, `AuditChain` | jobs and the log | both of them | `BackOfficeProofs` |
| `Analytics`, `Reconciliation` | the export of facts, findings about payments | `MCMarketplace` | `BackOfficeProofs` |
| `Intake`, `Matching`, `Identity`, `ServiceAreas`, `Onboarding` | the marketplace | `MCMarketplace` | `MarketplaceProofs` |
| `Solver` | the decision engine of the AI service | `MCSolver`, `MCMarketplace` | `MarketplaceProofs` |

Each module opens with what it is about and what it abstracts from; a step is a
transaction (or a statement, where the code runs one by itself), a call to
another service, an answer, or a person's act. Names are those of the code.

### Payments

A step of `Payments` is a transaction that locks the rows it reads. Where the
code reads the payment without a lock and writes it later in the same
transaction (`freezeForDispute`, `unfreeze`, `markServiceCompleted` use
`findLiveForBooking`), the transaction is two steps: `bookingTx` or `resolution`
holds what it means to write, the row locks it holds keep other transactions
out, and anything that does not need those locks happens in between. `CommitTx`
writes over whatever the row holds by then; `RollbackTx` is a deadlock, a lost
connection or a crash.

| State | Code |
|---|---|
| `booking`, `payment`, `disputeOpen`, `disputes` | the rows |
| `command`, `leaseOver` | `payment_commands` by key, and which are older than the lease |
| `call` | a caller between `prepare` and `finalise`: its key, amount, and the status it read |
| `requests`, `provider`, `providerRefunded` | requests under way, the provider's stored result per key, the money given back |
| `webhooks` | `payment_events` |

| Action | Code |
|---|---|
| `UserTransition` with `Confirm`, `StartService`, `SafetyHold` | `BookingsService.transition`, `applyPaymentEffects`, the hold of a panic |
| `OpenDispute`, `BeginResolve`, `CommitResolve` | `DisputesService.open`, `resolve` |
| `TickSelect` | the query of the scheduled worker, which the release checks again |
| `ReleasePrepare`, `ReleaseFinalise` | `release`: the two transactions around the capture |
| `RefundPrepare`, `RefundFinalise`, `ReauthorizePrepare`, `ReauthorizeFinalise` | `refund`, `reauthorize` |
| `ClaimCommand` | `claimCommand`: take over a PENDING key whose lease is over, else the next attempt |
| `RecordDecline`, `Abandon`, `LeaseExpires` | a definite decline; a timeout or crash, after which the command stays PENDING; the lease |
| `ProviderExecutes`, `ProviderDeclines` | the provider, once per key, at any time after the request was sent |
| `handleWebhook` | `handleWebhook`, in any order |

`Escrow` is what the payment subsystem promises, with no provider, keys or
retries: the money is held, committed, paid once; reviews begin and end only
before that; the booking is settled after it. `PaymentsEscrow` is the refinement
mapping. `PaymentAuthorization` is the part before: it ends where `Payments`
begins (SCHEDULED and HELD), reads without locks, calls the provider outside any
transaction and books the answer in one.

### Idempotency keys

`Idempotency` is one row of `idempotency_keys` and the clients that retry under
its key. `Insert`, `Select` and `TakeOver` are the three statements of `begin`,
each a transaction of its own; `Execute` is the handler's commit; `complete` and
`release` are by key alone, as in the code; `Crash` may happen after each of
them. The CHECK `expires_at > created_at` of the table is part of `TakeOver`.
The fingerprint is a constant of the client; the scope, being part of the key,
is not modelled.

Nobody can promise that the effect happens once whatever goes wrong: the
interceptor completes the row after the handler has committed, not in the same
transaction. The history variable `mishaps` records what has gone wrong so far,
and every property says which mishaps it does not survive.

| Mishap | In the code |
|---|---|
| `outlived` | the lease of 60 s ran out while the request was still at work |
| `vanished` | the row was deleted between INSERT and SELECT, so the request runs without one |
| `replaced` | the row was deleted and inserted by another request between SELECT and UPDATE; the UPDATE does not compare the fingerprint |
| `purged` | the row was purged under a request |
| `lost` | the handler committed, and the process died or `complete` failed |

### Event delivery

`EventDelivery` follows one event from its row in the outbox to its consumers.
`claimBatch`, `Publish`, `MarkPublished` and `markFailure` are the
publisher; `Due` is the end of a claim or of a backoff; both updates are by
event_id whatever the row says by now, except that the CHECK on `published_at`
refuses to take a PUBLISHED row back. `Publish` may reach the topic and still
look like a failure: the late arrival of a message whose publish timed out is
part of it. `Receive`, `Answer` and `HandlerDies` are a delivery; `markProcessed`,
`Commit`, `FailTransiently`, `FailPermanently` and `handleConsumerFailure` are the
runner, for the consumers in their order. The INSERT into `processed_events`
waits for another uncommitted one of the same event and consumer (`Unlocked`).
`GiveUp` is the subscription's `max_delivery_attempts`, outside the API.

`Init` has the row as `enqueue` leaves it; that it is written in the transaction of
the change it reports is not modelled. `FailTransiently` and `FailPermanently`
are the two classes of `classifyFailure`, of which any failure may be either, and
`deadLetter` is the insert of the dead letter, which updates one that is there.

The order of events of one subject is not modelled and not promised: an event that
failed to be published is overtaken by later ones (each consumer handles that on
its own).

### Safety and telemetry

`Safety` has the session of one visit with what the booking does to it, the
panic button of both participants (with the savepoint under which a panic tries
to hold the booking), the evaluators, the operator and the clean-up. Every write
locks the session's row and is one step; what is read before the lock is a step
of its own: `evaluate` reads, the anomaly service is asked, `persist` writes.
`SafetyStates` has the tables: session statuses, risk levels and how findings,
score and panic make one level. `Alarm` is what the button promises whatever
runs beside it; `ImplementsAlarm` is the refinement.

`Telemetry` follows a position from the phone to the rules: readings get numbers in
the buffer (a set, ordered by the numbers), an engine sends batches and deletes them
when they are answered, or when the server refuses the request for good
(`RequestRefused`); requests and answers are lost or late, two engines may be at
work after a restart, the server validates a batch under the session's lock
(`processBatch`), and `SafetyRules` says what ten rules make of the trace. A batch
is worked through number by number. `Geofence` decides where a fix is, for certain,
in doubt, or not at all. The variable `refused` is a history of one step:
`NothingIsForgotten` excuses the samples of a request that the server has refused,
and no others, so an engine that took a timeout for a refusal would break it.

### Matching, requests and the engine

`Intake` makes a stored request of an answer of the parser or of a form: the window
is widened, cut and rounded until it holds the job, and the price, by the hour or
fixed, is the server's. `Matching` takes the stored requests on. A batch (`run[m]`)
goes

    prepare* -> decide -> (persist -> createWithin -> Inserted -> Recorded)*

`prepare` is one transaction, request by request in the order of their ids: it locks
one and reads its candidates in a statement of their own, so that what is known of
two requests may be of two moments; the locks go with the last one. A request that
cannot be matched by then ends the batch (`Fails`). `decide` runs outside any: it
takes what the engine proposes or, when the circuit is open or the engine fails,
what the `fallback` plans, and keeps what `verifyAssignment` lets through. The rest
is one transaction, request by request in the order of their ids: `persist` locks
the request and, shared, the capacity of the provider, and counts again;
`createWithin` locks the window that holds the job; `Inserted` is the INSERT that
waits for others at the exclusion constraint; `Recorded` writes the results and the
audit entry, and after the last request commits. A booking made directly (`create`)
is such a transaction without a request. An error at any point undoes all of it.
Windows, exceptions and capacities change, and bookings are cancelled, at any time
the locks allow. The variable `alone` remembers whether a batch has met another
transaction. The fallback is stated as what its loop computes: a plan in which every
request has the place it is given beside the requests before it. `Solver` is the AI
service behind the engine: every optimum the solver may find within its time, or the
greedy substitute, and the final check of either. Its times are ticks, `Minute` of
them to a minute: the solver rounds the ends of windows down to minutes and ways up
(`MinutesSince`, `TravelMinutes`), the substitute and the check do not round. What
the substitute and the check do for one job after the other is `inTurn`, in the
order of the `Place` of each job by the start of its window or of its visit.

### Accounts, applications, evidence, screens

`Identity` has accounts, their subjects (what a token says) and persons (the hash
of a national identity number). The guard, the transaction that reads and the
one that commits are separate steps; only the attempt of a callback and the
recovery request of a decision are locked. `Onboarding` has one provider's
application and the operators' panels with their keys. `ServiceAreas` has the
form, and the trigger that counts the areas without seeing those of other
transactions. `Evidence` has a photo that is registered, uploaded under a signed
URL and confirmed by its digest. `BookingScreens` has the screens of both
parties, on the web and on the phone, which mirror the transition table, and the
commands behind them, any of which may be delayed, lose its answer or arrive
when nobody waits for it.

### Back office

`AuditChain` appends rows under the advisory lock, verifies what is new against
the hashes, archives it and writes a checkpoint; somebody with the rights of the
owner may alter a row all the same. A hash is the set of ids that went into it.
`NotificationDelivery` has jobs, devices that change hands, and workers whose
lease is the time they have put the job off to. `Analytics` copies events to a
table, exports its rows with claims that run out, and deletes by age; of the rows
that the warehouse did not store the adapter names any or none, as the error it
gets allows, and `unnamed` remembers the others.
`Reconciliation` has runs that overlap each other and the operators who close
their findings. `CircuitBreaker` has concurrent calls that share a counter of
failures and the time until which the service is left alone.

## Runs

| Run | Instance | Shows |
|---|---|---|
| `payments_release` | two operators, the worker, all webhooks; or an operator and a refunder, webhooks about money; an amount of 2, one dispute, two attempts | `CaptureAtMostOnce`, `OpenDisputeFreezes`, `OutcomeIsFinal` (a known outcome is never overwritten), `SettledIsFinal`, and `ImplementsEscrow`: whatever is lost and retried, it is one escrow |
| `payments_reauthorize` | an operator and a reauthorization; or the worker alone | `ReleasedMeansCaptured`, although a reauthorization writes back a status from before; `WorkerPays` (`CompletedGetsPaid`, where the worker is alone) |
| `finding_double_capture` | an operator and a reauthorization | violation, see [Disagreements](#disagreements) |
| `idempotency` | three clients, two bodies, a purge that may come | `IdempotencyInv`; `KeyIsFreed`: until it expires no key stays reserved by a request that died |
| `event_delivery` | two publishers, two handlers, two consumers, two attempts, one copy | `DeliveryInv`, `Delivered` |
| `safety` | two participants, two evaluators, a calm and a dangerous situation, two panics | `SafetyInv`, `ImplementsAlarm`; `RiskCatchesUp`: a danger that lasts is seen |
| `finding_emergency` | one evaluator, one panic | violation, see [Disagreements](#disagreements) |
| `finding_export` | two events, of which one is malformed, two exporters | violation, see [Disagreements](#disagreements) |
| `finding_minutes` | the decision engine of `marketplace`, by itself | violation, see [Disagreements](#disagreements) |
| `telemetry` | two engines of one phone, three kinds of fix (two with a clock ahead, by what is tolerated and by more), four readings (an entry and an exit take as many), batches of two, time in moments 0, 3 and 10 | `TelemetryInv`, `AlarmsAreGrounded`, `NothingIsForgotten` |
| `background` | five components side by side, see below | `BreakerInv`, `EvidenceInv`, `CommandsActInTurn`, and liveness |
| `marketplace` | eleven components side by side, see below | the other properties of the marketplace and the back office |

The last two runs check components that share no state with each other: `scene`
chooses the one a behaviour is about, the others rest, so the state graph is the
disjoint union of theirs. Deadlock is checked in `idempotency`, which never
ends; elsewhere a settled booking, a delivered event or a closed visit is the
end. `marketplace` lets the two members of a pair of workers change places
(symmetry), which is sound since all of its properties are invariants and action
properties; it has about 630 thousand states up to symmetry and is the longest
run.

**Why the bounds are enough.** In the runs of `Payments` a booking has one payment,
one dispute, and two attempts: the smallest numbers with which a retry meets its
predecessor, a refund meets an earlier one, and a decline is followed by a new key.
Three clients are needed in `idempotency` for one that dies, one that takes over and
one that has another body. `event_delivery` has one copy on the topic: two handlers
may have it at once all the same, which is what a second copy would add, and
publishing again puts an acknowledged one back. Four readings fill two batches, of
which one may be resent and late; the last moment makes silence long enough for the
rules. In `background` three callers at a threshold of two are one that trips the
circuit, one that began before, and the probe; two verifiers, of which one may die,
and two writers with one altered row; one job, two processes, one mishap and one
retry; two detours (lost answers or stale screens) and three slips of the upload. In
`marketplace`: two requests, one of which goes past the end of its day, two
providers, two batches at a time, a cancellation and one edit at a time of a calendar
or a capacity; three
jobs of which no worker has time for all, two ticks to a minute, with windows and
ways that end between minutes; an owner, an empty account, an operator and a late
one, three subjects, two requests at a time and two attempts; two facts of which one
is malformed, delivered once each or one of them twice, two exporters and one claim of
each that runs out; one job and one device that
changes hands between two users; two forms, an area limit of two and one lost
answer; two sessions, two operators, two presses; two buyers and three payments. All
theorems of the last section but those marked hold without any of these bounds.

**Composite properties.** A property that is a conjunction states parts that
belong to one question:

| Property | Parts |
|---|---|
| `IdempotencyInv` | `OneAtATime`, `ExecutedOnce`, `ReplaysMatch` and what they rest on |
| `DeliveryInv` | `EffectAtMostOnce`, `MarkHasOutcome`, `PublishedIsNotLost` and what they rest on |
| `SafetyInv` | `PanicIsEmergency`, `SessionFollowsBooking`, `AlarmingIsKnown`, `ExpiredWasCalm`, `FloorHolds` |
| `TelemetryInv` | `TraceIsChronological`, `FenceFollowsTrace`, `CrossingsTellTheFence` |
| `AlarmsAreGrounded` | `UnheardIsAlarming`, `LocationAlarmHasEvidence` |
| `BreakerInv` | `OneProbe`, `DeadServiceIsSpared` |
| `CommandsActInTurn` | `ScreensInv` (what a fresh screen offers, the server accepts), `OnceForOnePress`, `LateCommandsActInTurn` |
| `EvidenceInv` | `EvidenceStands`, `AnnouncedOnce` |
| `IntakeInv` | `StoredIsMatchable`, `PriceCoversTime` |
| `BatchesAreSound` | `MatchedOnce`, `BookingFitsRequest`, `FallbackIsSound`, `CapacityUnlessRaced` |
| `SolverInv` | `AnswerIsFeasible`, `OnlyCutShort` (the last check takes out only what was given a start before its window) |
| `AccountsAreSafe` | `NobodyIsLockedOut`, `RecoveredAccountWasTheirs`, `RevokedStaysOut` |
| `AuditInv` | `NoFalseAlarm`, `NothingSlipsBehind` |
| `DeliveriesAreFenced` | `DuplicatesAreExcused`, `OutcomeStands`, `CleanupSparesNewOwner` |
| `AnalyticsInv` | `NothingLost`, `CopiesAreExcused` |
| `FindingsAreReliable` | `OneOpenFinding`, `FindingsAreGrounded`, `CompletedRunsSawAll` |
| `AreasInv` | `AreasUnlessRaced`, `TwinsAreExcused` |
| `DecisionsAreSound` | `DecidedOnWhatIs`, `OneActPerPress`, `SubmittedWhole` |
| `OneHoldAndAnotherTry` | `OneHold`, `HoldsAreKnown`, `MayTryAgain` |

`NoDoubleBooking` and `FreshAvailability` are about bookings and windows: no
provider is promised to two customers at once, and a booking is written into a
time that its provider offers when it is written.

## Disagreements

Four runs end in a violation of something the repository says of itself:

| Run | The code | and what the repository says |
|---|---|---|
| `finding_double_capture` | A reauthorization that was under way during a release puts the payment back; `claimCommand` counts the captured command and takes attempt 2 | a new key only after a definite decline (`payments.service.ts:1017`) |
| `finding_emergency` | An evaluation that read an active panic and is written after an operator has resolved it makes the session an emergency again | an emergency comes from a panic only and is resolved by an operator (`docs/architecture/adr/0019-safety-domain.md:92`) |
| `finding_export` | `extractInsertErrors` skips an error that has no string `insertId` and returns nothing when there is no list of errors (`bigquery-client.adapter.ts:79-85`): the rows refused are taken for stored, marked as exported and deleted by age | rows refused for good are tried for ever and not lost in silence (`bigquery-export.service.ts:91-93`) |
| `finding_minutes` | `_minutes_since` floors the start of an interval that does not open at a whole minute, the solver starts a job before it, and the last check takes the job out, whose customer gets no provider | the violations are 0 by the construction of the model, and the rounded origin keeps a start from being proposed before its interval (`model.py:69`, `128-131`) |

These are stated in the modules, under the names given, and are not runs; TLC
finds each of them violated when it is added to a configuration:

| Stated as | The code | and what the repository says |
|---|---|---|
| `Payments!RefundsAreReal` | A refund takes over the PENDING key of an earlier refund with another amount, and books its own | a refund retried after a timeout goes on under its key (`test/payments.integration.spec.ts:806`) |
| `Payments!HoldFreezes` | Resolving a dispute during a safety hold thaws the money | the hold freezes it for as long as it lasts (`bookings.service.ts:578`) |
| `Payments!ResolvedIsPayable` | A dispute opened at CHECKED_OUT and decided for the provider leaves the payment HELD, which cannot be released | the provider can be paid then (`test/payments.integration.spec.ts:870`) |
| `Payments!ReleasedGetsSettled` | When the CAPTURED webhook is faster than the finalising transaction, that is refused and the booking is never settled | it is settled here and only here (`payments.service.ts:418`) |
| `Safety!WorkIsMonitored` | A visit that goes on after a hold, or after its session was closed, can be under way with no active session (`safety-lifecycle.service.ts:113`) | a visit is monitored while it lasts (`docs/architecture/safety.md:31`) |
| `Idempotency!KeyIsFreedForGood` | The take-over of an expired row is refused by a CHECK, and nobody calls `purgeExpired` | the lease is there so that a dead request does not keep the key (`idempotency.service.ts:11`) |

Seen while modelling, each at the definition that models it:

- **Idempotency and events.** ADR-0003:21-22 and ADR-0006:30 say that the record
  is written in the transaction of the effect; it is completed after it (`lost`).
  `idempotency.interceptor.ts:73` says that a command is not executed in parallel;
  a request that finds no row any more runs without one (`vanished`).
  `outbox.publisher.ts:215` says that a FAILED event is never taken again; a
  publisher that outlived its claim can still set it back to PENDING. An event can
  be processed and dead-lettered for one consumer, if one of two deliveries fails
  for good while it waits for the other; `MarkHasOutcome` allows for it.
- **Payments.** CHECKED_IN and IN_PROGRESS are in `DISPUTABLE_STATUSES` but have no
  transition to DISPUTED: a dispute from there is always rolled back. A
  DISPUTE_OPENED webhook writes DISPUTED without `frozen_from_status`, which a
  CHECK refuses each time. In `authorizeForBooking` the attempt is always 1, so
  that after an unknown outcome a retry is told ALREADY_SENT for ever, where
  `payments.service.ts:1093` says that it goes on under its key; a webhook that
  comes before the answer is booked finds no payment and is dropped for good; a
  hold is lost when the booking is cancelled during the call (`HoldsAreKnown`
  excepts the last).
- **Matching.** The day of a job is counted from the start of its request's window
  (`matching.service.ts:704-731`), that of a booking from its own start: a job that
  is placed after midnight is counted on the day before, and the next day gets one
  booking more than its capacity. `CapacityUnlessRaced` excepts batches with such
  a booking (`InDay`); without the exception TLC finds it broken. Two batches read
  a capacity FOR SHARE at once and both use it (the property excepts batches that
  have met another). `usedInBatch` is added to a count that already has it, which
  wastes capacity. Adjacent windows are merged for the engine, but
  `isAvailableLocked` needs one window, and a batch with a job across two is rolled
  back whole; so is one with a customer who is the provider proposed. A request
  stays MATCHED when its booking is cancelled.
- **Telemetry and the engine.** `objective.py` speaks of consecutive pairs and the
  model counts every ordered pair. The solver rounds each way up to a minute
  (`model.py:111`) and the fallback adds seconds (`greedy.py:115-117`), so that the
  fallback may serve more than an optimum: with ways of 90 s, jobs of an hour in
  9:00-10:00, 10:00-11:30 and 11:00-12:03 are three for the one and two for the
  other. No property compares them; `OptimumServesMost` is about the plans that
  the solver's own model admits.
- **Identity.** A rejection is written and then rolled back by the exception of the
  same transaction (`identity.service.ts:520-527`); the limit of attempts is
  counted outside any lock (135-142); a second attempt with another person
  overwrites the identity (392-400); a late callback writes an identity for an
  account that has been deleted.
- **Audit chain.** Rows before a break are vouched for by the BROKEN checkpoint but
  never archived; after a crash between the archive and the checkpoint the same
  key is refused for ever; an older OK checkpoint can follow a BROKEN one.
- **Notifications.** A push goes out to suspended users; attempts are counted only
  when a job is settled, so that a worker that always dies is never counted.
- **Screens and evidence.** A replayed answer may show success although a hold has
  moved the visit since. On the phone `uploadEvidence` keeps a registration whose
  URL has expired and never gets through until a new photo is taken
  (`provider_api.dart:291` says it is the same as on the web): `PhotoGetsThrough`
  is stated for the web. The web registers anew after a lost confirmation, which
  leaves two documents of one photo.
- **Analytics and reconciliation.** The client is called with
  `skipInvalidRows: false` where a comment counts on the rest of the batch being
  stored (`bigquery-export.service.ts:52`); the model has both.
  A malformed row returns to the head of the queue
  for ever. A crashed reconciliation stays RUNNING.
- **Onboarding and areas.** A stale press of `approve` lifts a suspension; closing
  the panel drops the key of an unanswered command; the server does not check
  that an application is complete; the limit of areas is said to be enforced by the
  database (`20260921100000_matching.js:60-70`) and races; adding an area has no
  key, and a lost answer gives twins.

## Fairness

Runs of invariants and action properties assume none. Each liveness property is
checked under the fairness of what the running system keeps doing:

| Property | Assumes | Because |
|---|---|---|
| `WorkerPays` | the worker's phases, command leases, the end of open transactions, and that the provider decides what it has got | the interval goes on, each phase is a timer or a promise settled within a timeout; crashes, timeouts and rollbacks happen any number of times but end (`<>[][~Failure]_vars`) |
| `KeyIsFreed` | a live request goes on (`Handling`) and its lease runs out (`Lapse`) | neither the purge, which nobody calls, nor `Expire` is fair; a row that has expired is excused (Disagreements) |
| `Delivered` | some publisher and some handler go on, and leases run out | weaker than that all of them do; failures end |
| `RiskCatchesUp` | some evaluator starts, each goes on, and the next evaluation falls due | the scheduler's interval; evaluations cease to fail |
| `RecoversForGood` | callers ask and are answered, the clock ticks | every call has a timeout; the service stays up from some time on |
| `VerificationAdvances` | the steps of each verifier | an interval in each process |
| `EveryJobSettles` | deliveries of the processes, and that the next attempt falls due | an interval; the backoff is bounded |
| `VisitEnds` | parties refresh and go on, an operator decides an open dispute | people who use what their screen offers |
| `PhotoGetsThrough` | the provider goes on (`Proceeds`) | |

Operators, refunds, webhooks, cancellations and edits need not ever happen.
Declines are the provider's decision and not a failure, so `WorkerPays`
ends with an attempt that was paid or with every attempt declined.

## Proofs

TLC shows the properties on the instances above; the theorems hold for every
value of the constants that meets the named assumptions of the modules (callers
of different kinds differ, amounts are positive, the NONE values are nobody's
name, the sets over which the code counts are finite). Three assumptions say more:
`BreakerAssumption` has a circuit that stays open for longer than two calls may
last, as the defaults do; `MatchingAssumption` has request windows that hold
their job, which is what `IntakeInv` proves of every stored request; and
`SolverAssumption` has ways that take as long in one direction as in the other.
That is so of `HaversineRouter`, the only router there is. The port would allow
others, and the proof uses it where the code relies on it: the solver asks for the
way from the earlier job to the later one, the fallback always for the one from
the job that is placed already.
`Reauthorizers = {}` is a hypothesis where the table says so, and so is
`BonusDominates`: with `n` demands, `w` workers, scores up to `top`, ways from
home up to `home` and ways between jobs up to `way` minutes, begun ones counted,

    Bonus > n * (top + Tie * w + Penalty * home) + n * n * Penalty * way.

The comment of `objective.py` says that leaving a customer without a provider is
always worse than any better score; its code checks only that the bonus is
greater than the scale of the scores. The defaults (`objective-v1`: scale 10 000,
bonus 1 000 000, penalty 5 a minute, tie 1) meet the hypothesis for a batch of
the default limit of 25 requests with 50 candidates each, as long as no way takes
more than two hours: 25 * (10 000 + 1 250 + 600) + 625 * 600 = 671 250. They do
not for the 100 requests to which `MATCHING_BATCH_LIMIT` may be raised, nor do
those of `objective-v2-travel` for 25; nothing is proved for these. The hypothesis
is sufficient and not necessary: the instance TLC checks does not meet it (its
bonus is 100) and the property holds there.

| Module | Theorems | Property |
|---|---|---|
| `PaymentsProofs` | `OutcomesAreFinal`, `ReleasedIsCaptured` | `OutcomeIsFinal`, `ReleasedMeansCaptured` |
| the same, without reauthorizations | `CapturedAtMostOnce`, `DisputeFreezes`, `SettledForGood`, `KeepsTheEscrow` | `CaptureAtMostOnce`, `OpenDisputeFreezes`, `SettledIsFinal`, `ImplementsEscrow` |
| `IdempotencyProofs` | `KeysAreSafe` | `IdempotencyInv` |
| `EventDeliveryProofs` | `DeliveryIsSafe` | `DeliveryInv` |
| `TelemetryProofs` | `TelemetryStaysInOrder`, `AlarmsStayGrounded`, `NothingGetsForgotten` | `TelemetryInv`, `AlarmsAreGrounded`, `NothingIsForgotten` |
| `SafetyProofs` | `SafetyHolds`, `EmergencyEnds`, `KeepsTheAlarm` | `SafetyInv`, `ImplementsAlarm` |
| `ClientProofs` | `CircuitSpares`, `OffersAreAccepted`, `CommandsTakeTurns`, `EvidenceIsKept` | `BreakerInv`, `CommandsActInTurn` (of which the second states `ScreensInv`), `EvidenceInv` |
| `MarketplaceProofs` | `NobodyIsPromisedTwice`, `BookingsFindTheirWindow`, `BatchesStand` | `NoDoubleBooking`, `FreshAvailability`, `BatchesAreSound` |
| | `WhatIsStoredIsFair`, `AreasAreLimited`, `DecisionsStand` | `IntakeInv`, `AreasInv`, `DecisionsAreSound` |
| | `HoldsAreInHand`, `AccountsStaySafe`, `AnswersStand` | `OneHoldAndAnotherTry`, `AccountsAreSafe`, `SolverInv` |
| the same, when `BonusDominates` | `OptimumIsFull` | `OptimumServesMost` |
| `BackOfficeProofs` | `ReconciliationIsReliable`, `MessagesAreFenced` | `FindingsAreReliable`, `DeliveriesAreFenced` |
| | `ExportIsExact`, `CheckpointsAreTrue` | `AnalyticsInv`, `AuditInv` |

`PROJECT.json` lists them with what each says. The arguments:

**A capture happens once** (`CaptureInv`). That at most one capture command is
PENDING or SUCCEEDED (`OneCapture`) is what `claimCommand` is for, but it is not
inductive: a new attempt may be reserved whenever no command is PENDING, so a
SUCCEEDED one must keep the payment out of every status from which it can be
released. `PaidStaysPaid` says so, and has to say it of the rows *and* of what
open transactions are about to write, since those read the payment before the
capture. That in turn needs `FreezeKnowsOrigin` and `ReviewFreezes`: who holds
the booking or the dispute row can only write a freeze over a payment that is
not frozen. `SentIsReserved` and `OutcomesAreTrue` tie the command table to what
the provider has done. A reauthorization breaks `PaidStaysPaid`, by writing the
status it read before its call: the theorem is false with one
(`finding_double_capture`), and this is exactly the assumption it needs.

**The escrow** (`KeepsTheEscrow`). The first `ReleasePrepare` commits,
`RecordDecline` declines, the provider's execution of a capture pays,
`ReleaseFinalise` settles, and transitions into and out of a dispute or a hold
begin and end a review; every other step stutters. `SettledStays` adds to
`CaptureInv` that no open transaction can still move a settled booking.

**What the books say** (`ReleasedIsKnown`). With reauthorizations a status read
before may be written back, so that the invariant speaks of the status each caller
has read as well as of the row. An outcome is final because two callers that hold
one command write what the provider has stored under its key.

**One request at a time** (`IdempotencyInv`). Whoever works holds the row, and
the row is IN_PROGRESS, has not lapsed, and carries the worker's fingerprint
(`WorkerHoldsRow`): then no other request can insert, take over or be answered.
An effect is known to the request that had it or to a COMPLETED row
(`EffectIsRecorded`), so nobody executes again. Each part holds until one of the
mishaps it names; the proof shows that no other step breaks it.

**The effect is committed at most once** (`DeliveryInv`). A transaction that has
inserted its mark is the only one for its consumer, and none has committed
before it (`HoldsRow`); an effect has a mark (`EffectIsMarked`). For
`PublishedIsNotLost` the loop must be known to leave only marked consumers
behind unless it remembers a transient failure (`BehindIsProcessed`).

**A panic stays an emergency** (`SafetyInv`). It is inductive as it stands: every
write is under the session's lock, and `persist` merges what it has read with
what the row says. Every step is a step of `Alarm` or stutters, with the set of
participants who have an unresolved panic as its reports.

**The trace and its alarms** (`PhoneInv`). A reading is one and the same sample
wherever it is found: in the buffer, in the batch under way, in a late request,
as the anchor, in the trace (`KnownInv`, `EngineInv`); so a number that is used up
stands for one reading. `FenceFollowsTrace` is not inductive: the fence turns when
the candidate's count is full, so `CandidateInv` says that the candidate and its
count are the last observations of the trace that agree, and `LastRowInv` that the
fence is where the last full row of them was. For the alarms `HeardInv` bounds how
far `heardAt` lies beyond what has been captured. A batch is a function on the
numbers up to its greatest; it exists (`RunExists`), and each of its values keeps
the invariant (`BatchKeeps`), since otherwise there would be a least number at
which it does not.

**Nobody is promised twice** (`MatchingInv`). What open transactions have
inserted overlaps neither each other nor what is committed, and the windows they
have found are held against removal. **Batches** (`BatchInv`) adds: rows exist
only for requests the transaction has locked, a locked request is not matched by
anybody else, and what is in hand fits its request; for the capacity, that a
batch which has been alone since it began has counted every booking of the day
under a lock on the row it compares with, and that its own are among those it
has placed. For the fallback: of the jobs that a provider is given on a day, the
last one by the order of the loop has counted all the others, and they are no more
than the capacity that was read with that one; and that the loop
has a plan and only one (`OneGreedyPlan`), since without its last request it has
one, to which the last one makes no difference.

**Accounts** (`IdentityOK`). A request is written only by who has proved the
person, whoever approves holds its row, and a subject is added to the target
before the others are revoked, so that at each commit an active account has one.

**One hold** (`AuthorizationInv`). The command of a payment is reserved before the
call, by one buyer, and a hold is at a payment whose command says so, or one of
the two excused ways has been taken (unheard, or cancelled during the call).

**The engine** (`SolverOK`). Every plan that is proposed is `Sound`: candidates,
the full length, room on the day, and the whole way between two jobs. Of the
solver that follows from its model, since a way rounded up is no shorter
(`FittingIsSound`); of the fallback it is an induction on its turns: no demand has
a worker before its turn comes, places differ, and a job put beside jobs that fit
makes a plan that fits (`PlacedFits`, `AssignFits`). The last check works in the
order of the starts, which is another one than the fallback's, on a part of a sound
plan each time. There it lets a job pass if and only if the job lies in a declared
window (`LyingStands`), and so it answers what is left of the plan without the
others (`LyingIsVerified`, `UpheldIsExact`). Those are none of the fallback's, and
of the solver's the jobs that begin in the minute in which a window opens, before
it does.

**The optimum** (`MostOK`). The objective is what the placements pay less what the
ways take (`ObjectiveIsSums`). A sum over a finite set lies between its size times
the least and the greatest of its terms (`SumIsBetween`), so the objective of a
plan for `k` demands lies in a band (`ObjectiveIsBetween`), and when
`BonusDominates` the bands of different `k` do not meet: a plan that serves more is
better (`MoreIsBetter`). What is best therefore serves as many as any other plan of
the solver's model (`BestServesMost`). The fallback's plan need not be one of those.

**Intake** (`IntakeOK`). The window is made to hold the job before it is cut to
the day, and cutting it moves the start; a lemma bounds the rounding of prices by the
hour, and a fixed one is the rate itself.

**Areas** (`AreasOK`). Areas and the forms adding one are, at any time, less than
the limit and the forms that race. **Decisions** (`OnboardingOK`). One
transaction decides at a time, keys are numbered, and what a session shows is
there or has gone since.

**The circuit** (`CircuitInv`). The window outlasts a call, so every call that was
under way when the circuit opened has ended when a probe is let through.
**Screens** (`TurnsInv`). A key has had its effect once it is on record, and a
late request that would act finds that the server knows nothing of its key.
**Evidence** (`UploadInv`). A registration is of one photo, and its object is
that photo or none.

**Messages** (`DeliveryOK`, `Budget`). The messages received and those that may
still come are at most one more than mishaps and retries; the time stamp that
fences a settlement is claimed once. **The export** (`ExportOK`). Copies,
exporters about to insert and unclaimed rows together are at most one more than
the claims that ran out, and a row leaves only when it is old and either stored or refused
without being named.
**The audit chain** (`ChainOK`). The hash of a row is of all rows before it, below
a point that has been reached there is no gap, and rows that come later lie
beyond it. **Findings** (`ReconciliationInv`). A run accounts for each case that
stands throughout it (`StandingIsAccounted`).

**Only model-checked.** Liveness, since fairness and ENABLED are out of the
prover's reach: `VisitEnds` and all others of the table under
[Fairness](#fairness). The four findings and the disagreements are not theorems.

## Abstractions

- **Payments.** One booking with one payment: nothing in the modelled code reads
  those of another booking, except the worker's query, which looks for any
  candidate. Amounts are small; only refunds are partial. The provider is the one
  the port describes: it executes a request once for each key and answers a
  repetition with what it stored, refuses to give back more than was paid, and may
  execute a request long after the caller has given up. `MockPaymentProvider` does
  so too, except that it throws a decline without storing it, so that a repetition
  may succeed; a licensed provider is assumed to keep it. With one that does not,
  two callers of one key (the second has taken the lease over) may see a decline and
  a success, and `OutcomeIsFinal` rests on their seeing the same. A webhook type is
  delivered once, repetitions are refused by `payment_events`; REFUNDED is about the
  whole amount. Reading the payment and reserving the key of a reauthorization are
  one step. A panic on a booking that is already held changes nothing here.
  `MaxAttempts` and `MaxDisputes` bound rows; the code has no such bound. In
  `PaymentAuthorization` `HoldEnds` stands for expiry and full refund, and after
  SCHEDULED only cancellation is there.
- **Idempotency.** The response is the fingerprint of the request that stored it;
  the clock is `Lapse` and `Expire`; clients retry for ever.
- **Event delivery.** The messages are those of the outbox, whose envelopes the
  runner can read; one that it cannot (a missing field, another schema version) is
  acknowledged with neither mark nor dead letter (`event-consumer-runner.ts:94`,
  `247`), so that `Delivered` would not hold of an event published by another
  program. Events are independent of each other; the effect of a
  consumer is one commit; an operator's resolution of a dead letter and the replay
  of FAILED rows change nothing the properties are about; attempts of rows that are
  not PENDING are never read and are not kept.
- **Telemetry.** Time has few moments, in units of five minutes; any request may be
  refused for good (`telemetry_engine.dart:137`), whatever is wrong with it, and one
  that meets the rate limit is one that fails; the trace is shorter than the window
  an evaluation reads; exits are not counted, and the window of R07 is not reached.
- **Matching.** Time is slots, days are `DayLength` slots; skills are a constant of
  the demand; a suspended provider is one without windows; the retry of a deadlock
  is another batch. **Intake** checks address and service once, before the parser
  is asked, as the code does. **Solver**: scores are small numbers, and times are ticks.
- **Identity.** A person is a hash; the provider of identities answers what it
  likes; tries are bounded. The run has one person, so that it shows little of
  `RecoveredAccountWasTheirs`, which `AccountsStaySafe` proves for any number.
- **Back office.** The archive of the audit chain is written only where
  `AUDIT_EXPORT_ENABLED` says so, as in the model; without it nothing but the
  checkpoints vouches for old rows. A purge takes all that is due; created_at is the
  order of insertion; counts of a report are left out; templates are left out; a
  hash is a set of ids, which is what a collision-free hash tells apart.
- **Screens and evidence.** Of the data on a screen only the status is kept; the
  object storage keeps the last object written under a name.

Every component is alone in its model. What one asks of another is there as a
step that may come at any time (a transition of the booking in `Safety`, a panic
in `Payments`), which allows more than the composition would. `Payments` and
`Escrow`, `Safety` and `Alarm`, and `Matching` with the circuit breaker's
outcome (the fallback may be taken at any time) are where two of them meet.

## Not modelled

Endpoints and guards (stateless checks, counters in Redis), the API's
configuration, logging and health checks, generated clients and shared packages,
deployment and browser tests. Of modelled components: editing of texts, listings
and averages, templates, rules on counted exits and on long gaps, deletions by
age alone, the anonymisation of deleted users, `resolveSkills`, the order of
events, and the parser and the anomaly score of the AI service, whose answers are
arbitrary where they are used. `PROJECT.json` gives the reason for each.

## Plan

Done: every component listed as modelled, with its runs; the theorems above,
which state every invariant of the runs, every action property and both
refinements.

Next: a composition of `PaymentAuthorization` with `Payments` at SCHEDULED, and a
narrower hypothesis for `OptimumIsFull`, which counts each two jobs once, and only
as many for a provider as its days have room for.
