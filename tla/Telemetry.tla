----------------------------- MODULE Telemetry -----------------------------
(***************************************************************************)
(* The way of a position from the provider's phone to the risk rules: the  *)
(* numbered buffer of the application, a network that loses and delays     *)
(* requests and answers, the validation of a batch under the lock of the   *)
(* session, and the signals that an evaluation builds from what was kept.  *)
(* The clock counts units of five minutes, as SafetyRules does; two samples*)
(* in one unit are closer together than the least spacing.  What waits in  *)
(* the buffer or is under way is a set of samples: their numbers are the   *)
(* order in which the phone keeps them and the server goes through them.   *)
(***************************************************************************)
EXTENDS SafetyRules

CONSTANTS
  Fixes,         \* what the phone may report: distance, accuracy, mock,
                 \* and how far ahead its clock runs
  Start, End,    \* of the visit, by the clock
  MaxSpeed,      \* metres in a unit of time
  MaxSkew,       \* capture times accepted ahead of the server's clock
  MaxAge,        \* and behind it
  MaxSampleAge,  \* at which the phone gives a sample up
  BatchSize,     \* samples of a request
  ReanchorAfter, \* impossible speeds in a row after which one is believed
  Moments,       \* bound: when something happens
  MaxReadings, MaxPending, MaxEngines  \* bounds

ASSUME TelemetryAssumption ==
  /\ Moments \subseteq Nat /\ 0 \in Moments
  /\ MaxSpeed \in Nat /\ MaxSkew \in Nat
  /\ MaxAge \in Nat /\ MaxSampleAge \in Nat /\ BatchSize \in Nat \ {0}
  /\ ReanchorAfter \in Nat \ {0}
  /\ MaxReadings \in Nat /\ MaxPending \in Nat /\ MaxEngines \in Nat
  /\ \A f \in Fixes : /\ f.distance \in Nat /\ f.accuracy \in Nat
                      /\ f.mock \in BOOLEAN /\ f.ahead \in Nat

VARIABLES
  clock,    \* of the server
  readings, \* positions that the phone has recorded
  engine,   \* the telemetry engine of the application
  refused,  \* history: the samples given up by the last step because the
            \* server has refused their request
  late,     \* a request that the engine waits for no longer
  session,  \* what safety_sessions holds about the telemetry
  trace,    \* location_events
  crossings \* GEOFENCE_ENTERED and GEOFENCE_EXITED events

vars == <<clock, readings, engine, refused, late, session, trace, crossings>>

NoSample == [sequence |-> 0, id |-> 0, at |-> Unknown,
             fix |-> [distance |-> 0, accuracy |-> 0, mock |-> FALSE, ahead |-> 0]]

NoEngine == [number |-> 0, phase |-> "idle", next |-> 1, recordedAt |-> Unknown,
             pending |-> {}, awaiting |-> {}]

Init ==
  /\ clock = 0 /\ readings = 0
  /\ engine = NoEngine /\ refused = {}
  /\ late = {}
  /\ session = [status |-> "ARRIVAL_MONITORING", start |-> Start, end |-> End,
                monitoredFrom |-> 0, activatedAt |-> Unknown,
                activationFence |-> "UNKNOWN",
                lastSequence |-> 0, last |-> NoSample, speedRejections |-> 0,
                heardAt |-> Unknown, fence |-> NoFence, fenceSince |-> Unknown,
                integrity |-> 0, mocks |-> 0]
  /\ trace = <<>> /\ crossings = <<>>
-----------------------------------------------------------------------------
(* The application.                                                        *)

(* A new engine has an empty buffer and numbers on from what was read of   *)
(* the session.  That it starts right after that leaves out nothing: what a*)
(* request of the engine before changes in between, it may change later.   *)
StartEngine ==
  /\ acceptsTelemetry(session.status)
  /\ engine.phase # "running" /\ engine.number < MaxEngines
  /\ engine' = [NoEngine EXCEPT !.number = engine.number + 1, !.phase = "running",
                                !.next = session.lastSequence + 1]
  /\ UNCHANGED <<clock, readings, late, session, trace, crossings>>

Stopped == [NoEngine EXCEPT !.number = engine.number, !.phase = "stopped"]

(* A sign-out, a restart of the application, or no visit under way (bound: *)
(* another engine may follow).                                             *)
StopEngine ==
  /\ engine.phase = "running" /\ engine.number < MaxEngines
  /\ engine' = Stopped
  /\ UNCHANGED <<clock, readings, late, session, trace, crossings>>

(* A position is recorded unless the phone's clock, which may be set at any *)
(* time, shows less than the interval after the one before.                *)
record ==
  /\ engine.phase = "running" /\ readings < MaxReadings
  /\ Cardinality(engine.pending) < MaxPending
  /\ \E fix \in Fixes :
       LET at == clock + fix.ahead
       IN  /\ engine.recordedAt = Unknown \/ at > engine.recordedAt
           /\ engine' = [engine EXCEPT
                !.next = @ + 1, !.recordedAt = at,
                !.pending = @ \cup {[sequence |-> engine.next, id |-> readings + 1,
                                     at |-> at, fix |-> fix]}]
  /\ readings' = readings + 1
  /\ UNCHANGED <<clock, late, session, trace, crossings>>

TooOld(sample) == clock - sample.at > MaxSampleAge

(* The first samples of a set by their numbers, as many as a request holds.*)
nextBatch(samples) ==
  {s \in samples : Cardinality({r \in samples : r.sequence < s.sequence}) < BatchSize}

(* One request at a time; samples that are too old are dropped first.      *)
flush ==
  /\ engine.phase = "running" /\ engine.awaiting = {}
  /\ engine.pending # {}
  /\ LET kept == {s \in engine.pending : ~TooOld(s)}
     IN  engine' = [engine EXCEPT !.pending = kept, !.awaiting = nextBatch(kept)]
  /\ UNCHANGED <<clock, readings, late, session, trace, crossings>>

(* What the answer settles leaves the buffer, accepted or not.             *)
acknowledge(e, batch) ==
  [e EXCEPT !.awaiting = {},
            !.pending = {s \in @ : \A r \in batch : r.sequence # s.sequence}]

(* mutation: a request that has timed out is taken for one that was refused*)
ForgetsTimedOut ==
  /\ engine.awaiting # {}
  /\ engine' = acknowledge(engine, engine.awaiting)
  /\ UNCHANGED <<clock, readings, late, session, trace, crossings>>

(* No answer, or one that allows to try again: the samples stay.  The      *)
(* request is lost, or comes late (bound: one at a time).                  *)
RequestFails ==
  /\ engine.awaiting # {}
  /\ engine' = [engine EXCEPT !.awaiting = {}]
  /\ late' \in IF late = {} THEN {late, engine.awaiting} ELSE {late}
  /\ UNCHANGED <<clock, readings, session, trace, crossings>>

(* An answer that says no for good: the request is not one the server takes*)
(* (a field out of its bounds, a person who may not send it).  It has used *)
(* up none of the numbers, and the samples are given up so that those      *)
(* behind them get their turn.                                             *)
RequestRefused ==
  /\ engine.awaiting # {}
  /\ engine' = acknowledge(engine, engine.awaiting)
  /\ refused' = engine.awaiting
  /\ UNCHANGED <<clock, readings, late, session, trace, crossings>>
-----------------------------------------------------------------------------
(* The server.                                                             *)

TooFast(s, sample) ==
  LET effective == Larger(0, Distance(s.last.fix, sample.fix)
                             - s.last.fix.accuracy - sample.fix.accuracy)
  IN  effective > MaxSpeed * Larger(1, sample.at - s.last.at)

(* The verdict on a sample.  One that follows on a replay is looked at, the*)
(* replay itself is not.                                                   *)
Verdict(s, sample) ==
  IF sample.sequence <= s.lastSequence THEN "SEQUENCE_REPLAY"
  ELSE IF sample.at > clock + MaxSkew THEN "CLOCK_SKEW_FUTURE"
  ELSE IF sample.at < clock - MaxAge THEN "CLOCK_SKEW_STALE"
  ELSE IF sample.at < s.monitoredFrom - MaxSkew THEN "CAPTURED_BEFORE_SESSION"
  ELSE IF s.last.at # Unknown /\ sample.at < s.last.at THEN "CLOCK_REGRESSION"
  ELSE IF s.last.at # Unknown /\ sample.at = s.last.at THEN "TOO_FREQUENT"
  ELSE IF s.last.at # Unknown /\ TooFast(s, sample)
          /\ s.speedRejections + 1 < ReanchorAfter THEN "IMPOSSIBLE_SPEED"
  ELSE "ACCEPTED"

isIntegrityRejection(reason) ==
  reason \in {"CLOCK_SKEW_FUTURE", "CLOCK_REGRESSION", "IMPOSSIBLE_SPEED"}

(* Whatever the verdict the number is used up; only what was accepted moves*)
(* the anchor.                                                             *)
validateSample(s, sample, verdict) ==
  IF verdict = "SEQUENCE_REPLAY" THEN s
  ELSE [s EXCEPT
         !.lastSequence = sample.sequence,
         !.last = IF verdict = "ACCEPTED" THEN sample ELSE @,
         !.speedRejections = IF verdict = "ACCEPTED" THEN 0
                             ELSE IF verdict = "IMPOSSIBLE_SPEED" THEN @ + 1 ELSE @]

recordEvents(from, to) ==
  IF to = from THEN <<>>
  ELSE IF to = "INSIDE" THEN <<"GEOFENCE_ENTERED">>
  ELSE IF from = "INSIDE" THEN <<"GEOFENCE_EXITED">> ELSE <<>>

(* One sample of a batch: acc holds the session, the trace and the events. *)
processSample(acc, sample) ==
  LET s == acc.session
      verdict == Verdict(s, sample)
      next == validateSample(s, sample, verdict)
      fence == applyDebounce(s.fence, evaluateGeofence(sample.fix))
  IN  IF verdict = "ACCEPTED"
      THEN [session |-> [next EXCEPT !.fence = fence,
                                     !.mocks = IF sample.fix.mock THEN @ + 1 ELSE @],
            trace |-> Append(acc.trace, sample),
            crossings |-> acc.crossings \o recordEvents(s.fence.current, fence.current),
            moved |-> acc.moved \/ fence.current # s.fence.current]
      ELSE [acc EXCEPT !.session = [next EXCEPT !.integrity =
                                      IF isIntegrityRejection(verdict) THEN @ + 1 ELSE @]]

(* A batch in the order of its numbers.                                    *)
processBatch(batch) ==
  LET numbers == {s.sequence : s \in batch}
      after[n \in 0..Max(numbers)] ==
        IF n = 0 THEN [session |-> session, trace |-> trace, crossings |-> crossings,
                       moved |-> FALSE]
        ELSE IF n \in numbers
        THEN processSample(after[n - 1], CHOOSE s \in batch : s.sequence = n)
        ELSE after[n - 1]
  IN  after[Max(numbers)]

(* mutation: a batch of which nothing is accepted is a sign of life        *)
HeardAnyway(before, after) == clock

(* The session has been heard when a sample was accepted.                  *)
HeardAt(before, after) == IF Len(after) > Len(before) THEN clock ELSE session.heardAt

ingest(batch) ==
  LET outcome == processBatch(batch)
  IN  /\ session' = [outcome.session EXCEPT
                      !.heardAt = HeardAt(trace, outcome.trace),
                      !.fenceSince = IF outcome.moved THEN clock ELSE @]
      /\ trace' = outcome.trace
      /\ crossings' = outcome.crossings

(* A request is handled and its answer settles the batch; a session that is*)
(* closed stops the engine.                                                *)
Answer ==
  /\ engine.awaiting # {}
  /\ IF acceptsTelemetry(session.status)
     THEN ingest(engine.awaiting) /\ engine' = acknowledge(engine, engine.awaiting)
     ELSE UNCHANGED <<session, trace, crossings>> /\ engine' = Stopped
  /\ UNCHANGED <<clock, readings, late>>

(* So is one whose answer does not reach the engine any more.              *)
DeliverLate ==
  /\ late # {} /\ late' = {}
  /\ IF acceptsTelemetry(session.status) THEN ingest(late)
     ELSE UNCHANGED <<session, trace, crossings>>
  /\ UNCHANGED <<clock, readings, engine>>

(* What the booking does to the session (see Safety).                      *)
CheckIn ==
  /\ session.status = "ARRIVAL_MONITORING"
  /\ session' = [session EXCEPT !.status = "ACTIVE", !.activatedAt = clock,
                                !.activationFence = session.fence.current]
  /\ UNCHANGED <<clock, readings, engine, late, trace, crossings>>

CheckOut ==
  /\ session.status = "ACTIVE"
  /\ session' = [session EXCEPT !.status = "CLOSED"]
  /\ UNCHANGED <<clock, readings, engine, late, trace, crossings>>
-----------------------------------------------------------------------------
(* A request that is waited for is given up within twenty seconds.         *)
Tick ==
  /\ session.status # "CLOSED" /\ engine.awaiting = {}
  /\ \E next \in Moments : /\ next > clock /\ clock' = next
                           /\ \A m \in Moments : m > clock => m >= next
  /\ UNCHANGED <<readings, engine, late, session, trace, crossings>>

Next ==
  \/ RequestRefused
  \/ /\ refused' = {}
     /\ \/ StartEngine \/ StopEngine \/ record \/ flush \/ RequestFails
        \/ Answer \/ DeliverLate
        \/ CheckIn \/ CheckOut \/ Tick

Spec == Init /\ [][Next]_vars

-----------------------------------------------------------------------------
(* Properties.                                                             *)

Numbered(samples) == \A s \in samples, r \in samples : s.sequence = r.sequence => s = r

TypeOK ==
  /\ clock \in Moments /\ readings \in 0..MaxReadings
  /\ engine.number \in 0..MaxEngines /\ engine.phase \in {"idle", "running", "stopped"}
  /\ Numbered(engine.pending) /\ Numbered(late)
  /\ session.status \in SAFETY_SESSION_STATUSES
  /\ session.speedRejections \in 0..(ReanchorAfter - 1)
  /\ session.fence.count \in 0..(DebounceSamples - 1)

(* The trace holds no reading twice, whatever was sent again, delivered    *)
(* late or numbered twice by two engines, and capture times rise with the  *)
(* numbers: the last entry is the session's anchor.                        *)
TraceIsChronological ==
  /\ \A i \in DOMAIN trace, j \in DOMAIN trace :
       i < j => /\ trace[i].sequence < trace[j].sequence
                /\ trace[i].at < trace[j].at
                /\ trace[i].id # trace[j].id
  /\ trace # <<>> => trace[Len(trace)] = session.last

(* A sample leaves the buffer of a running engine only when its number is  *)
(* used up at the server, when it is too old to be accepted, or when the   *)
(* server has refused the very request it was in.                          *)
NothingIsForgotten ==
  [][engine'.phase = "running" /\ engine'.number = engine.number =>
       \A s \in engine.pending :
         \/ s \in engine'.pending \/ TooOld(s)
         \/ s.sequence <= session'.lastSequence
         \/ s \in refused']_vars

(* The fence is where the trace last proved it to be: the side of the last *)
(* full row of equal conclusive observations, next to one another.         *)
FenceFollowsTrace ==
  LET RowAt(i) ==
        /\ i >= DebounceSamples /\ Side(trace[i].fix) # "NONE"
        /\ \A k \in (i - DebounceSamples + 1)..i :
             evaluateGeofence(trace[k].fix) = Side(trace[i].fix)
      rows == {i \in DOMAIN trace : RowAt(i)}
  IN  IF rows = {} THEN session.fence.current = "UNKNOWN"
      ELSE session.fence.current =
             Side(trace[CHOOSE i \in rows : \A j \in rows : j <= i].fix)

(* Entries and exits alternate, from an entry on, and tell where the fence *)
(* is now.                                                                 *)
CrossingsTellTheFence ==
  /\ \A i \in DOMAIN crossings :
       crossings[i] = IF i % 2 = 1 THEN "GEOFENCE_ENTERED" ELSE "GEOFENCE_EXITED"
  /\ session.fence.current = "INSIDE" <=> Len(crossings) % 2 = 1

RiskNow(eta) ==
  ObservedRisk(evaluateRules(withRoute(buildSignals(session, trace, clock), eta)), NoAnomaly)

(* A phone of which nothing could be accepted for half an hour is alarming,*)
(* however much it sends: numbers that are used up, times out of range and *)
(* impossible jumps are not signs of life.                                 *)
UnheardIsAlarming ==
  LET heard == {trace[i].at : i \in DOMAIN trace}
  IN  /\ acceptsTelemetry(session.status)
      /\ \A at \in heard : clock - at >= telemetryGapHighRisk + MaxAge
      /\ clock >= session.monitoredFrom + telemetryGapHighRisk
      => RiskNow(Unknown) = "HIGH_RISK"

(* Nothing but a recent sample that lies outside raises an alarm about the *)
(* place: neither an old one nor one that is not accurate enough.          *)
LocationAlarmHasEvidence ==
  (\E f \in evaluateRules(buildSignals(session, trace, clock)) : f.family = "LOCATION") =>
    \E i \in DOMAIN trace : /\ Side(trace[i].fix) = "OUTSIDE"
                            /\ trace[i].at >= clock - geofenceEvidenceMaxAge
                            /\ \A j \in DOMAIN trace :
                                 j > i => Side(trace[j].fix) = "NONE"

(* Whatever is sent again, late or out of range, the trace is in order,    *)
(* and the fence and its crossings follow from it.                         *)
TelemetryInv == TypeOK /\ TraceIsChronological /\ FenceFollowsTrace /\ CrossingsTellTheFence

(* The alarms are those that the trace gives ground for: no silence goes   *)
(* unheard, and no place alarms without evidence.                          *)
AlarmsAreGrounded == UnheardIsAlarming /\ LocationAlarmHasEvidence
=============================================================================
