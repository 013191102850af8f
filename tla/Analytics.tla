------------------------------ MODULE Analytics ------------------------------
(* The way of a domain event to the warehouse: the consumer that copies it *)
(* into analytics_events (analytics-export.consumer.ts), the workers that  *)
(* export the rows to BigQuery (bigquery-export.service.ts, its worker and *)
(* client adapter) and the retention sweep that deletes rows and           *)
(* deduplication marks by age (retention.service.ts).                      *)
(*                                                                         *)
(* Abstracted: what an event says; a purge takes everything that is due    *)
(* (the code takes it in batches).  Whether the insert of a batch with an  *)
(* invalid row stores the rest is BigQuery's affair.  Which of the rows it *)
(* did not store the adapter can name depends on the error: an item that   *)
(* has no insertId, and a list that is missing, name nobody.               *)
EXTENDS Naturals, FiniteSets

CONSTANTS
  Facts,      \* the events
  Malformed,  \* those whose row BigQuery's schema refuses
  Exporters,  \* the processes that run the export worker
  PerRound,   \* ANALYTICS_EXPORT_BATCH_SIZE
  MaxLapses,  \* how often a claim runs out
  MaxSent     \* bound: deliveries by the broker

ASSUME AnalyticsAssumption == IsFiniteSet(Facts) /\ IsFiniteSet(Exporters) /\ PerRound \in Nat

VARIABLES
  sent,     \* how often each event has been delivered
  age,      \* 0: within the delivery window, 1: past it, 2: past the retention of rows
  noted,    \* the events with a mark in processed_events
  table,    \* analytics_events: event |-> created_at of its row, 0: none
  exported, \* those with exported_at
  leased,   \* those whose export_claimed_until lies ahead
  round,    \* what each exporter is doing
  hand,     \* the rows it has claimed
  refused,  \* the rows of its batch that the adapter says were refused
  unnamed,  \* history: the events refused without being named
  copies,   \* how many copies of each event the warehouse holds
  fresh,    \* the insertIds that BigQuery still remembers
  lapses    \* how often a claim of each event ran out

analyticsVars ==
  <<sent, age, noted, table, exported, leased, round, hand, refused, unnamed, copies, fresh,
    lapses>>

(* The events that have a row in analytics_events.                         *)
Rows == {e \in Facts : table[e] # 0}

(* Nothing has happened yet.                                               *)
AnalyticsInit ==
  /\ sent = [e \in Facts |-> 0] /\ age = [e \in Facts |-> 0]
  /\ noted = {} /\ table = [e \in Facts |-> 0] /\ exported = {} /\ leased = {}
  /\ round = [x \in Exporters |-> "idle"]
  /\ hand = [x \in Exporters |-> {}] /\ refused = [x \in Exporters |-> {}]
  /\ unnamed = {}
  /\ copies = [e \in Facts |-> 0] /\ fresh = {} /\ lapses = [e \in Facts |-> 0]
-----------------------------------------------------------------------------
(* What the broker has delivered so far.                                   *)
Deliveries == Cardinality({d \in Facts \X (1..MaxSent) : d[2] <= sent[d[1]]})

(* The broker delivers an event, at least once.  An event that is marked   *)
(* is done; otherwise the mark and the row are written together, and a row *)
(* that is there already stays as it is.                                   *)
Receives(e) ==
  /\ age[e] = 0 /\ Deliveries < MaxSent
  /\ sent' = [sent EXCEPT ![e] = @ + 1]
  /\ noted' = noted \union {e}
  /\ table' = IF e \in noted \union Rows THEN table
              ELSE [table EXCEPT ![e] = Cardinality({f \in Facts : sent[f] > 0}) + 1]
  /\ UNCHANGED <<age, exported, leased, round, hand, refused, unnamed, copies, fresh, lapses>>

(* The oldest of some rows, as many as a round takes.                      *)
Oldest(due) == {e \in due : Cardinality({f \in due : table[f] < table[e]}) < PerRound}

(* An exporter claims the oldest rows that are neither exported nor        *)
(* claimed, in one statement that skips what another has locked.           *)
claimBatch(x) ==
  LET due == Rows \ (exported \union leased)
      batch == Oldest(due)
  IN /\ round[x] = "idle" /\ due # {}
     /\ round' = [round EXCEPT ![x] = "inserting"]
     /\ hand' = [hand EXCEPT ![x] = batch]
     /\ leased' = leased \union batch
     /\ UNCHANGED <<sent, age, noted, table, exported, refused, unnamed, copies, fresh, lapses>>

(* BigQuery stores a set of rows: an insertId that it remembers adds none. *)
Stores(batch) ==
  /\ copies' = [e \in Facts |-> IF e \in batch \ fresh THEN copies[e] + 1 ELSE copies[e]]
  /\ fresh' = fresh \union batch

(* BigQuery forgets an insertId: it deduplicates for a while only.         *)
Forgets(e) ==
  /\ e \in fresh
  /\ fresh' = fresh \ {e}
  /\ UNCHANGED <<sent, age, noted, table, exported, leased, round, hand, refused, unnamed, copies, lapses>>

(* The answer of BigQuery: the whole batch when every row is valid, and    *)
(* otherwise a partial failure, of which the adapter names what it can.    *)
insertRows(x, taken, named) ==
  /\ round[x] = "inserting"
  /\ taken = hand[x] \ Malformed \/ (taken = {} /\ hand[x] \intersect Malformed # {})
  /\ named \subseteq hand[x] \ taken
  /\ Stores(taken)
  /\ refused' = [refused EXCEPT ![x] = named]
  /\ unnamed' = unnamed \union ((hand[x] \ taken) \ named)
  /\ round' = [round EXCEPT ![x] = "answered"]
  /\ UNCHANGED <<sent, age, noted, table, exported, leased, hand, lapses>>

(* The call fails, or its answer is lost, or the process dies: the round   *)
(* is over, and the claim runs until its lease ends.                       *)
GivesUp(x, taken) ==
  /\ \/ round[x] = "inserting" /\ taken \in {{}, hand[x] \ Malformed}
     \/ round[x] = "answered" /\ taken = {}
  /\ Stores(taken)
  /\ round' = [round EXCEPT ![x] = "idle"]
  /\ hand' = [hand EXCEPT ![x] = {}] /\ refused' = [refused EXCEPT ![x] = {}]
  /\ UNCHANGED <<sent, age, noted, table, exported, leased, unnamed, lapses>>

(* mutation: a row is marked whether or not it was refused                 *)
MarksRefused(x) ==
  LET marked == hand[x] \intersect Rows IN
  /\ round[x] = "answered"
  /\ exported' = exported \union marked
  /\ leased' = leased \ marked
  /\ round' = [round EXCEPT ![x] = "idle"]
  /\ hand' = [hand EXCEPT ![x] = {}] /\ refused' = [refused EXCEPT ![x] = {}]
  /\ UNCHANGED <<sent, age, noted, table, unnamed, copies, fresh, lapses>>

(* The rows that were not refused are marked, whoever holds them by now;   *)
(* the refused ones keep their claim until it ends.                        *)
exportBatch(x) ==
  LET marked == (hand[x] \ refused[x]) \intersect Rows IN
  /\ round[x] = "answered"
  /\ exported' = exported \union marked
  /\ leased' = leased \ marked
  /\ round' = [round EXCEPT ![x] = "idle"]
  /\ hand' = [hand EXCEPT ![x] = {}] /\ refused' = [refused EXCEPT ![x] = {}]
  /\ UNCHANGED <<sent, age, noted, table, unnamed, copies, fresh, lapses>>

(* A claim runs out (CLAIM_LEASE_SECONDS).                                 *)
ClaimLapses(e) ==
  /\ e \in leased /\ lapses[e] < MaxLapses
  /\ leased' = leased \ {e}
  /\ lapses' = [lapses EXCEPT ![e] = @ + 1]
  /\ UNCHANGED <<sent, age, noted, table, exported, round, hand, refused, unnamed, copies, fresh>>
-----------------------------------------------------------------------------
(* An event grows old.                                                     *)
GrowsOld(e) ==
  /\ age[e] < 2 /\ sent[e] > 0
  /\ age' = [age EXCEPT ![e] = @ + 1]
  /\ UNCHANGED <<sent, noted, table, exported, leased, round, hand, refused, unnamed, copies, fresh, lapses>>

(* The sweep deletes the deduplication marks that are past the delivery    *)
(* window.                                                                 *)
purgeByAge ==
  LET due == {e \in noted : age[e] > 0} IN
  /\ due # {} /\ noted' = noted \ due
  /\ UNCHANGED <<sent, age, table, exported, leased, round, hand, refused, unnamed, copies, fresh, lapses>>

(* The sweep deletes the exported rows that are past their retention.      *)
purgeExportedAnalytics ==
  LET due == {e \in exported : age[e] = 2} IN
  /\ due # {}
  /\ table' = [e \in Facts |-> IF e \in due THEN 0 ELSE table[e]]
  /\ exported' = exported \ due /\ leased' = leased \ due
  /\ UNCHANGED <<sent, age, noted, round, hand, refused, unnamed, copies, fresh, lapses>>

(* One step of the broker, an exporter, BigQuery, the sweep or the clock.  *)
AnalyticsNext ==
  \/ \E e \in Facts : Receives(e) \/ Forgets(e) \/ ClaimLapses(e) \/ GrowsOld(e)
  \/ \E x \in Exporters : \/ claimBatch(x) \/ exportBatch(x)
                          \/ \E taken, named \in SUBSET hand[x] : insertRows(x, taken, named)
                          \/ \E taken \in SUBSET hand[x] : GivesUp(x, taken)
  \/ purgeByAge \/ purgeExportedAnalytics

AnalyticsSpec == AnalyticsInit /\ [][AnalyticsNext]_analyticsVars
-----------------------------------------------------------------------------
(* What the code calls the canonical copy is there before the source goes: *)
(* an event that was delivered is in the table until the warehouse has it, *)
(* and a row is marked as exported only then, unless it was refused and    *)
(* nobody said so.                                                         *)
Kept(e) == copies[e] > 0 \/ e \in unnamed

NothingLost ==
  \A e \in Facts : sent[e] > 0 /\ (e \notin Rows \/ e \in exported) => Kept(e)

(* What the code says of rows that are refused for good: that they are     *)
(* tried again for ever, and never lost in silence.                        *)
RefusedRowsStay ==
  \A e \in Facts : sent[e] > 0 /\ (e \notin Rows \/ e \in exported) => copies[e] > 0

(* The warehouse counts an event once: every further copy is owed to a     *)
(* claim that ran out before its rows were marked, never to a second       *)
(* delivery, a second exporter or the sweep.                               *)
CopiesAreExcused == \A e \in Facts : copies[e] <= 1 + lapses[e]

(* The export loses nothing but what it was not told of, and repeats only  *)
(* what it has to.                                                         *)
AnalyticsInv == NothingLost /\ CopiesAreExcused
=============================================================================
