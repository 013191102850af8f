--------------------------- MODULE EventDelivery ---------------------------
(***************************************************************************)
(* One domain event on its way from the outbox over Pub/Sub to the         *)
(* consumers.                                                              *)
(*                                                                         *)
(* Publishers, one per instance, claim the row for a time, publish it and  *)
(* write the outcome, each in a statement of its own; a publisher that     *)
(* outlives its claim still writes.  The topic delivers a message until it *)
(* is acknowledged, several times at once if the handler is slow.  For     *)
(* each consumer a handler runs one transaction, in which the INSERT into  *)
(* processed_events waits for another uncommitted one of the same event.   *)
(***************************************************************************)
EXTENDS Naturals, FiniteSets

CONSTANTS
  Publishers,  \* instances that drain the outbox
  Handlers,    \* messages handled at a time
  Matched,     \* how many consumers listen to the event's type
  Copies,      \* bound: unacknowledged messages that carry the event
  MaxAttempts  \* OUTBOX_MAX_ATTEMPTS

ASSUME MatchedAssumption == Matched \in Nat
ASSUME NoCopyAssumption == "NONE" \notin Copies
ASSUME MaxAttemptsAssumption == MaxAttempts \in Nat

VARIABLES
  row,        \* the event's row in outbox; WAITING is PENDING with its
              \* next_attempt_at ahead
  publisher,  \* progress of each publisher, with the attempts it has read
  topic,      \* the messages not acknowledged
  parked,     \* the messages the subscription has given up
  handler,    \* progress of each handler
  processed,  \* the consumers that have a row in processed_events
  effects,    \* how many times a consumer's effect has been committed
  dead        \* the consumers that have a row in dead_letter_events

Consumers == 1..Matched  \* in the order in which the runner has indexed them

outbox == <<row, publisher>>
tables == <<processed, effects, dead>>
vars == <<outbox, topic, parked, handler, tables>>

Resting == [pc |-> "idle", attempts |-> 0]
Idle == [pc |-> "idle", copy |-> "NONE", consumer |-> 1, transient |-> FALSE]

Init ==
  /\ row = [status |-> "PENDING", attempts |-> 0]
  /\ publisher = [p \in Publishers |-> Resting]
  /\ topic = {} /\ parked = {}
  /\ handler = [h \in Handlers |-> Idle]
  /\ processed = {} /\ effects = [c \in Consumers |-> 0] /\ dead = {}
-----------------------------------------------------------------------------
(* The publisher.                                                          *)

claimBatch(p) ==
  /\ publisher[p].pc = "idle"
  /\ row.status = "PENDING"
  /\ row' = [row EXCEPT !.status = "WAITING"]
  /\ publisher' = [publisher EXCEPT ![p] = [pc |-> "claimed", attempts |-> row.attempts]]
  /\ UNCHANGED <<topic, parked, handler, tables>>

(* The topic takes the message, and the publisher may not hear of it.  The *)
(* attempts it has read matter only to a failure.                          *)
Publish(p) ==
  /\ publisher[p].pc = "claimed"
  /\ \E m \in Copies : topic' = topic \cup {m}
  /\ \/ publisher' = [publisher EXCEPT ![p] = [pc |-> "published", attempts |-> 0]]
     \/ publisher' = [publisher EXCEPT ![p].pc = "timeout"]
  /\ UNCHANGED <<row, parked, handler, tables>>

(* Both updates are by event_id alone, whatever the row says by now.  The  *)
(* attempts of a published row are never read again, and are left.         *)
MarkPublished(p) ==
  /\ publisher[p].pc = "published"
  /\ row' = [row EXCEPT !.status = "PUBLISHED"]
  /\ publisher' = [publisher EXCEPT ![p] = Resting]
  /\ UNCHANGED <<topic, parked, handler, tables>>

(* The publish has failed, in time or not, or this instance has no topic   *)
(* for the event's type, which is permanent.  The CHECK on published_at    *)
(* refuses to take a published row back, and the publisher ends its round. *)
markFailure(p) ==
  \E permanent \in BOOLEAN :
    LET attempts == publisher[p].attempts + 1
        exhausted == permanent \/ attempts >= MaxAttempts
    IN  /\ \/ publisher[p].pc = "claimed"
           \/ publisher[p].pc = "timeout" /\ ~permanent
        /\ row' = IF row.status = "PUBLISHED" THEN row
                  ELSE [status |-> IF exhausted THEN "FAILED" ELSE "WAITING",
                        attempts |-> attempts]
        /\ publisher' = [publisher EXCEPT ![p] = Resting]
        /\ UNCHANGED <<topic, parked, handler, tables>>

PublisherDies(p) ==
  /\ publisher[p].pc # "idle"
  /\ publisher' = [publisher EXCEPT ![p] = Resting]
  /\ UNCHANGED <<row, topic, parked, handler, tables>>

NeverDue == FALSE /\ UNCHANGED vars  \* mutation: a claim never ends

(* The claim's lease or the backoff is over.                               *)
Due ==
  /\ row.status = "WAITING"
  /\ row' = [row EXCEPT !.status = "PENDING"]
  /\ UNCHANGED <<publisher, topic, parked, handler, tables>>
-----------------------------------------------------------------------------
(* The subscription.                                                       *)

(* The message is one that validateEnvelope can read, as all those of the  *)
(* outbox are (pubsub-event-transport.ts writes every field, and schema    *)
(* version 1).  Any other is acknowledged with neither mark nor dead       *)
(* letter.                                                                 *)
Receive(h) ==
  /\ handler[h].pc = "idle"
  /\ \E m \in topic :
       handler' = [handler EXCEPT ![h] = [Idle EXCEPT !.pc = "loop", !.copy = m]]
  /\ UNCHANGED <<outbox, topic, parked, tables>>

(* ACK, or NACK when some consumer has failed for the moment.              *)
Answer(h) ==
  /\ handler[h].pc = "loop" /\ handler[h].consumer > Matched
  /\ topic' = IF handler[h].transient THEN topic ELSE topic \ {handler[h].copy}
  /\ handler' = [handler EXCEPT ![h] = Idle]
  /\ UNCHANGED <<outbox, parked, tables>>

(* After max_delivery_attempts the message goes to the dead letter topic.  *)
GiveUp(m) ==
  /\ m \in topic
  /\ topic' = topic \ {m}
  /\ parked' = parked \cup {m}
  /\ UNCHANGED <<outbox, handler, tables>>
-----------------------------------------------------------------------------
(* The runner.                                                             *)

InTransaction(h, c) == handler[h].pc = "transaction" /\ handler[h].consumer = c

NotAwaited(c) == TRUE  \* mutation: the INSERT does not wait

(* The INSERT waits for the transaction that has inserted the same row.    *)
Unlocked(c) == \A h \in Handlers : ~InTransaction(h, c)

(* The loop over the consumers goes on to the next one.                    *)
Done(h, transient) ==
  handler' = [handler EXCEPT ![h].pc = "loop", ![h].consumer = @ + 1,
                             ![h].transient = @ \/ transient]

(* A consumer that has its mark is skipped as a duplicate.                 *)
markProcessed(h, c) ==
  /\ handler[h].pc = "loop" /\ handler[h].consumer = c
  /\ Unlocked(c)
  /\ IF c \in processed THEN Done(h, FALSE)
                        ELSE handler' = [handler EXCEPT ![h].pc = "transaction"]
  /\ UNCHANGED <<outbox, topic, parked, tables>>

(* The effect and the mark are committed together; the answer of COMMIT    *)
(* may be lost, and counts as a transient failure.                         *)
Commit(h, c) ==
  /\ InTransaction(h, c)
  /\ processed' = processed \cup {c}
  /\ effects' = [effects EXCEPT ![c] = @ + 1]
  /\ \E lost \in BOOLEAN : Done(h, lost)
  /\ UNCHANGED <<outbox, topic, parked, dead>>

(* No connection, a failed INSERT, or a consumer that asks for a retry.    *)
FailTransiently(h, c) ==
  /\ handler[h].pc \in {"loop", "transaction"} /\ handler[h].consumer = c
  /\ Done(h, TRUE)
  /\ UNCHANGED <<outbox, topic, parked, tables>>

FailPermanently(h, c) ==
  /\ InTransaction(h, c)
  /\ handler' = [handler EXCEPT ![h].pc = "failed"]
  /\ UNCHANGED <<outbox, topic, parked, tables>>

(* One unresolved dead letter of an event for each consumer: a further     *)
(* failure updates it.                                                     *)
deadLetter(c) == dead' = dead \cup {c}

(* The dead letter and the mark, in a second transaction.                  *)
handleConsumerFailure(h, c) ==
  /\ handler[h].pc = "failed" /\ handler[h].consumer = c
  /\ Unlocked(c)
  /\ deadLetter(c)
  /\ processed' = processed \cup {c}
  /\ Done(h, FALSE)
  /\ UNCHANGED <<outbox, topic, parked, effects>>

(* The process dies, or the second transaction throws: the open            *)
(* transaction is rolled back and the message is not answered.             *)
HandlerDies(h) ==
  /\ handler[h].pc # "idle"
  /\ handler' = [handler EXCEPT ![h] = Idle]
  /\ UNCHANGED <<outbox, topic, parked, tables>>
-----------------------------------------------------------------------------
PublisherStep(p) == \/ claimBatch(p) \/ Publish(p)
                    \/ MarkPublished(p) \/ markFailure(p)

HandlerStep(h) ==
  \/ Receive(h) \/ Answer(h)
  \/ \E c \in Consumers : \/ markProcessed(h, c) \/ Commit(h, c)
                          \/ FailTransiently(h, c) \/ FailPermanently(h, c)
                          \/ handleConsumerFailure(h, c)

Next == \/ \E p \in Publishers : PublisherStep(p) \/ PublisherDies(p)
        \/ \E h \in Handlers : HandlerStep(h) \/ HandlerDies(h)
        \/ \E m \in Copies : GiveUp(m)
        \/ Due

Spec == Init /\ [][Next]_vars

Failure == \/ \E p \in Publishers : PublisherDies(p)
           \/ \E h \in Handlers :
                \/ HandlerDies(h)
                \/ \E c \in Consumers :
                     \/ FailTransiently(h, c)
                     \/ Commit(h, c) /\ handler'[h].transient # handler[h].transient

(* Some poll timer goes on, leases run out, some instance handles the      *)
(* messages not acknowledged.  Crashes and transient failures end.         *)
Fairness ==
  /\ WF_vars(\E p \in Publishers : PublisherStep(p))
  /\ WF_vars(\E h \in Handlers : HandlerStep(h))
  /\ WF_vars(Due)
  /\ <>[][~Failure]_vars

FairSpec == Spec /\ Fairness
-----------------------------------------------------------------------------
(* Properties.                                                             *)

TypeOK ==
  /\ row \in [status : {"PENDING", "WAITING", "PUBLISHED", "FAILED"},
              attempts : Nat]
  /\ publisher \in [Publishers ->
       [pc : {"idle", "claimed", "published", "timeout"}, attempts : Nat]]
  /\ topic \subseteq Copies /\ parked \subseteq Copies
  /\ handler \in [Handlers ->
       [pc : {"idle", "loop", "transaction", "failed"},
        copy : Copies \cup {"NONE"}, consumer : 1..(Matched + 1),
        transient : BOOLEAN]]
  /\ processed \subseteq Consumers /\ dead \subseteq Consumers
  /\ effects \in [Consumers -> Nat]

(* However often the event is published, delivered and handled at once,    *)
(* and whatever crashes, a consumer's effect is committed at most once.    *)
EffectAtMostOnce == \A c \in Consumers : effects[c] <= 1

(* A mark in processed_events stands for a committed effect or for a dead  *)
(* letter: no crash leaves an event that looks processed and is not.       *)
MarkHasOutcome == \A c \in processed : effects[c] = 1 \/ c \in dead

(* An event that counts as published is still to be delivered, or every    *)
(* consumer has processed it, or the subscription has given it up where an *)
(* operator finds it.                                                      *)
PublishedIsNotLost ==
  row.status = "PUBLISHED" \/ (\E p \in Publishers : publisher[p].pc = "published") =>
    topic # {} \/ parked # {} \/ processed = Consumers

(* The transaction that holds the row of a consumer is the only one and    *)
(* has not been preceded by a committed one.                               *)
HoldsRow ==
  \A h \in Handlers, c \in Consumers :
    InTransaction(h, c) =>
      /\ c \notin processed
      /\ \A g \in Handlers : InTransaction(g, c) => g = h

(* A handler without transient failures has got every consumer behind it   *)
(* processed.                                                              *)
BehindIsProcessed ==
  \A h \in Handlers :
    handler[h].pc # "idle" /\ ~handler[h].transient =>
      \A c \in Consumers : c < handler[h].consumer => c \in processed

EffectIsMarked == \A c \in Consumers : effects[c] > 0 => c \in processed

DeliveryInv ==
  /\ TypeOK /\ HoldsRow /\ BehindIsProcessed /\ EffectIsMarked
  /\ EffectAtMostOnce /\ MarkHasOutcome /\ PublishedIsNotLost

(* Every event of the outbox reaches all its consumers, or ends where an   *)
(* operator finds it: FAILED in the outbox or parked by the subscription.  *)
Delivered ==
  <>(processed = Consumers \/ row.status = "FAILED" \/ parked # {})
=============================================================================
