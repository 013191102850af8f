------------------------ MODULE EventDeliveryProofs ------------------------
(* DeliveryInv is inductive, for every number of publishers, handlers,     *)
(* consumers and attempts; what it promises about an event follows.        *)
EXTENDS EventDelivery, TLAPS

Rows == [status : {"PENDING", "WAITING", "PUBLISHED", "FAILED"}, attempts : Nat]

PublisherStates ==
  [pc : {"idle", "claimed", "published", "timeout"}, attempts : Nat]

HandlerStates ==
  [pc : {"idle", "loop", "transaction", "failed"}, copy : Copies \cup {"NONE"},
   consumer : 1..(Matched + 1), transient : BOOLEAN]

LEMMA InitInv == Init => DeliveryInv
<1> SUFFICES ASSUME Init PROVE DeliveryInv
    OBVIOUS
<1> USE MatchedAssumption DEF Init, Idle, Resting, Consumers
<1>1. TypeOK
  BY DEF TypeOK
<1>2. HoldsRow /\ BehindIsProcessed /\ EffectIsMarked
  BY DEF HoldsRow, BehindIsProcessed, EffectIsMarked, InTransaction
<1>3. EffectAtMostOnce /\ MarkHasOutcome /\ PublishedIsNotLost
  BY DEF EffectAtMostOnce, MarkHasOutcome, PublishedIsNotLost
<1> QED BY <1>1, <1>2, <1>3 DEF DeliveryInv

(* What a publisher does leaves the handlers and the tables alone.         *)
LEMMA PublisherFrame ==
  ASSUME NEW p \in Publishers, PublisherStep(p) \/ PublisherDies(p)
  PROVE  UNCHANGED <<handler, processed, effects, dead, parked>> /\ topic \subseteq topic'
  BY DEF PublisherStep, PublisherDies, claimBatch, Publish,
         MarkPublished, markFailure, tables

(* What a handler does leaves the outbox and the parked messages alone.    *)
LEMMA HandlerFrame ==
  ASSUME NEW h \in Handlers, HandlerStep(h) \/ HandlerDies(h)
  PROVE  UNCHANGED <<row, publisher, parked>>
  BY DEF HandlerStep, HandlerDies, Receive, Answer, markProcessed, Commit,
         FailTransiently, FailPermanently, handleConsumerFailure, deadLetter,
         outbox

LEMMA PublisherTypes ==
  ASSUME TypeOK, NEW p \in Publishers, PublisherStep(p) \/ PublisherDies(p)
  PROVE  TypeOK'
<1> USE DEF Rows, PublisherStates
<1>1. row \in Rows /\ publisher \in [Publishers -> PublisherStates]
  BY DEF TypeOK
<1>2. row' \in Rows /\ publisher' \in [Publishers -> PublisherStates]
  <2>1. CASE claimBatch(p)
    BY <1>1, <2>1 DEF claimBatch
  <2>2. CASE Publish(p)
    BY <1>1, <2>2 DEF Publish
  <2>3. CASE MarkPublished(p) \/ PublisherDies(p)
    BY <1>1, <2>3 DEF MarkPublished, PublisherDies, Resting
  <2>4. CASE markFailure(p)
    <3>1. publisher[p].attempts + 1 \in Nat
      BY <1>1
    <3> QED BY <1>1, <2>4, <3>1 DEF markFailure, Resting
  <2> QED BY <2>1, <2>2, <2>3, <2>4 DEF PublisherStep
<1>3. topic' \subseteq Copies
  BY DEF TypeOK, PublisherStep, PublisherDies, claimBatch, Publish,
         MarkPublished, markFailure
<1> QED BY <1>2, <1>3, PublisherFrame DEF TypeOK

(* The loop goes on within the consumers.                                  *)
LEMMA DoneType ==
  ASSUME TypeOK, NEW h \in Handlers, handler[h].consumer \in Consumers,
         NEW b \in BOOLEAN, Done(h, b)
  PROVE  handler' \in [Handlers -> HandlerStates]
<1>1. handler \in [Handlers -> HandlerStates]
  BY DEF TypeOK, HandlerStates
<1>2. handler[h].consumer + 1 \in 1..(Matched + 1)
  BY MatchedAssumption DEF Consumers
<1> QED BY <1>1, <1>2 DEF Done, HandlerStates

LEMMA HandlerTypes ==
  ASSUME TypeOK, NEW h \in Handlers, HandlerStep(h) \/ HandlerDies(h)
  PROVE  TypeOK'
<1> USE DEF HandlerStates
<1>1. handler \in [Handlers -> HandlerStates] /\ processed \subseteq Consumers
        /\ dead \subseteq Consumers /\ effects \in [Consumers -> Nat]
        /\ topic \subseteq Copies
  BY DEF TypeOK
<1> DEFINE Typed ==
      /\ handler' \in [Handlers -> HandlerStates] /\ processed' \subseteq Consumers
      /\ dead' \subseteq Consumers /\ effects' \in [Consumers -> Nat]
      /\ topic' \subseteq Copies
<1>2. Idle \in HandlerStates
  BY MatchedAssumption DEF Idle
<1>3. CASE Receive(h)
  <2>1. PICK m \in topic : handler' = [handler EXCEPT ![h] =
                             [Idle EXCEPT !.pc = "loop", !.copy = m]]
    BY <1>3 DEF Receive
  <2>2. [Idle EXCEPT !.pc = "loop", !.copy = m] \in HandlerStates
    BY <1>1, <1>2
  <2>3. handler' \in [Handlers -> HandlerStates]
    BY <1>1, <2>1, <2>2
  <2>4. Typed
    BY <1>1, <1>3, <2>3 DEF Receive, tables
  <2> QED BY <2>4, HandlerFrame DEF TypeOK
<1>4. CASE Answer(h) \/ HandlerDies(h)
  <2>1. handler' \in [Handlers -> HandlerStates]
    BY <1>1, <1>2, <1>4 DEF Answer, HandlerDies
  <2>2. Typed
    BY <1>1, <1>4, <2>1 DEF Answer, HandlerDies, tables
  <2> QED BY <2>2, HandlerFrame DEF TypeOK
<1>5. ASSUME NEW c \in Consumers,
             \/ markProcessed(h, c) \/ Commit(h, c) \/ FailTransiently(h, c)
             \/ FailPermanently(h, c) \/ handleConsumerFailure(h, c)
      PROVE  TypeOK'
  <2>1. handler[h].consumer = c
    BY <1>5 DEF markProcessed, Commit, FailTransiently, FailPermanently,
                handleConsumerFailure, deadLetter, InTransaction
  <2>2. \/ \E b \in BOOLEAN : Done(h, b)
        \/ handler' = [handler EXCEPT ![h].pc = "transaction"]
        \/ handler' = [handler EXCEPT ![h].pc = "failed"]
    BY <1>5 DEF markProcessed, Commit, FailTransiently, FailPermanently,
                handleConsumerFailure, deadLetter
  <2>3. handler' \in [Handlers -> HandlerStates]
    BY <1>1, <1>5, <2>1, <2>2, DoneType
  <2>4. Typed
    <3>1. CASE Commit(h, c)
      <4>1. effects' = [effects EXCEPT ![c] = @ + 1] /\ processed' = processed \cup {c}
              /\ dead' = dead /\ topic' = topic
        BY <3>1 DEF Commit
      <4> QED BY <1>1, <2>3, <4>1
    <3>2. CASE handleConsumerFailure(h, c)
      BY <1>1, <2>3, <3>2 DEF handleConsumerFailure, deadLetter
    <3>3. CASE markProcessed(h, c) \/ FailTransiently(h, c) \/ FailPermanently(h, c)
      BY <1>1, <2>3, <3>3 DEF markProcessed, FailTransiently, FailPermanently, tables
    <3> QED BY <1>5, <3>1, <3>2, <3>3
  <2> QED BY <2>4, HandlerFrame, <1>5 DEF TypeOK, HandlerStep
<1> QED BY <1>3, <1>4, <1>5 DEF HandlerStep

LEMMA TypePreserved == TypeOK /\ [Next]_vars => TypeOK'
<1> SUFFICES ASSUME TypeOK, [Next]_vars PROVE TypeOK'
    OBVIOUS
<1>1. ASSUME NEW m \in Copies, GiveUp(m) PROVE TypeOK'
  BY <1>1 DEF TypeOK, GiveUp, outbox, tables
<1>2. CASE Due
  BY <1>2 DEF TypeOK, Due, tables
<1>3. CASE UNCHANGED vars
  BY <1>3 DEF TypeOK, vars, outbox, tables
<1> QED BY <1>1, <1>2, <1>3, PublisherTypes, HandlerTypes DEF Next

-----------------------------------------------------------------------------
(* The tables.                                                             *)

(* HoldsRow and BehindIsProcessed are about one handler and the marks: a   *)
(* step of handler h leaves the others where they are.                     *)
Tables == HoldsRow /\ BehindIsProcessed /\ EffectIsMarked /\ EffectAtMostOnce
            /\ MarkHasOutcome

LEMMA TablesFrame ==
  ASSUME Tables, UNCHANGED <<handler, processed, effects, dead>>
  PROVE  Tables'
  BY DEF Tables, HoldsRow, BehindIsProcessed, EffectIsMarked, EffectAtMostOnce,
         MarkHasOutcome, InTransaction

(* The marks only grow, and no consumer is marked in another transaction,  *)
(* so what a step leaves to show is about h.                               *)
LEMMA OtherHandlers ==
  ASSUME HoldsRow, BehindIsProcessed, NEW h \in Handlers, processed \subseteq processed',
         \A g \in Handlers \ {h} : handler'[g] = handler[g],
         \A c \in processed' \ processed, g \in Handlers \ {h} : ~InTransaction(g, c),
         \A c \in Consumers : InTransaction(h, c)' =>
           c \notin processed' /\ \A g \in Handlers \ {h} : ~InTransaction(g, c),
         handler'[h].pc # "idle" /\ ~handler'[h].transient =>
           \A c \in Consumers : c < handler'[h].consumer => c \in processed'
  PROVE  HoldsRow' /\ BehindIsProcessed'
  BY DEF HoldsRow, BehindIsProcessed, InTransaction

LEMMA TablesPreserved ==
  ASSUME TypeOK, Tables, NEW h \in Handlers, HandlerStep(h) \/ HandlerDies(h)
  PROVE  Tables'
<1>1. handler \in [Handlers -> HandlerStates] /\ processed \subseteq Consumers
        /\ effects \in [Consumers -> Nat]
  BY DEF TypeOK, HandlerStates
<1>2. HoldsRow /\ BehindIsProcessed /\ EffectIsMarked /\ EffectAtMostOnce
        /\ MarkHasOutcome
  BY DEF Tables
<1> DEFINE SameTables == UNCHANGED <<processed, effects, dead>>
<1>3. ASSUME SameTables PROVE (EffectIsMarked /\ EffectAtMostOnce /\ MarkHasOutcome)'
  BY <1>2, <1>3 DEF EffectIsMarked, EffectAtMostOnce, MarkHasOutcome
(* The consumers behind the current one are marked, so is the current one. *)
<1>4. ASSUME NEW c \in Consumers, handler[h].consumer = c, handler[h].pc # "idle",
             NEW b \in BOOLEAN, Done(h, b), processed \subseteq processed',
             b \/ c \in processed'
      PROVE  /\ \A d \in Consumers : ~InTransaction(h, d)'
             /\ handler'[h].pc # "idle" /\ ~handler'[h].transient =>
                  \A d \in Consumers : d < handler'[h].consumer => d \in processed'
  <2>1. handler'[h] = [handler[h] EXCEPT !.pc = "loop", !.consumer = c + 1,
                                         !.transient = @ \/ b]
    BY <1>1, <1>4 DEF Done
  <2>2. handler[h] \in HandlerStates
    BY <1>1
  <2>3. /\ handler'[h].pc = "loop" /\ handler'[h].consumer = c + 1
        /\ handler'[h].transient = (handler[h].transient \/ b)
    BY <2>1, <2>2 DEF HandlerStates
  <2>4. ASSUME ~handler'[h].transient, NEW d \in Consumers, d < c + 1
        PROVE  d \in processed'
    <3>1. ~handler[h].transient /\ ~b
      BY <2>3, <2>4
    <3>2. d < c \/ d = c
      BY <2>4, MatchedAssumption DEF Consumers
    <3> QED BY <1>2, <1>4, <3>1, <3>2 DEF BehindIsProcessed
  <2> QED BY <2>3, <2>4 DEF InTransaction
<1>5. CASE Receive(h) \/ Answer(h) \/ HandlerDies(h)
  <2>1. SameTables
    BY <1>5 DEF Receive, Answer, HandlerDies, tables
  <2>2. \A g \in Handlers \ {h} : handler'[g] = handler[g]
    BY <1>1, <1>5 DEF Receive, Answer, HandlerDies
  <2>3. handler'[h].pc \in {"idle", "loop"} /\ handler'[h].consumer = 1
    <3>1. handler'[h] = Idle
            \/ \E m \in topic : handler'[h] = [Idle EXCEPT !.pc = "loop", !.copy = m]
      BY <1>1, <1>5 DEF Receive, Answer, HandlerDies
    <3>2. CASE handler'[h] = Idle
      BY <3>2 DEF Idle
    <3>3. ASSUME NEW m \in topic,
                 handler'[h] = [Idle EXCEPT !.pc = "loop", !.copy = m]
          PROVE  handler'[h].pc = "loop" /\ handler'[h].consumer = 1
      BY <3>3 DEF Idle
    <3> QED BY <3>1, <3>2, <3>3
  <2>4. HoldsRow' /\ BehindIsProcessed'
    BY <1>2, <2>1, <2>2, <2>3, OtherHandlers, MatchedAssumption
       DEF InTransaction, Consumers
  <2> QED BY <1>3, <2>1, <2>4 DEF Tables
<1>6. ASSUME NEW c \in Consumers, markProcessed(h, c) PROVE Tables'
  <2>1. SameTables /\ handler[h].consumer = c /\ handler[h].pc = "loop"
    BY <1>6 DEF markProcessed, tables
  <2>2. \A g \in Handlers \ {h} : handler'[g] = handler[g]
    BY <1>1, <1>6 DEF markProcessed, Done
  <2>3. CASE c \in processed
    <3>1. Done(h, FALSE)
      BY <1>6, <2>3 DEF markProcessed
    <3>2. HoldsRow' /\ BehindIsProcessed'
      BY <1>2, <1>4, <2>1, <2>2, <2>3, <3>1, OtherHandlers
    <3> QED BY <1>3, <2>1, <3>2 DEF Tables
  <2>4. CASE c \notin processed
    <3>1. handler' = [handler EXCEPT ![h].pc = "transaction"]
      BY <1>6, <2>4 DEF markProcessed
    <3>2. handler'[h] = [handler[h] EXCEPT !.pc = "transaction"]
      BY <1>1, <3>1
    <3>3. handler'[h].consumer = c /\ handler'[h].transient = handler[h].transient
      BY <1>1, <2>1, <3>2 DEF HandlerStates
    <3>4. \A g \in Handlers \ {h} : ~InTransaction(g, c)
      BY <1>6 DEF markProcessed, Unlocked
    <3>5. \A d \in Consumers : InTransaction(h, d)' => d = c
      BY <3>3 DEF InTransaction
    <3>6. ~handler'[h].transient =>
            \A d \in Consumers : d < handler'[h].consumer => d \in processed'
      BY <1>2, <2>1, <3>3 DEF BehindIsProcessed
    <3>7. HoldsRow' /\ BehindIsProcessed'
      BY <1>2, <2>1, <2>2, <2>4, <3>4, <3>5, <3>6, OtherHandlers
    <3> QED BY <1>3, <2>1, <3>7 DEF Tables
  <2> QED BY <2>3, <2>4
<1>7. ASSUME NEW c \in Consumers, Commit(h, c) PROVE Tables'
  <2>1. /\ InTransaction(h, c) /\ processed' = processed \cup {c} /\ dead' = dead
        /\ effects' = [effects EXCEPT ![c] = @ + 1]
    BY <1>7 DEF Commit
  <2>2. PICK b \in BOOLEAN : Done(h, b)
    BY <1>7 DEF Commit
  <2>3. \A g \in Handlers \ {h} : handler'[g] = handler[g]
    BY <1>1, <2>2 DEF Done
  <2>4. c \notin processed /\ \A g \in Handlers \ {h} : ~InTransaction(g, c)
    BY <1>2, <2>1 DEF HoldsRow
  <2>5. HoldsRow' /\ BehindIsProcessed'
    BY <1>2, <1>4, <2>1, <2>2, <2>3, <2>4, OtherHandlers DEF InTransaction
  <2>6. effects[c] = 0 /\ effects'[c] = 1
    BY <1>1, <1>2, <2>1, <2>4 DEF EffectIsMarked
  <2>7. \A d \in Consumers \ {c} : effects'[d] = effects[d]
    BY <1>1, <2>1
  <2>8. (EffectIsMarked /\ EffectAtMostOnce /\ MarkHasOutcome)'
    BY <1>1, <1>2, <2>1, <2>6, <2>7 DEF EffectIsMarked, EffectAtMostOnce, MarkHasOutcome
  <2> QED BY <2>5, <2>8 DEF Tables
<1>8. ASSUME NEW c \in Consumers, FailTransiently(h, c) PROVE Tables'
  <2>1. /\ SameTables /\ handler[h].consumer = c /\ handler[h].pc # "idle"
        /\ Done(h, TRUE)
    BY <1>8 DEF FailTransiently, tables
  <2>2. \A g \in Handlers \ {h} : handler'[g] = handler[g]
    BY <1>1, <2>1 DEF Done
  <2>3. HoldsRow' /\ BehindIsProcessed'
    BY <1>2, <1>4, <2>1, <2>2, OtherHandlers
  <2> QED BY <1>3, <2>1, <2>3 DEF Tables
<1>9. ASSUME NEW c \in Consumers, FailPermanently(h, c) PROVE Tables'
  <2>1. /\ SameTables /\ handler[h].consumer = c /\ handler[h].pc # "idle"
        /\ handler' = [handler EXCEPT ![h].pc = "failed"]
    BY <1>9 DEF FailPermanently, InTransaction, tables
  <2>2. \A g \in Handlers \ {h} : handler'[g] = handler[g]
    BY <1>1, <2>1
  <2>3. /\ handler'[h].pc = "failed" /\ handler'[h].consumer = c
        /\ handler'[h].transient = handler[h].transient
    BY <1>1, <2>1 DEF HandlerStates
  <2>4. HoldsRow' /\ BehindIsProcessed'
    BY <1>2, <2>1, <2>2, <2>3, OtherHandlers DEF InTransaction, BehindIsProcessed
  <2> QED BY <1>3, <2>1, <2>4 DEF Tables
<1>10. ASSUME NEW c \in Consumers, handleConsumerFailure(h, c) PROVE Tables'
  <2>1. /\ handler[h].consumer = c /\ handler[h].pc = "failed" /\ Done(h, FALSE)
        /\ processed' = processed \cup {c} /\ dead' = dead \cup {c}
        /\ effects' = effects /\ Unlocked(c)
    BY <1>10 DEF handleConsumerFailure, deadLetter
  <2>2. \A g \in Handlers \ {h} : handler'[g] = handler[g]
    BY <1>1, <2>1 DEF Done
  <2>3. \A g \in Handlers : ~InTransaction(g, c)
    BY <2>1 DEF Unlocked
  <2>4. HoldsRow' /\ BehindIsProcessed'
    <3>1. /\ \A d \in Consumers : ~InTransaction(h, d)'
          /\ handler'[h].pc # "idle" /\ ~handler'[h].transient =>
               \A d \in Consumers : d < handler'[h].consumer => d \in processed'
      BY <1>4, <2>1
    <3>2. \A d \in processed' \ processed, g \in Handlers \ {h} : ~InTransaction(g, d)
      BY <2>1, <2>3
    <3>3. processed \subseteq processed'
      BY <2>1
    <3> QED BY <1>2, <2>2, <3>1, <3>2, <3>3, OtherHandlers
  <2>5. (EffectIsMarked /\ EffectAtMostOnce /\ MarkHasOutcome)'
    BY <1>2, <2>1 DEF EffectIsMarked, EffectAtMostOnce, MarkHasOutcome
  <2> QED BY <2>4, <2>5 DEF Tables
<1> QED BY <1>5, <1>6, <1>7, <1>8, <1>9, <1>10 DEF HandlerStep
-----------------------------------------------------------------------------
(* The event is not lost on its way.                                       *)
LEMMA NotLostPreserved ==
  ASSUME TypeOK, BehindIsProcessed, PublishedIsNotLost, [Next]_vars
  PROVE  PublishedIsNotLost'
<1> DEFINE Out == row.status = "PUBLISHED" \/ \E p \in Publishers : publisher[p].pc = "published"
           Safe == topic # {} \/ parked # {} \/ processed = Consumers
<1>1. publisher \in [Publishers -> PublisherStates] /\ handler \in [Handlers -> HandlerStates]
        /\ row \in Rows /\ processed \subseteq Consumers /\ processed' \subseteq Consumers
  BY TypePreserved DEF TypeOK, PublisherStates, HandlerStates, Rows
<1>2. ASSUME NEW p \in Publishers, PublisherStep(p) \/ PublisherDies(p)
      PROVE  PublishedIsNotLost'
  <2>1. Safe => Safe'
    BY <1>2, PublisherFrame
  <2>2. CASE Publish(p)
    BY <2>2 DEF Publish, PublishedIsNotLost
  <2>3. CASE claimBatch(p) \/ MarkPublished(p) \/ markFailure(p)
               \/ PublisherDies(p)
    <3>1. Out' => Out
      BY <1>1, <2>3 DEF claimBatch, MarkPublished, markFailure,
         PublisherDies, Resting, Rows, PublisherStates
    <3> QED BY <2>1, <3>1 DEF PublishedIsNotLost
  <2> QED BY <1>2, <2>2, <2>3 DEF PublisherStep
<1>3. ASSUME NEW h \in Handlers, HandlerStep(h) \/ HandlerDies(h)
      PROVE  PublishedIsNotLost'
  <2>1. Out' => Out
    BY <1>3, HandlerFrame
  <2>2. Safe => Safe'
    <3>1. CASE Answer(h)
      <4>1. CASE handler[h].transient
        BY <1>3, <3>1, <4>1, HandlerFrame DEF Answer, tables
      <4>2. CASE ~handler[h].transient
        <5>1. handler[h].pc = "loop" /\ handler[h].consumer > Matched
          BY <3>1 DEF Answer
        <5>2. \A c \in Consumers : c < handler[h].consumer
          BY <1>1, <5>1, MatchedAssumption DEF Consumers, HandlerStates
        <5>3. processed = Consumers
          BY <1>1, <4>2, <5>1, <5>2 DEF BehindIsProcessed
        <5> QED BY <3>1, <5>3 DEF Answer, tables
      <4> QED BY <4>1, <4>2
    <3>2. CASE ~Answer(h)
      <4>1. topic' = topic /\ parked' = parked /\ processed \subseteq processed'
        BY <1>3, <3>2 DEF HandlerStep, HandlerDies, Receive, markProcessed, Commit,
           FailTransiently, FailPermanently, handleConsumerFailure, deadLetter,
           tables
      <4> QED BY <1>1, <4>1
    <3> QED BY <3>1, <3>2
  <2> QED BY <2>1, <2>2 DEF PublishedIsNotLost
<1>4. ASSUME NEW m \in Copies, GiveUp(m) PROVE PublishedIsNotLost'
  BY <1>4 DEF GiveUp, PublishedIsNotLost
<1>5. CASE Due
  BY <1>1, <1>5 DEF Due, PublishedIsNotLost, Rows, tables
<1>6. CASE UNCHANGED vars
  BY <1>6 DEF vars, outbox, tables, PublishedIsNotLost
<1> QED BY <1>2, <1>3, <1>4, <1>5, <1>6 DEF Next

LEMMA InvPreserved == DeliveryInv /\ [Next]_vars => DeliveryInv'
<1> SUFFICES ASSUME DeliveryInv, [Next]_vars PROVE DeliveryInv'
    OBVIOUS
<1>1. Tables /\ TypeOK /\ PublishedIsNotLost /\ BehindIsProcessed
  BY DEF Tables, DeliveryInv
<1>2. Tables'
  <2>1. ASSUME NEW h \in Handlers, HandlerStep(h) \/ HandlerDies(h) PROVE Tables'
    BY <1>1, <2>1, TablesPreserved
  <2>2. ASSUME NEW p \in Publishers, PublisherStep(p) \/ PublisherDies(p) PROVE Tables'
    BY <1>1, <2>2, PublisherFrame, TablesFrame
  <2>3. ASSUME NEW m \in Copies, GiveUp(m) PROVE Tables'
    BY <1>1, <2>3, TablesFrame DEF GiveUp, tables
  <2>4. CASE Due \/ UNCHANGED vars
    BY <1>1, <2>4, TablesFrame DEF Due, vars, tables
  <2> QED BY <2>1, <2>2, <2>3, <2>4 DEF Next
<1> QED BY <1>1, <1>2, TypePreserved, NotLostPreserved DEF Tables, DeliveryInv

(* For any publishers, handlers, consumers and attempts no event is lost,  *)
(* no effect is repeated and no mark stands for nothing (drain,            *)
(* processForConsumer, handleConsumerFailure).                             *)
THEOREM DeliveryIsSafe == Spec => []DeliveryInv
  BY InitInv, InvPreserved, PTL DEF Spec

(* However many publishers send the event and however many handlers have   *)
(* it at a time, a consumer's effect is committed at most once.            *)
THEOREM EffectOnce == Spec => []EffectAtMostOnce
<1>1. DeliveryInv => EffectAtMostOnce
  BY DEF DeliveryInv
<1> QED BY <1>1, DeliveryIsSafe, PTL

(* No crash leaves a mark behind without an effect or a dead letter.       *)
THEOREM MarksStand == Spec => []MarkHasOutcome
<1>1. DeliveryInv => MarkHasOutcome
  BY DEF DeliveryInv
<1> QED BY <1>1, DeliveryIsSafe, PTL

(* An event that counts as published reaches every consumer, or is still   *)
(* to be delivered, or is where an operator finds it.                      *)
THEOREM NothingIsLost == Spec => []PublishedIsNotLost
<1>1. DeliveryInv => PublishedIsNotLost
  BY DEF DeliveryInv
<1> QED BY <1>1, DeliveryIsSafe, PTL
=============================================================================
