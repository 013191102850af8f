------------------------- MODULE IdempotencyProofs -------------------------
(* IdempotencyInv is inductive, for every set of clients and fingerprints; *)
(* the three promises of the key follow.                                   *)
EXTENDS Idempotency, TLAPS

LEMMA InitInv == Init => IdempotencyInv
  BY DEF Init, IdempotencyInv, TypeOK, OneAtATime, ExecutedOnce, ReplaysMatch,
         WorkerHoldsRow, EffectIsRecorded, ResponseMatchesRow, Working,
         Requests, Idle, Row, NoRow, Mishaps, Without

(* What every step leaves as it was, or changes in a known way.            *)
LEMMA TypePreserved == TypeOK /\ [Next]_vars => TypeOK'
<1> SUFFICES ASSUME TypeOK, [Next]_vars PROVE TypeOK'
    OBVIOUS
<1> USE DEF TypeOK, Requests, Idle, At, Move, Note, Mishaps, Row, NoRow
<1>1. ASSUME NEW c \in Clients, Insert(c) PROVE TypeOK'
  <2>1. row' \in Row \cup {NoRow}
    <3>1. body[c] \in Bodies
      BY BodyAssumption
    <3>2. CASE row = NoRow
      <4>1. row' = [fingerprint |-> body[c], status |-> "IN_PROGRESS",
                    response |-> "NONE", lapsed |-> FALSE, expired |-> FALSE]
        BY <1>1, <3>2 DEF Insert
      <4>2. row' \in Row
        BY <3>1, <4>1
      <4> QED BY <4>2
    <3>3. CASE row # NoRow
      BY <1>1, <3>3 DEF Insert
    <3> QED BY <3>2, <3>3
  <2>2. request' \in [Clients -> Requests]
    BY <1>1 DEF Insert
  <2> QED BY <1>1, <2>1, <2>2 DEF Insert
<1>2. ASSUME NEW c \in Clients, Select(c) PROVE TypeOK'
  <2>1. request' \in [Clients -> Requests]
    <3>1. CASE row = NoRow
      BY <1>2, <3>1 DEF Select
    <3>2. CASE row # NoRow
      BY <1>2, <3>2 DEF Select
    <3> QED BY <3>1, <3>2
  <2>2. mishaps' \subseteq Mishaps
    BY <1>2 DEF Select
  <2> QED BY <1>2, <2>1, <2>2 DEF Select
<1>3. ASSUME NEW c \in Clients, TakeOver(c) PROVE TypeOK'
  <2>1. CASE Dead /\ ~row.expired
    <3>1. row \in Row
      BY <2>1 DEF Dead
    <3>2. row' \in Row
      BY <1>3, <2>1, <3>1 DEF TakeOver
    <3>3. request' \in [Clients -> Requests] /\ mishaps' \subseteq Mishaps
      BY <1>3, <2>1 DEF TakeOver
    <3> QED BY <1>3, <3>2, <3>3 DEF TakeOver
  <2>2. CASE ~(Dead /\ ~row.expired)
    BY <1>3, <2>2 DEF TakeOver
  <2> QED BY <2>1, <2>2
<1>4. ASSUME NEW c \in Clients, Execute(c) PROVE TypeOK'
      BY <1>4 DEF Execute
<1>5. ASSUME NEW c \in Clients, Fail(c) PROVE TypeOK'
      BY <1>5 DEF Fail
<1>6. ASSUME NEW c \in Clients, complete(c) PROVE TypeOK'
      BY <1>6, BodyAssumption DEF complete
<1>7. ASSUME NEW c \in Clients, release(c) PROVE TypeOK'
      BY <1>7 DEF release
<1>8. ASSUME NEW c \in Clients, Crash(c) PROVE TypeOK'
      BY <1>8 DEF Crash
<1>9. CASE Lapse
      BY <1>9 DEF Lapse
<1>10. CASE Expire
      BY <1>10 DEF Expire
<1>11. CASE purgeExpired
      BY <1>11 DEF purgeExpired
<1>12. CASE UNCHANGED vars
      BY <1>12 DEF vars
<1> QED
    BY <1>1, <1>2, <1>3, <1>4, <1>5, <1>6, <1>7, <1>8, <1>9, <1>10, <1>11, <1>12
    DEF Next, Handling

(* Whoever works holds the row, and is alone, after every step.            *)
LEMMA HoldPreserved ==
  ASSUME IdempotencyInv, [Next]_vars
  PROVE  WorkerHoldsRow' /\ OneAtATime'
<1>0. TypeOK /\ TypeOK'
  BY TypePreserved DEF IdempotencyInv
<1>1. mishaps \subseteq mishaps'
  BY DEF Next, vars, Handling, Insert, Select, TakeOver, Execute, Fail, complete,
         release, Crash, Lapse, Expire, purgeExpired, Note
<1>2. SUFFICES ASSUME Without({"outlived", "vanished", "purged"})'
               PROVE  /\ \A c \in Clients : Working(c)' =>
                           /\ row' # NoRow /\ row'.status = "IN_PROGRESS"
                           /\ ~row'.lapsed
                           /\ "replaced" \notin mishaps' =>
                                row'.fingerprint = body[c]
                      /\ \A c, d \in Clients : Working(c)' /\ Working(d)' => c = d
  BY DEF WorkerHoldsRow, OneAtATime, NoRow
<1>3. Without({"outlived", "vanished", "purged"})
  BY <1>1, <1>2 DEF Without
<1>4. /\ \A c \in Clients : Working(c) =>
           /\ row # NoRow /\ row.status = "IN_PROGRESS" /\ ~row.lapsed
           /\ "replaced" \notin mishaps => row.fingerprint = body[c]
      /\ \A c, d \in Clients : Working(c) /\ Working(d) => c = d
  BY <1>3 DEF IdempotencyInv, WorkerHoldsRow, OneAtATime
<1> DEFINE Goal ==
      /\ \A c \in Clients : Working(c)' =>
           /\ row' # NoRow /\ row'.status = "IN_PROGRESS" /\ ~row'.lapsed
           /\ "replaced" \notin mishaps' => row'.fingerprint = body[c]
      /\ \A c, d \in Clients : Working(c)' /\ Working(d)' => c = d
<1>5. ASSUME row' = row, \A c \in Clients : Working(c)' => Working(c)
      PROVE  Goal
  BY <1>1, <1>4, <1>5
<1>6. ASSUME \A c \in Clients : ~Working(c)'
      PROVE  Goal
  BY <1>6
<1>7. ASSUME NEW c \in Clients, Insert(c) PROVE Goal
  <2>1. CASE row = NoRow
    <3>1. \A d \in Clients : Working(d)' => d = c
      BY <1>0, <1>4, <1>7, <2>1 DEF Insert, Move, Working, TypeOK
    <3>2. row' = [fingerprint |-> body[c], status |-> "IN_PROGRESS",
                  response |-> "NONE", lapsed |-> FALSE, expired |-> FALSE]
      BY <1>7, <2>1 DEF Insert
    <3>3. row' # NoRow /\ row'.status = "IN_PROGRESS" /\ ~row'.lapsed
            /\ row'.fingerprint = body[c]
      BY <3>2 DEF NoRow
    <3> QED BY <3>1, <3>3
  <2>2. CASE row # NoRow
    <3>1. \A d \in Clients : Working(d)' => Working(d)
      BY <1>0, <1>7, <2>2 DEF Insert, Move, At, Working, TypeOK
    <3> QED BY <1>5, <1>7, <2>2, <3>1 DEF Insert
  <2> QED BY <2>1, <2>2
<1>8. ASSUME NEW c \in Clients, Select(c) PROVE Goal
  <2>1. row # NoRow
    BY <1>2, <1>8 DEF Select, Note, Without
  <2>2. \A d \in Clients : Working(d)' => Working(d)
    BY <1>0, <1>8, <2>1 DEF Select, Move, At, Working, TypeOK
  <2> QED BY <1>5, <1>8, <2>2 DEF Select
<1>9. ASSUME NEW c \in Clients, TakeOver(c) PROVE Goal
  <2>1. CASE Dead /\ ~row.expired
    <3>1. row \in Row /\ row.status = "IN_PROGRESS" /\ row.lapsed
      BY <1>0, <2>1 DEF Dead, TypeOK
    <3>2. \A d \in Clients : Working(d)' => d = c
      BY <1>0, <1>4, <1>9, <2>1, <3>1 DEF TakeOver, Move, Working, TypeOK
    <3>3. row' = [row EXCEPT !.lapsed = FALSE]
      BY <1>9, <2>1 DEF TakeOver
    <3>4. row' # NoRow /\ row'.status = "IN_PROGRESS" /\ ~row'.lapsed
            /\ row'.fingerprint = row.fingerprint
      BY <3>1, <3>3 DEF Row, NoRow
    <3>5. "replaced" \notin mishaps' => row.fingerprint = body[c]
      BY <1>9, <2>1 DEF TakeOver, Matches, Note
    <3> QED BY <3>2, <3>4, <3>5
  <2>2. CASE ~(Dead /\ ~row.expired)
    <3>1. \A d \in Clients : Working(d)' => Working(d)
      BY <1>0, <1>9, <2>2 DEF TakeOver, Move, At, Working, TypeOK
    <3> QED BY <1>5, <1>9, <2>2, <3>1 DEF TakeOver
  <2> QED BY <2>1, <2>2
<1>10. ASSUME NEW c \in Clients, Execute(c) \/ Fail(c) PROVE Goal
  <2>1. \A d \in Clients : Working(d)' => Working(d)
    BY <1>0, <1>10 DEF Execute, Fail, Move, At, Working, TypeOK
  <2> QED BY <1>5, <1>10, <2>1 DEF Execute, Fail
<1>11. ASSUME NEW c \in Clients, complete(c) \/ release(c) PROVE Goal
  <2>1. \A d \in Clients : ~Working(d)'
    BY <1>0, <1>4, <1>11 DEF complete, release, Move, At, Working, TypeOK
  <2> QED BY <1>6, <2>1
<1>12. ASSUME NEW c \in Clients, Crash(c) PROVE Goal
  <2>1. \A d \in Clients : Working(d)' => Working(d)
    BY <1>0, <1>12 DEF Crash, Move, At, Working, TypeOK
  <2> QED BY <1>5, <1>12, <2>1 DEF Crash
<1>13. CASE Lapse
  <2>1. \A d \in Clients : ~Working(d)
    BY <1>2, <1>13 DEF Lapse, Note, Without
  <2>2. \A d \in Clients : ~Working(d)'
    BY <1>13, <2>1 DEF Lapse, Working
  <2> QED BY <1>6, <2>2
<1>14. CASE Expire
  <2>1. row \in Row /\ row' = [row EXCEPT !.expired = TRUE] /\ mishaps' = mishaps
    BY <1>0, <1>14 DEF Expire, TypeOK
  <2>2. /\ row'.status = row.status /\ row'.lapsed = row.lapsed
        /\ row'.fingerprint = row.fingerprint /\ row' # NoRow
    BY <2>1 DEF Row, NoRow
  <2>3. \A d \in Clients : Working(d)' => Working(d)
    BY <1>14 DEF Expire, Working
  <2> QED BY <1>4, <2>1, <2>2, <2>3
<1>15. CASE purgeExpired
  BY <1>2, <1>15 DEF purgeExpired, Note, Without
<1>16. CASE UNCHANGED vars
  <2>1. \A d \in Clients : Working(d)' => Working(d)
    BY <1>16 DEF vars, Working
  <2> QED BY <1>5, <1>16, <2>1 DEF vars
<1> QED
  BY <1>7, <1>8, <1>9, <1>10, <1>11, <1>12, <1>13, <1>14, <1>15, <1>16
  DEF Next, Handling

(* An effect stays known to its request until the row knows it.            *)
LEMMA EffectPreserved ==
  ASSUME IdempotencyInv, [Next]_vars
  PROVE  EffectIsRecorded' /\ ExecutedOnce'
<1> DEFINE Recorded == \/ row # NoRow /\ row.status = "COMPLETED"
                       \/ \E c \in Clients : request[c].pc = "executed"
           Goal == /\ effect' # "again"
                   /\ effect' # "none" => Recorded'
<1>0. TypeOK /\ TypeOK'
  BY TypePreserved DEF IdempotencyInv
<1>1. mishaps \subseteq mishaps'
  BY DEF Next, vars, Handling, Insert, Select, TakeOver, Execute, Fail, complete,
         release, Crash, Lapse, Expire, purgeExpired, Note
<1>2. SUFFICES ASSUME mishaps' \subseteq {"replaced"} PROVE Goal
  BY DEF EffectIsRecorded, ExecutedOnce, NoRow
<1>3. mishaps \subseteq {"replaced"} /\ Without({"outlived", "vanished", "purged"})
  BY <1>1, <1>2 DEF Without
<1>4. /\ \A c \in Clients : Working(c) => row # NoRow /\ row.status = "IN_PROGRESS"
                                            /\ ~row.lapsed
      /\ \A c, d \in Clients : Working(c) /\ Working(d) => c = d
  BY <1>3 DEF IdempotencyInv, WorkerHoldsRow, OneAtATime
<1>5. effect # "again" /\ (effect # "none" => Recorded)
  BY <1>3 DEF IdempotencyInv, EffectIsRecorded, ExecutedOnce
<1>6. \A c \in Clients : request[c].pc = "executed" => Working(c)
  BY DEF Working
<1>7. ASSUME effect' = effect, row' = row,
             \A d \in Clients : request[d].pc = "executed" => request'[d].pc = "executed"
      PROVE  Goal
  BY <1>5, <1>7
<1>8. ASSUME effect' = effect, ~Recorded
      PROVE  Goal
  BY <1>5, <1>8
<1>9. ASSUME NEW c \in Clients, Insert(c) PROVE Goal
  <2>1. CASE row = NoRow
    <3>1. ~Recorded
      BY <1>4, <1>6, <2>1
    <3> QED BY <1>8, <1>9, <3>1 DEF Insert
  <2>2. CASE row # NoRow
    <3>1. \A d \in Clients : request[d].pc = "executed" => request'[d].pc = "executed"
      BY <1>0, <1>9, <2>2 DEF Insert, Move, TypeOK
    <3> QED BY <1>7, <1>9, <2>2, <3>1 DEF Insert
  <2> QED BY <2>1, <2>2
<1>10. ASSUME NEW c \in Clients, Select(c) PROVE Goal
  <2>1. \A d \in Clients : request[d].pc = "executed" => request'[d].pc = "executed"
    BY <1>0, <1>10 DEF Select, Move, TypeOK
  <2> QED BY <1>7, <1>10, <2>1 DEF Select
<1>11. ASSUME NEW c \in Clients, TakeOver(c) PROVE Goal
  <2>1. CASE Dead /\ ~row.expired
    <3>1. ~Recorded
      BY <1>4, <1>6, <2>1 DEF Dead
    <3> QED BY <1>8, <1>11, <3>1 DEF TakeOver
  <2>2. CASE ~(Dead /\ ~row.expired)
    <3>1. \A d \in Clients : request[d].pc = "executed" => request'[d].pc = "executed"
      BY <1>0, <1>11, <2>2 DEF TakeOver, Move, TypeOK
    <3> QED BY <1>7, <1>11, <2>2, <3>1 DEF TakeOver
  <2> QED BY <2>1, <2>2
<1>12. ASSUME NEW c \in Clients, Execute(c) PROVE Goal
  <2>1. ~Recorded
    BY <1>4, <1>6, <1>12 DEF Execute, Working
  <2>2. effect' = "once"
    BY <1>0, <1>5, <1>12, <2>1 DEF Execute, TypeOK
  <2>3. request'[c].pc = "executed"
    BY <1>0, <1>12 DEF Execute, Move, At, TypeOK
  <2> QED BY <2>2, <2>3
<1>13. ASSUME NEW c \in Clients, Fail(c) PROVE Goal
  <2>1. request[c].pc = "running"
    BY <1>2, <1>13 DEF Fail, Note
  <2>2. ~Recorded
    BY <1>4, <1>6, <2>1 DEF Working
  <2> QED BY <1>8, <1>13, <2>2 DEF Fail
<1>14. ASSUME NEW c \in Clients, complete(c) PROVE Goal
  <2>1. row \in Row
    BY <1>0, <1>4, <1>14 DEF complete, Working, TypeOK
  <2>2. row' = [row EXCEPT !.status = "COMPLETED", !.response = body[c]]
    BY <2>1, <1>14 DEF complete, Row, NoRow
  <2>3. row'.status = "COMPLETED" /\ row' # NoRow
    BY <2>1, <2>2 DEF Row, NoRow
  <2> QED BY <1>5, <1>14, <2>3 DEF complete
<1>15. ASSUME NEW c \in Clients, release(c) PROVE Goal
  <2>1. ~Recorded
    BY <1>4, <1>6, <1>15 DEF release, Working
  <2> QED BY <1>8, <1>15, <2>1 DEF release
<1>16. ASSUME NEW c \in Clients, Crash(c) PROVE Goal
  <2>1. request[c].pc # "executed"
    BY <1>2, <1>16 DEF Crash, Note
  <2>2. \A d \in Clients : request[d].pc = "executed" => request'[d].pc = "executed"
    BY <1>0, <1>16, <2>1 DEF Crash, Move, TypeOK
  <2> QED BY <1>7, <1>16, <2>2 DEF Crash
<1>17. CASE Lapse
  <2>1. \A d \in Clients : ~Working(d)
    BY <1>2, <1>17 DEF Lapse, Note, Without
  <2>2. ~Recorded
    BY <1>6, <1>17, <2>1 DEF Lapse
  <2> QED BY <1>8, <1>17, <2>2 DEF Lapse
<1>18. CASE Expire
  <2>1. row \in Row /\ row' = [row EXCEPT !.expired = TRUE]
    BY <1>0, <1>18 DEF Expire, TypeOK
  <2>2. row'.status = row.status /\ row' # NoRow
    BY <2>1 DEF Row, NoRow
  <2> QED BY <1>5, <1>18, <2>2 DEF Expire
<1>19. CASE purgeExpired
  BY <1>2, <1>19 DEF purgeExpired, Note
<1>20. CASE UNCHANGED vars
  BY <1>7, <1>20 DEF vars
<1> QED
  BY <1>9, <1>10, <1>11, <1>12, <1>13, <1>14, <1>15, <1>16, <1>17, <1>18, <1>19,
     <1>20
  DEF Next, Handling

(* A stored response and a replayed one belong to the fingerprint.         *)
LEMMA ReplayPreserved ==
  ASSUME IdempotencyInv, [Next]_vars
  PROVE  ResponseMatchesRow' /\ ReplaysMatch'
<1> DEFINE Stored == row # NoRow /\ row.status = "COMPLETED" =>
                       row.response = row.fingerprint
           Replayed == \A c \in Clients :
                         request[c].pc = "replayed" => request[c].answer = body[c]
           NewReplays == {c \in Clients : request'[c].pc = "replayed"
                                            /\ request'[c] # request[c]}
<1>0. TypeOK /\ TypeOK'
  BY TypePreserved DEF IdempotencyInv
<1>1. mishaps \subseteq mishaps'
  BY DEF Next, vars, Handling, Insert, Select, TakeOver, Execute, Fail, complete,
         release, Crash, Lapse, Expire, purgeExpired, Note
<1>2. SUFFICES ASSUME Without({"outlived", "vanished", "purged", "replaced"})'
               PROVE  Stored' /\ Replayed'
  BY DEF ResponseMatchesRow, ReplaysMatch, NoRow
<1>3. /\ Without({"outlived", "vanished", "purged", "replaced"})
      /\ Without({"outlived", "vanished", "purged"}) /\ "replaced" \notin mishaps
  BY <1>1, <1>2 DEF Without
<1>4. /\ \A c \in Clients : Working(c) =>
           row # NoRow /\ row.status = "IN_PROGRESS" /\ row.fingerprint = body[c]
      /\ Stored /\ Replayed
  BY <1>3 DEF IdempotencyInv, WorkerHoldsRow, ResponseMatchesRow, ReplaysMatch
<1>5. ASSUME NewReplays = {} PROVE Replayed'
  BY <1>4, <1>5
<1>6. ASSUME row' = NoRow \/ row'.status = "IN_PROGRESS" PROVE Stored'
  BY <1>6 DEF NoRow
<1>7. ASSUME NEW c \in Clients, Insert(c) PROVE Stored' /\ Replayed'
  <2>1. NewReplays = {}
    BY <1>0, <1>7 DEF Insert, Move, At, TypeOK
  <2>2. Stored'
    <3>1. CASE row = NoRow
      BY <1>6, <1>7, <3>1 DEF Insert
    <3>2. CASE row # NoRow
      BY <1>4, <1>7, <3>2 DEF Insert
    <3> QED BY <3>1, <3>2
  <2> QED BY <1>5, <2>1, <2>2
<1>8. ASSUME NEW c \in Clients, Select(c) PROVE Stored' /\ Replayed'
  <2>1. row # NoRow
    BY <1>2, <1>8 DEF Select, Note, Without
  <2>2. Stored'
    BY <1>4, <1>8 DEF Select
  <2>3. CASE Matches(c) /\ row.status = "COMPLETED"
    <3>1. row.response = body[c]
      BY <1>4, <2>1, <2>3 DEF Matches
    <3>2. request' = [request EXCEPT ![c] = [pc |-> "replayed", answer |-> row.response]]
      BY <1>8, <2>1, <2>3 DEF Select
    <3> QED BY <1>0, <1>4, <2>2, <3>1, <3>2 DEF TypeOK
  <2>4. CASE ~(Matches(c) /\ row.status = "COMPLETED")
    <3>1. NewReplays = {}
      BY <1>0, <1>8, <2>1, <2>4 DEF Select, Move, At, TypeOK
    <3> QED BY <1>5, <2>2, <3>1
  <2> QED BY <2>3, <2>4
<1>9. ASSUME NEW c \in Clients, TakeOver(c) PROVE Stored' /\ Replayed'
  <2>1. NewReplays = {}
    BY <1>0, <1>9 DEF TakeOver, Move, At, TypeOK
  <2>2. CASE Dead /\ ~row.expired
    <3>1. row \in Row /\ row.status = "IN_PROGRESS"
      BY <1>0, <2>2 DEF Dead, TypeOK
    <3>2. row' = [row EXCEPT !.lapsed = FALSE]
      BY <1>9, <2>2 DEF TakeOver
    <3>3. row'.status = "IN_PROGRESS"
      BY <3>1, <3>2 DEF Row
    <3> QED BY <1>5, <1>6, <2>1, <3>3
  <2>3. CASE ~(Dead /\ ~row.expired)
    BY <1>4, <1>5, <1>9, <2>1, <2>3 DEF TakeOver
  <2> QED BY <2>2, <2>3
<1>10. ASSUME NEW c \in Clients, Execute(c) \/ Fail(c) \/ Crash(c)
       PROVE  Stored' /\ Replayed'
  <2>1. NewReplays = {}
    BY <1>0, <1>10 DEF Execute, Fail, Crash, Move, At, TypeOK
  <2> QED BY <1>4, <1>5, <1>10, <2>1 DEF Execute, Fail, Crash
<1>11. ASSUME NEW c \in Clients, complete(c) PROVE Stored' /\ Replayed'
  <2>1. NewReplays = {}
    BY <1>0, <1>11 DEF complete, Move, At, TypeOK
  <2>2. row \in Row /\ row # NoRow /\ row.fingerprint = body[c]
    BY <1>0, <1>4, <1>11 DEF complete, Working, TypeOK
  <2>3. row' = [row EXCEPT !.status = "COMPLETED", !.response = body[c]]
    BY <2>2, <1>11 DEF complete
  <2>4. row'.response = row'.fingerprint
    BY <2>2, <2>3 DEF Row
  <2> QED BY <1>5, <2>1, <2>4
<1>12. ASSUME NEW c \in Clients, release(c) PROVE Stored' /\ Replayed'
  <2>1. NewReplays = {}
    BY <1>0, <1>12 DEF release, Move, At, TypeOK
  <2> QED BY <1>4, <1>5, <1>6, <1>12, <2>1 DEF release
<1>13. CASE Lapse \/ Expire \/ purgeExpired
  <2>1. NewReplays = {}
    BY <1>13 DEF Lapse, Expire, purgeExpired
  <2>2. CASE Lapse
    <3>1. row \in Row /\ row.status = "IN_PROGRESS" /\ row' = [row EXCEPT !.lapsed = TRUE]
      BY <1>0, <2>2 DEF Lapse, TypeOK
    <3>2. row'.status = "IN_PROGRESS"
      BY <3>1 DEF Row
    <3> QED BY <1>5, <1>6, <2>1, <3>2
  <2>3. CASE Expire
    <3>1. row \in Row /\ row # NoRow /\ row' = [row EXCEPT !.expired = TRUE]
      BY <1>0, <2>3 DEF Expire, TypeOK
    <3>2. /\ row'.status = row.status /\ row'.response = row.response
          /\ row'.fingerprint = row.fingerprint
      BY <3>1 DEF Row
    <3> QED BY <1>4, <1>5, <2>1, <3>1, <3>2
  <2>4. CASE purgeExpired
    BY <1>5, <1>6, <2>1, <2>4 DEF purgeExpired
  <2> QED BY <1>13, <2>2, <2>3, <2>4
<1>14. CASE UNCHANGED vars
  BY <1>4, <1>14 DEF vars
<1> QED
  BY <1>7, <1>8, <1>9, <1>10, <1>11, <1>12, <1>13, <1>14 DEF Next, Handling

LEMMA InvPreserved == IdempotencyInv /\ [Next]_vars => IdempotencyInv'
  BY TypePreserved, HoldPreserved, EffectPreserved, ReplayPreserved
  DEF IdempotencyInv

(* For any clients and bodies a key lets one request work at a time, has   *)
(* its effect once and replays its own answer (begin, complete, release).  *)
THEOREM KeysAreSafe == Spec => []IdempotencyInv
  BY InitInv, InvPreserved, PTL DEF Spec

(* No two requests handle the same command at a time, whoever fails, dies  *)
(* and takes over, as long as no request outlives its lease, loses the row *)
(* between INSERT and SELECT, or meets a purge.                            *)
THEOREM HandledAlone == Spec => []OneAtATime
<1>1. IdempotencyInv => OneAtATime
  BY DEF IdempotencyInv
<1> QED BY <1>1, KeysAreSafe, PTL

(* A command has its effect once unless the record of it was lost.         *)
THEOREM EffectOnce == Spec => []ExecutedOnce
<1>1. IdempotencyInv => ExecutedOnce
  BY DEF IdempotencyInv
<1> QED BY <1>1, KeysAreSafe, PTL

(* A replay answers the request that is made, not another one that used    *)
(* the same key.                                                           *)
THEOREM ReplayIsOwn == Spec => []ReplaysMatch
<1>1. IdempotencyInv => ReplaysMatch
  BY DEF IdempotencyInv
<1> QED BY <1>1, KeysAreSafe, PTL
=============================================================================
