-------------------------- MODULE MarketplaceProofs -------------------------
(* THE MARKETPLACE: of requests, matching, the hold of a booking's price,  *)
(* the service areas, the approval of providers, the accounts and the      *)
(* decision engine, for any number of requests, providers, operators and   *)
(* concurrent transactions.                                                *)
EXTENDS Matching, PaymentAuthorization, Intake, ServiceAreas, Onboarding,
        Identity, Solver, FiniteSetTheorems, WellFoundedInduction, TLAPS

(* THE MATCHING                                                            *)
(*                                                                         *)
(* No provider is promised twice, and no window is taken away under a      *)
(* booking that is being written, whatever the engine proposes.            *)
(*                                                                         *)
(* The invariant extends what is promised of the committed bookings to the *)
(* rows that open transactions have inserted: they overlap neither each    *)
(* other nor a committed one, and each lies in a window that its           *)
(* transaction keeps locked.                                               *)

(* The shape of the records of the matchers, as far as EXCEPT needs it.    *)
Fields == {"pc", "batch", "offers", "done", "plan", "hand", "placed", "held", "shared", "alone"}

Shaped == DOMAIN run = Matchers /\ \A m \in Matchers : DOMAIN run[m] = Fields

(* A window that m has locked covers the interval i.                       *)
Covered(m, i) == \E w \in run[m].held : w.provider = i.provider /\ Slots(i) \subseteq Slots(w)

(* What a transaction has inserted, and what it is about to insert.        *)
RowsInv(m) ==
  /\ run[m].pc \in Reads => run[m].placed = {} /\ run[m].held = {}
  /\ run[m].held \subseteq windows
  /\ \A b \in run[m].placed :
       /\ "cancelled" \in DOMAIN b /\ ~b.cancelled /\ Covered(m, b)
       /\ \A c \in run[m].placed : b # c => ~Overlap(b, c)
       /\ \A c \in bookings : ~c.cancelled => ~Overlap(b, c)
  /\ run[m].pc = "insert" =>
       Covered(m, run[m].hand) /\ \A c \in run[m].placed : ~Overlap(run[m].hand, c)

(* Open transactions exclude each other's rows.                            *)
ApartInv ==
  \A m, n \in Matchers : m # n =>
    \A b \in run[m].placed, c \in run[n].placed : ~Overlap(b, c)

(* NoDoubleBooking with the set of live bookings unfolded.                 *)
BookingsInv ==
  /\ \A b \in bookings : "cancelled" \in DOMAIN b
  /\ \A b, c \in bookings : ~b.cancelled /\ ~c.cancelled /\ b # c => ~Overlap(b, c)

MatchingInv == Shaped /\ (\A m \in Matchers : RowsInv(m)) /\ ApartInv /\ BookingsInv

-----------------------------------------------------------------------------
(* Two intervals overlap whichever is named first.                         *)
LEMMA OverlapSymmetric == ASSUME NEW i, NEW j PROVE Overlap(i, j) = Overlap(j, i)
<1>1. Slots(i) \cap Slots(j) = Slots(j) \cap Slots(i)
  OBVIOUS
<1> QED BY <1>1 DEF Overlap

(* A booking takes the time of what it was made from.                      *)
LEMMA BookingKeepsTime ==
  ASSUME NEW a, NEW r
  PROVE  /\ "cancelled" \in DOMAIN Booking(a, r) /\ ~Booking(a, r).cancelled
         /\ \A c : Overlap(Booking(a, r), c) = Overlap(a, c)
         /\ Booking(a, r).provider = a.provider
         /\ Slots(Booking(a, r)) = Slots(a)
<1>1. /\ Booking(a, r).provider = a.provider /\ Booking(a, r).from = a.from
      /\ Booking(a, r).to = a.to /\ Booking(a, r).cancelled = FALSE
      /\ "cancelled" \in DOMAIN Booking(a, r)
  BY DEF Booking
<1>2. Slots(Booking(a, r)) = Slots(a)
  BY <1>1 DEF Slots
<1> QED BY <1>1, <1>2 DEF Overlap

(* At first nothing is promised.                                           *)
LEMMA MatchingStarts == MatchingInit => MatchingInv
BY DEF MatchingInit, MatchingInv, Shaped, Fields, Idle, RowsInv, ApartInv, BookingsInv

(* A transaction that ends without a commit leaves no rows behind.         *)
LEMMA RollbackKeeps ==
  ASSUME MatchingInv, NEW m \in Matchers, Rollback(m), UNCHANGED <<windows, bookings>>
  PROVE  MatchingInv'
<1>1. /\ run'[m] = Idle /\ \A n \in Matchers \ {m} : run'[n] = run[n]
      /\ DOMAIN run' = Matchers
  BY DEF MatchingInv, Shaped, Rollback
<1>2. Idle.placed = {} /\ Idle.held = {} /\ Idle.pc = "idle" /\ DOMAIN Idle = Fields
  BY DEF Idle, Fields
<1>3. Shaped'
  BY <1>1, <1>2 DEF MatchingInv, Shaped
<1>4. \A n \in Matchers : RowsInv(n)'
  BY <1>1, <1>2 DEF MatchingInv, RowsInv, Covered
<1>5. ApartInv' /\ BookingsInv'
  BY <1>1, <1>2 DEF MatchingInv, ApartInv, BookingsInv
<1> QED BY <1>3, <1>4, <1>5 DEF MatchingInv

(* A step that leaves the rows and the locks of every transaction alone,   *)
(* and does not bring one to the point of inserting.                       *)
LEMMA QuietKeeps ==
  ASSUME MatchingInv, Shaped', UNCHANGED <<windows, bookings>>,
         \A n \in Matchers :
           /\ run'[n].placed = run[n].placed /\ run'[n].held = run[n].held
           /\ run'[n].pc = "insert" => run[n].pc = "insert" /\ run'[n].hand = run[n].hand
           /\ run'[n].pc \in Reads => run[n].pc \in Reads
  PROVE  MatchingInv'
<1>1. \A n \in Matchers : RowsInv(n)'
  BY DEF MatchingInv, RowsInv, Covered
<1>2. ApartInv' /\ BookingsInv'
  BY DEF MatchingInv, ApartInv, BookingsInv
<1> QED BY <1>1, <1>2 DEF MatchingInv

(* A transaction that opens has no rows yet.                               *)
LEMMA CommencesKeeps ==
  ASSUME MatchingInv, NEW m \in Matchers, NEW next, Commences(m, next),
         run[m].pc \in Reads, UNCHANGED <<windows, bookings>>,
         DOMAIN next = Fields, next.placed = {}, next.held = {},
         next.pc \notin Reads \cup {"insert"}
  PROVE  MatchingInv'
<1>1. /\ DOMAIN run' = Matchers
      /\ run'[m] = [next EXCEPT !.alone = (Writing = {})]
      /\ \A n \in Matchers \ {m} : run'[n] = [run[n] EXCEPT !.alone = (@ /\ n \notin Writing)]
  BY DEF Commences
<1>2. /\ DOMAIN run'[m] = Fields /\ run'[m].placed = {} /\ run'[m].held = {}
      /\ run'[m].pc = next.pc
  BY <1>1 DEF Fields
<1>3. \A n \in Matchers \ {m} :
        /\ DOMAIN run'[n] = Fields /\ run'[n].pc = run[n].pc /\ run'[n].hand = run[n].hand
        /\ run'[n].placed = run[n].placed /\ run'[n].held = run[n].held
  BY <1>1 DEF MatchingInv, Shaped, Fields
<1>4. Shaped'
  BY <1>1, <1>2, <1>3 DEF Shaped
<1>5. run[m].placed = {} /\ run[m].held = {}
  BY DEF MatchingInv, RowsInv
<1> QED
  <2>1. \A n \in Matchers :
           /\ run'[n].placed = run[n].placed /\ run'[n].held = run[n].held
           /\ run'[n].pc = "insert" => run[n].pc = "insert" /\ run'[n].hand = run[n].hand
           /\ run'[n].pc \in Reads => run[n].pc \in Reads
    BY <1>2, <1>3, <1>5
  <2> QED BY <1>4, <2>1, QuietKeeps
-----------------------------------------------------------------------------
(* One request of a batch is read: which one, and what then is known.      *)
Reading(m, B, pc, offers, r) ==
  /\ pc \in {"prepare", "decide"}
  /\ run' = [run EXCEPT ![m] = [Idle EXCEPT !.pc = pc, !.batch = B, !.offers = offers]]
  /\ r = Min(B \ DOMAIN run[m].offers)
  /\ DOMAIN offers = DOMAIN run[m].offers \cup {r}
  /\ offers[r] = findCandidates(r)
  /\ \A q \in DOMAIN run[m].offers \ {r} : offers[q] = run[m].offers[q]
  /\ pc = "decide" <=> DOMAIN offers = B

LEMMA PrepareReads ==
  ASSUME NEW m \in Matchers, NEW B, prepare(m, B)
  PROVE  \E pc, offers, r : Reading(m, B, pc, offers, r)
<1> DEFINE known == run[m].offers
           r == Min(B \ DOMAIN known)
           read == DOMAIN known \cup {r}
           news == [q \in read |-> IF q = r THEN findCandidates(r) ELSE known[q]]
           next == IF read = B THEN "decide" ELSE "prepare"
<1>1. run' = [run EXCEPT ![m] = [Idle EXCEPT !.pc = next, !.batch = B, !.offers = news]]
  BY Zenon DEF prepare
<1>2. /\ DOMAIN news = read /\ news[r] = findCandidates(r)
      /\ \A q \in DOMAIN known \ {r} : news[q] = known[q]
  OBVIOUS
<1>3. next \in {"prepare", "decide"} /\ (next = "decide" <=> DOMAIN news = B)
  BY <1>2
<1> HIDE DEF news, next
<1>4. Reading(m, B, next, news, r)
  BY <1>1, <1>2, <1>3 DEF Reading
<1> QED BY <1>3, <1>4

(* The steps of a batch up to its second transaction.                      *)
LEMMA PrepareKeeps ==
  ASSUME MatchingInv, NEW m \in Matchers, NEW B, prepare(m, B)
  PROVE  MatchingInv'
<1>1. PICK pc, offers, r : Reading(m, B, pc, offers, r)
  BY PrepareReads
<1> DEFINE next == [Idle EXCEPT !.pc = pc, !.batch = B, !.offers = offers]
<1>2. /\ next.pc = pc /\ next.placed = {} /\ next.held = {} /\ DOMAIN next = Fields
      /\ pc \in {"prepare", "decide"}
  BY <1>1 DEF Idle, Fields, Reading
<1>3. run' = [run EXCEPT ![m] = next]
  BY <1>1 DEF Reading
<1> HIDE DEF next
<1>4. run'[m] = next /\ (\A n \in Matchers \ {m} : run'[n] = run[n]) /\ DOMAIN run' = Matchers
  BY <1>3 DEF MatchingInv, Shaped
<1>5. Shaped'
  BY <1>2, <1>4 DEF MatchingInv, Shaped
<1>6. /\ run[m].pc \in {"idle", "prepare"} /\ windows' = windows /\ bookings' = bookings
  BY DEF prepare
<1>7. run[m].placed = {} /\ run[m].held = {}
  BY <1>6 DEF MatchingInv, RowsInv, Reads
<1>8. \A n \in Matchers :
        /\ run'[n].placed = run[n].placed /\ run'[n].held = run[n].held
        /\ run'[n].pc = "insert" => run[n].pc = "insert" /\ run'[n].hand = run[n].hand
        /\ run'[n].pc \in Reads => run[n].pc \in Reads
  BY <1>2, <1>4, <1>6, <1>7 DEF Reads
<1> QED BY <1>5, <1>6, <1>8, QuietKeeps

(* The plan is settled and the second transaction opens.                   *)
LEMMA DecideKeeps ==
  ASSUME MatchingInv, NEW m \in Matchers, decide(m)
  PROVE  MatchingInv'
<1>1. PICK plan : Commences(m, [run[m] EXCEPT !.pc = "verify", !.offers = <<>>,
                   !.plan = [r \in run[m].batch |->
                               IF verifyAssignment(m, r, plan[r]) THEN plan[r] ELSE None]])
  BY Zenon DEF decide
<1> DEFINE standing == [r \in run[m].batch |->
                        IF verifyAssignment(m, r, plan[r]) THEN plan[r] ELSE None]
           next == [run[m] EXCEPT !.pc = "verify", !.offers = <<>>, !.plan = standing]
<1> HIDE DEF standing
<1>2. DOMAIN run[m] = Fields /\ run[m].placed = {} /\ run[m].held = {} /\ run[m].pc = "decide"
  BY DEF decide, MatchingInv, Shaped, RowsInv, Reads
<1>3. DOMAIN next = Fields /\ next.placed = {} /\ next.held = {} /\ next.pc = "verify"
  BY <1>2 DEF Fields
<1>4. Commences(m, next)
  BY <1>1 DEF standing
<1> HIDE DEF next
<1> QED BY <1>2, <1>3, <1>4, CommencesKeeps DEF decide, Reads

(* A booking by hand opens its transaction.                                *)
LEMMA CreateKeeps ==
  ASSUME MatchingInv, NEW m \in Matchers, create(m)
  PROVE  MatchingInv'
<1>1. PICK w : Commences(m, [Idle EXCEPT !.pc = "book", !.hand = w])
  BY DEF create
<1> DEFINE next == [Idle EXCEPT !.pc = "book", !.hand = w]
<1>2. DOMAIN next = Fields /\ next.placed = {} /\ next.held = {} /\ next.pc = "book"
  BY DEF Idle, Fields
<1>3. Commences(m, next)
  BY <1>1
<1> HIDE DEF next
<1> QED BY <1>2, <1>3, CommencesKeeps DEF create, Reads

(* A request of the batch is looked at again.                              *)
LEMMA PersistKeeps ==
  ASSUME MatchingInv, NEW m \in Matchers, persist(m)
  PROVE  MatchingInv'
<1> DEFINE r == Asked(m)
           a == run[m].plan[r]
           shared == run[m].shared \cup (IF a # None THEN {a.provider} ELSE {})
<1>1. \/ Rollback(m)
      \/ run' = [run EXCEPT ![m].pc = "book", ![m].hand = a, ![m].shared = shared]
      \/ run' = [run EXCEPT ![m].pc = "record", ![m].hand = None, ![m].shared = shared]
  BY DEF persist
<1> HIDE DEF r, a, shared
<1>2. CASE Rollback(m)
  BY <1>2, RollbackKeeps DEF persist
<1>3. CASE \/ run' = [run EXCEPT ![m].pc = "book", ![m].hand = a, ![m].shared = shared]
           \/ run' = [run EXCEPT ![m].pc = "record", ![m].hand = None, ![m].shared = shared]
  <2>1. /\ DOMAIN run' = Matchers /\ \A n \in Matchers \ {m} : run'[n] = run[n]
        /\ DOMAIN run'[m] = Fields /\ run'[m].pc \in {"book", "record"}
        /\ run'[m].placed = run[m].placed /\ run'[m].held = run[m].held
    BY <1>3 DEF MatchingInv, Shaped, Fields
  <2>2. Shaped'
    BY <2>1 DEF MatchingInv, Shaped
  <2>3. \A n \in Matchers :
          /\ run'[n].placed = run[n].placed /\ run'[n].held = run[n].held
          /\ run'[n].pc = "insert" => run[n].pc = "insert" /\ run'[n].hand = run[n].hand
          /\ run'[n].pc \in Reads => run[n].pc \in Reads
    BY <2>1 DEF Reads
  <2> QED BY <2>2, <2>3, QuietKeeps DEF persist
<1> QED BY <1>1, <1>2, <1>3

(* The check finds a window that holds the time, and locks it.             *)
LEMMA CreateWithinKeeps ==
  ASSUME MatchingInv, NEW m \in Matchers, createWithin(m)
  PROVE  MatchingInv'
<1> DEFINE a == run[m].hand
           over == {w \in windows : w.provider = a.provider /\ Slots(a) \subseteq Slots(w)}
<1>1. \/ Rollback(m)
      \/ /\ run' = [run EXCEPT ![m].pc = "insert", ![m].held = @ \cup over]
         /\ over # {} /\ \A b \in run[m].placed : ~Overlap(a, b)
  BY DEF createWithin
<1>2. CASE Rollback(m)
  BY <1>2, RollbackKeeps DEF createWithin
<1>3. CASE /\ run' = [run EXCEPT ![m].pc = "insert", ![m].held = @ \cup over]
           /\ over # {} /\ \A b \in run[m].placed : ~Overlap(a, b)
  <2> HIDE DEF over
  <2>1. /\ DOMAIN run' = Matchers /\ \A n \in Matchers \ {m} : run'[n] = run[n]
        /\ DOMAIN run'[m] = Fields /\ run'[m].pc = "insert" /\ run'[m].hand = run[m].hand
        /\ run'[m].placed = run[m].placed /\ run'[m].held = run[m].held \cup over
    BY <1>3 DEF MatchingInv, Shaped, Fields
  <2>2. Shaped'
    BY <2>1 DEF MatchingInv, Shaped
  <2>3. windows' = windows /\ bookings' = bookings
    BY DEF createWithin
  <2>4. ASSUME NEW n \in Matchers, n # m PROVE RowsInv(n)'
    BY <2>1, <2>3, <2>4 DEF MatchingInv, RowsInv, Covered
  <2>5. RowsInv(m)'
    <3>1. run'[m].held \subseteq windows'
      BY <2>1, <2>3 DEF MatchingInv, RowsInv, over
    <3>2. Covered(m, run[m].hand)'
      BY <1>3, <2>1, <2>3 DEF Covered, over
    <3>3. \A b \in run[m].placed : Covered(m, b)'
      BY <2>1 DEF MatchingInv, RowsInv, Covered
    <3> QED BY <1>3, <2>1, <2>3, <3>1, <3>2, <3>3 DEF MatchingInv, RowsInv, Covered, Reads
  <2>6. ApartInv' /\ BookingsInv'
    BY <2>1, <2>3 DEF MatchingInv, ApartInv, BookingsInv
  <2> QED BY <2>2, <2>4, <2>5, <2>6 DEF MatchingInv
<1> QED BY <1>1, <1>2, <1>3

(* A row is inserted beside those of every open transaction and of the     *)
(* committed bookings.                                                     *)
LEMMA InsertedKeeps ==
  ASSUME MatchingInv, NEW m \in Matchers, Inserted(m)
  PROVE  MatchingInv'
<1> DEFINE b == Booking(run[m].hand, Asked(m))
<1>1. /\ run[m].pc = "insert" /\ windows' = windows /\ bookings' = bookings
      /\ \A n \in Writing \ {m} : \A c \in run[n].placed : ~Overlap(b, c)
  BY DEF Inserted, Excludes
<1>2. \/ Rollback(m)
      \/ /\ run' = [run EXCEPT ![m].pc = "record", ![m].placed = @ \cup {b}]
         /\ \A c \in Live : ~Overlap(b, c)
  BY DEF Inserted, Excludes
<1>3. /\ "cancelled" \in DOMAIN b /\ ~b.cancelled /\ b.provider = run[m].hand.provider /\ Slots(b) = Slots(run[m].hand)
      /\ \A c : Overlap(b, c) = Overlap(run[m].hand, c)
  BY BookingKeepsTime
<1> HIDE DEF b
<1>4. CASE Rollback(m)
  BY <1>1, <1>4, RollbackKeeps
<1>5. CASE /\ run' = [run EXCEPT ![m].pc = "record", ![m].placed = @ \cup {b}]
           /\ \A c \in Live : ~Overlap(b, c)
  <2>1. /\ DOMAIN run' = Matchers /\ \A n \in Matchers \ {m} : run'[n] = run[n]
        /\ DOMAIN run'[m] = Fields /\ run'[m].pc = "record" /\ run'[m].held = run[m].held
        /\ run'[m].placed = run[m].placed \cup {b}
    BY <1>5 DEF MatchingInv, Shaped, Fields
  <2>2. Shaped'
    BY <2>1 DEF MatchingInv, Shaped
  <2>3. ASSUME NEW n \in Matchers, n # m PROVE RowsInv(n)'
    BY <1>1, <2>1, <2>3 DEF MatchingInv, RowsInv, Covered
  <2>4. RowsInv(m)'
    <3>1. \A c \in run[m].placed : ~Overlap(b, c) /\ ~Overlap(c, b)
      BY <1>1, <1>3, OverlapSymmetric DEF MatchingInv, RowsInv
    <3>2. \A c \in bookings : ~c.cancelled => ~Overlap(b, c)
      BY <1>5 DEF Live
    <3>3. Covered(m, b)
      BY <1>1, <1>3 DEF MatchingInv, RowsInv, Covered
    <3>4. \A c \in run[m].placed \cup {b} : Covered(m, c)'
      BY <2>1, <3>3 DEF MatchingInv, RowsInv, Covered
    <3>5. \A c \in run[m].placed \cup {b} : "cancelled" \in DOMAIN c /\ ~c.cancelled
      BY <1>3 DEF MatchingInv, RowsInv
    <3>6. \A c, d \in run[m].placed \cup {b} : c # d => ~Overlap(c, d)
      BY <3>1 DEF MatchingInv, RowsInv
    <3>7. \A c \in run[m].placed \cup {b}, d \in bookings : ~d.cancelled => ~Overlap(c, d)
      BY <3>2 DEF MatchingInv, RowsInv
    <3> QED BY <1>1, <2>1, <3>4, <3>5, <3>6, <3>7 DEF MatchingInv, RowsInv, Reads
  <2>5. ApartInv'
    <3>1. ASSUME NEW n \in Matchers, n # m
          PROVE  \A c \in run[n].placed : ~Overlap(b, c) /\ ~Overlap(c, b)
      <4>1. CASE n \in Writing
        BY <1>1, <3>1, <4>1, OverlapSymmetric
      <4>2. CASE n \notin Writing
        BY <4>2 DEF Writing, MatchingInv, RowsInv
      <4> QED BY <4>1, <4>2
    <3> QED BY <2>1, <3>1 DEF MatchingInv, ApartInv
  <2>6. BookingsInv'
    BY <1>1 DEF MatchingInv, BookingsInv
  <2> QED BY <2>2, <2>3, <2>4, <2>5, <2>6 DEF MatchingInv
<1> QED BY <1>2, <1>4, <1>5

(* At the commit the rows join the bookings.                               *)
LEMMA RecordedKeeps ==
  ASSUME MatchingInv, NEW m \in Matchers, Recorded(m)
  PROVE  MatchingInv'
<1>1. /\ run[m].pc = "record" /\ windows' = windows
      /\ \/ run' = [run EXCEPT ![m].pc = "verify", ![m].done = @ \cup {Asked(m)}] /\ bookings' = bookings
         \/ run' = [run EXCEPT ![m] = Idle] /\ bookings' = bookings \cup run[m].placed
  BY DEF Recorded
<1>2. CASE run' = [run EXCEPT ![m].pc = "verify", ![m].done = @ \cup {Asked(m)}] /\ bookings' = bookings
  <2>1. /\ DOMAIN run' = Matchers /\ \A n \in Matchers \ {m} : run'[n] = run[n]
        /\ DOMAIN run'[m] = Fields /\ run'[m].pc = "verify"
        /\ run'[m].placed = run[m].placed /\ run'[m].held = run[m].held
    BY <1>2 DEF MatchingInv, Shaped, Fields
  <2>2. Shaped'
    BY <2>1 DEF MatchingInv, Shaped
  <2>3. \A n \in Matchers :
          /\ run'[n].placed = run[n].placed /\ run'[n].held = run[n].held
          /\ run'[n].pc = "insert" => run[n].pc = "insert" /\ run'[n].hand = run[n].hand
          /\ run'[n].pc \in Reads => run[n].pc \in Reads
    BY <2>1 DEF Reads
  <2> QED BY <1>1, <1>2, <2>2, <2>3, QuietKeeps
<1>3. CASE run' = [run EXCEPT ![m] = Idle] /\ bookings' = bookings \cup run[m].placed
  <2>1. /\ run'[m] = Idle /\ \A n \in Matchers \ {m} : run'[n] = run[n]
        /\ DOMAIN run' = Matchers
    BY <1>3 DEF MatchingInv, Shaped
  <2>2. Idle.placed = {} /\ Idle.held = {} /\ Idle.pc = "idle" /\ DOMAIN Idle = Fields
    BY DEF Idle, Fields
  <2>3. Shaped'
    BY <2>1, <2>2 DEF MatchingInv, Shaped
  <2>4. RowsInv(m)'
    BY <2>1, <2>2 DEF RowsInv
  <2>5. ASSUME NEW n \in Matchers, n # m PROVE RowsInv(n)'
    <3>1. \A c \in run[n].placed, d \in run[m].placed : ~Overlap(c, d)
      BY <2>5 DEF MatchingInv, ApartInv
    <3> QED BY <1>1, <1>3, <2>1, <2>5, <3>1 DEF MatchingInv, RowsInv, Covered
  <2>6. ApartInv'
    BY <2>1, <2>2 DEF MatchingInv, ApartInv
  <2>7. BookingsInv'
    <3>1. \A c \in run[m].placed, d \in bookings : ~d.cancelled => ~Overlap(c, d) /\ ~Overlap(d, c)
      BY OverlapSymmetric DEF MatchingInv, RowsInv
    <3>2. /\ \A c, d \in run[m].placed : c # d => ~Overlap(c, d)
          /\ \A c \in run[m].placed : "cancelled" \in DOMAIN c
      BY DEF MatchingInv, RowsInv
    <3> QED BY <1>3, <3>1, <3>2 DEF MatchingInv, BookingsInv
  <2> QED BY <2>3, <2>4, <2>5, <2>6, <2>7 DEF MatchingInv
<1> QED BY <1>1, <1>2, <1>3

(* A cancelled booking is in nobody's way.                                 *)
LEMMA CancelKeeps ==
  ASSUME MatchingInv, NEW b \in bookings, cancel(b)
  PROVE  MatchingInv'
<1>1. /\ bookings' = (bookings \ {b}) \cup {[b EXCEPT !.cancelled = TRUE]}
      /\ ~b.cancelled /\ run' = run /\ windows' = windows
  BY DEF cancel, Live
<1> DEFINE dropped == [b EXCEPT !.cancelled = TRUE]
<1>2. "cancelled" \in DOMAIN b
  BY DEF MatchingInv, BookingsInv
<1>3. dropped.cancelled = TRUE /\ DOMAIN dropped = DOMAIN b
  BY <1>2
<1> HIDE DEF dropped
<1>4. \A c \in bookings' : "cancelled" \in DOMAIN c /\ (~c.cancelled => c \in bookings)
  BY <1>1, <1>2, <1>3 DEF dropped, MatchingInv, BookingsInv
<1>5. Shaped' /\ ApartInv'
  BY <1>1 DEF MatchingInv, Shaped, ApartInv
<1>6. BookingsInv'
  BY <1>4 DEF MatchingInv, BookingsInv
<1>7. \A m \in Matchers : RowsInv(m)'
  BY <1>1, <1>4 DEF MatchingInv, RowsInv, Covered
<1> QED BY <1>5, <1>6, <1>7 DEF MatchingInv

(* What providers change, and requests that are stored.                    *)
LEMMA CalendarKeeps ==
  ASSUME MatchingInv,
         \/ \E r \in Requests : insert(r)
         \/ \E w \in windows : remove(w)
         \/ \E e \in Exceptions : addException(e)
         \/ \E p \in Providers : \E max \in Capacities[p] : update(p, max)
  PROVE  MatchingInv'
<1>1. run' = run /\ bookings' = bookings
  BY DEF insert, remove, addException, update
<1>2. \A n \in Matchers : run[n].held \subseteq windows'
  <2>1. CASE \E w \in windows : remove(w)
    <3>1. PICK w \in windows : remove(w)
      BY <2>1
    <3>2. windows' = windows \ {w} /\ \A n \in Writing : w \notin run[n].held
      BY <3>1 DEF remove
    <3>3. \A n \in Matchers : n \in Writing \/ run[n].held = {}
      BY DEF Writing, MatchingInv, RowsInv
    <3> QED BY <3>2, <3>3 DEF MatchingInv, RowsInv
  <2>2. CASE windows' = windows
    BY <2>2 DEF MatchingInv, RowsInv
  <2> QED BY <2>1, <2>2 DEF insert, addException, update
<1>3. \A n \in Matchers : RowsInv(n)'
  BY <1>1, <1>2 DEF MatchingInv, RowsInv, Covered
<1>4. Shaped' /\ ApartInv' /\ BookingsInv'
  BY <1>1 DEF MatchingInv, Shaped, ApartInv, BookingsInv
<1> QED BY <1>3, <1>4 DEF MatchingInv
-----------------------------------------------------------------------------
(* Every step keeps the invariant.                                         *)
LEMMA MatchingStep == MatchingInv /\ [MatchingNext]_matchingVars => MatchingInv'
<1> SUFFICES ASSUME MatchingInv, [MatchingNext]_matchingVars PROVE MatchingInv'
  OBVIOUS
<1>1. CASE UNCHANGED matchingVars
  <2>1. run' = run /\ bookings' = bookings /\ windows' = windows
    BY <1>1 DEF matchingVars
  <2> QED BY <2>1 DEF MatchingInv, Shaped, RowsInv, Covered, ApartInv, BookingsInv
<1>2. CASE \E m \in Matchers : \E B \in SUBSET Requests : prepare(m, B)
  BY <1>2, PrepareKeeps
<1>3. ASSUME NEW m \in Matchers PROVE decide(m) => MatchingInv'
  BY DecideKeeps
<1>4. ASSUME NEW m \in Matchers PROVE persist(m) => MatchingInv'
  BY PersistKeeps
<1>5. ASSUME NEW m \in Matchers PROVE create(m) => MatchingInv'
  BY CreateKeeps
<1>6. ASSUME NEW m \in Matchers PROVE createWithin(m) => MatchingInv'
  BY CreateWithinKeeps
<1>7. ASSUME NEW m \in Matchers PROVE Inserted(m) => MatchingInv'
  BY InsertedKeeps
<1>8. ASSUME NEW m \in Matchers PROVE Recorded(m) => MatchingInv'
  BY RecordedKeeps
<1>9. ASSUME NEW m \in Matchers PROVE Fails(m) => MatchingInv'
  BY RollbackKeeps DEF Fails
<1>10. CASE \E b \in bookings : cancel(b)
  BY <1>10, CancelKeeps
<1>11. CASE \/ \E r \in Requests : insert(r)
            \/ \E w \in windows : remove(w)
            \/ \E e \in Exceptions : addException(e)
            \/ \E p \in Providers : \E max \in Capacities[p] : update(p, max)
  BY <1>11, CalendarKeeps, SMTT(30)
<1> QED
  BY <1>1, <1>2, <1>3, <1>4, <1>5, <1>6, <1>7, <1>8, <1>9, <1>10, <1>11 DEF MatchingNext

(* A booking that a step adds lies in a window offered then.               *)
LEMMA FreshStep ==
  ASSUME MatchingInv, [MatchingNext]_matchingVars, NEW b \in bookings' \ bookings, ~b.cancelled
  PROVE  \E w \in windows' : w.provider = b.provider /\ Slots(b) \subseteq Slots(w)
<1>1. bookings' # bookings
  OBVIOUS
<1>2. CASE \E m \in Matchers : Recorded(m)
  <2>1. PICK m \in Matchers : Recorded(m)
    BY <1>2
  <2>2. windows' = windows /\ b \in run[m].placed
    BY <1>1, <2>1 DEF Recorded
  <2> QED BY <2>2 DEF MatchingInv, RowsInv, Covered
<1>3. CASE \E c \in bookings : cancel(c)
  <2>1. PICK c \in bookings : cancel(c)
    BY <1>3
  <2> DEFINE dropped == [c EXCEPT !.cancelled = TRUE]
  <2>2. b = dropped
    BY <2>1 DEF cancel
  <2>3. dropped.cancelled = TRUE
    BY DEF MatchingInv, BookingsInv
  <2> QED BY <2>2, <2>3
<1>4. CASE UNCHANGED bookings
  BY <1>1, <1>4
<1> QED
  BY <1>2, <1>3, <1>4 DEF MatchingNext, matchingVars, insert, prepare, decide, persist, create,
    createWithin, Inserted, Fails, remove, addException, update

(* The invariant holds whatever happens.                                   *)
LEMMA MatchingInvariance == MatchingSpec => []MatchingInv
BY MatchingStarts, MatchingStep, PTL DEF MatchingSpec

(* A provider is never promised to two customers at once (createWithin and *)
(* the exclusion constraint of bookings).                                  *)
THEOREM NobodyIsPromisedTwice == MatchingSpec => []NoDoubleBooking
<1>1. MatchingInv => NoDoubleBooking
  BY DEF MatchingInv, BookingsInv, NoDoubleBooking, Live
<1> QED BY <1>1, MatchingInvariance, PTL

(* A booking is written into a window that the provider offers at that     *)
(* moment: isAvailableLocked keeps the window from being removed.          *)
THEOREM BookingsFindTheirWindow == MatchingSpec => FreshAvailability
<1>1. MatchingInv /\ [MatchingNext]_matchingVars =>
        [\A b \in bookings' \ bookings : ~b.cancelled =>
           \E w \in windows' : w.provider = b.provider /\ Slots(b) \subseteq Slots(w)]_matchingVars
  BY FreshStep
<1> QED BY <1>1, MatchingInvariance, PTL DEF MatchingSpec, FreshAvailability
-----------------------------------------------------------------------------
(* THE BATCHES                                                             *)
(*                                                                         *)
(* What a batch leaves behind is as its requests were asked for, whatever  *)
(* the engine proposed; and when it meets no other, nobody is taken beyond *)
(* the capacity of a day.                                                  *)
(*                                                                         *)
(* A transaction has rows only for requests that it has locked, and a      *)
(* request that is locked is not matched yet.  What it is about to insert  *)
(* fits the request it is at.  Alone, it has counted every booking of the  *)
(* day, and holds the capacity that it compared them with.                 *)
Row ==
  [provider : Providers, from : Nat, to : Nat, request : Requests \cup {None}, cancelled : BOOLEAN]

IsSpot(a) == a # None /\ a.provider \in Providers /\ a.from \in Nat /\ a.to \in Nat

(* The time and the provider are such as r asks for.                       *)
Fits(a, r) ==
  /\ Demand[r].from <= a.from /\ a.to <= Demand[r].to /\ a.to - a.from = Demand[r].minutes
  /\ a.provider \in Demand[r].skilled

(* A row stands for some time, and for what its request asks for.          *)
RowOK(b) ==
  /\ b.from < b.to
  /\ b.request # None => Fits(b, b.request) /\ b.provider # Demand[b.request].customer

(* What an offer may say, and of which requests a batch has read it.       *)
OfferOK(r, offer) ==
  \A p \in DOMAIN offer :
    /\ p \in Providers
    /\ offer[p].free \subseteq Slots(Demand[r])
    /\ offer[p].count \in Nat /\ offer[p].max \in 1..10

OffersInv(m) ==
  /\ DOMAIN run[m].offers \in SUBSET run[m].batch
  /\ run[m].pc = "decide" <=> DOMAIN run[m].offers = run[m].batch
  /\ \A r \in DOMAIN run[m].offers : OfferOK(r, run[m].offers[r])

PlanInv(m) ==
  \A r \in run[m].batch : run[m].plan[r] # None => IsSpot(run[m].plan[r]) /\ Fits(run[m].plan[r], r)

HandInv(m) ==
  /\ IsSpot(run[m].hand)
  /\ run[m].batch # {} => Fits(run[m].hand, Asked(m))
  /\ run[m].pc = "insert" =>
       /\ run[m].hand.from < run[m].hand.to
       /\ run[m].batch # {} => run[m].hand.provider # Demand[Asked(m)].customer

(* The requests that m is through with, the one that it writes included.   *)
Through(m) == run[m].done \cup (IF run[m].pc = "record" THEN {Asked(m)} ELSE {})

PlacedInv(m) ==
  /\ run[m].placed \in SUBSET Row /\ IsFiniteSet(run[m].placed)
  /\ \A b \in run[m].placed :
       /\ RowOK(b)
       /\ IF run[m].batch = {} THEN b.request = None ELSE b.request \in Through(m)
  /\ \A b, c \in run[m].placed : b.request = c.request /\ b.request # None => b = c

JobInv(m) ==
  /\ run[m].pc \in Reads \cup {"verify", "book", "insert", "record"}
  /\ run[m].batch \in SUBSET Requests /\ run[m].done \in SUBSET run[m].batch
  /\ run[m].shared \in SUBSET Providers
  /\ run[m].pc \in Reads => run[m].done = {} /\ run[m].placed = {}
  /\ run[m].pc \in {"prepare", "decide", "verify"} => run[m].batch # {}
  /\ run[m].pc # "idle" /\ run[m].batch # {} => run[m].batch \ run[m].done # {}
  /\ run[m].pc = "idle" => DOMAIN run[m].offers = {}
  /\ run[m].pc \in {"prepare", "decide"} => OffersInv(m)
  /\ m \in Writing => PlanInv(m)
  /\ run[m].pc \in {"book", "insert"} => HandInv(m)
  /\ \A r \in Locked(m) : request[r] # "MATCHED"
  /\ PlacedInv(m)

(* Alone, m has taken nobody beyond the capacity, which it keeps locked.   *)
RoomInv(m) ==
  m \in Writing /\ run[m].alone =>
    /\ Writing \subseteq {m}
    /\ run[m].batch # {} =>
         /\ \A b \in run[m].placed : b.provider \in run[m].shared
         /\ (\A b \in run[m].placed : InDay(b)) =>
              \A b \in run[m].placed :
                Booked(Live \cup run[m].placed, b.provider, Day(b.from)) <= capacity[b.provider]
         /\ run[m].pc \in {"book", "insert"} =>
              /\ run[m].hand.provider \in run[m].shared
              /\ Booked(Live \cup run[m].placed, run[m].hand.provider, Day(Demand[Asked(m)].from))
                   < capacity[run[m].hand.provider]

(* No request is locked by two.                                            *)
LocksInv == \A m, n \in Matchers : m # n => Locked(m) \cap Locked(n) = {}

(* The committed bookings and the requests they were made for.             *)
WrittenInv ==
  /\ bookings \in SUBSET Row /\ IsFiniteSet(bookings)
  /\ \A b \in bookings : RowOK(b) /\ (b.request # None => request[b.request] = "MATCHED")
  /\ \A b, c \in bookings : b.request = c.request /\ b.request # None => b = c
  /\ \A r \in Requests : request[r] = "MATCHED" => \E b \in bookings : b.request = r

CalendarInv ==
  /\ request \in [Requests -> {"NONE", "CREATED", "MATCHED"}]
  /\ windows \in SUBSET Declared /\ closed \in SUBSET Exceptions
  /\ DOMAIN capacity = Providers /\ \A p \in Providers : capacity[p] \in Capacities[p]

BatchInv ==
  /\ MatchingInv
  /\ \A m \in Matchers : JobInv(m) /\ RoomInv(m)
  /\ LocksInv /\ WrittenInv /\ CalendarInv
-----------------------------------------------------------------------------
(* Some of the naturals are less than others.                              *)
Less == {p \in Nat \X Nat : p[1] < p[2]}

(* Of some naturals one is the least.                                      *)
LEMMA OneIsLeast ==
  ASSUME NEW S \in SUBSET Nat, S # {}
  PROVE  \E x \in S : \A y \in S : x <= y
<1>1. Less = OpToRel(<, Nat)
  BY DEF Less, OpToRel
<1>2. IsWellFoundedOn(Less, Nat)
  BY <1>1, NatLessThanWellFounded, Zenon
<1>3. PICK x \in S : \A y \in S : ~(<<y, x>> \in Less)
  BY <1>2, WFMin, Zenon
<1>4. ASSUME NEW y \in S PROVE x <= y
  <2>1. x \in Nat /\ y \in Nat /\ ~(<<y, x>> \in Less)
    BY <1>3
  <2>2. ~(y < x)
    BY <2>1 DEF Less
  <2> QED BY <2>1, <2>2
<1> QED BY <1>4

(* The least is one of them.                                               *)
LEMMA MinIsLeast ==
  ASSUME NEW S \in SUBSET Nat, S # {}
  PROVE  Min(S) \in S
BY OneIsLeast DEF Min

(* A batch that is under way is at a request that it is not through with.  *)
LEMMA AskedIsNext ==
  ASSUME NEW m, run[m].batch \in SUBSET Requests, run[m].batch \ run[m].done # {}
  PROVE  Asked(m) \in run[m].batch \ run[m].done /\ Asked(m) \in Requests /\ Asked(m) # None
<1>1. run[m].batch \ run[m].done \in SUBSET Nat
  BY MatchingAssumption
<1>2. Min(run[m].batch \ run[m].done) \in run[m].batch \ run[m].done
  BY <1>1, MinIsLeast
<1>3. run[m].batch # {}
  OBVIOUS
<1> QED BY <1>2, <1>3, MatchingAssumption DEF Asked

(* Fewer bookings are not more on any day; one more is at most one more.   *)
LEMMA FewerBooked ==
  ASSUME NEW B, IsFiniteSet(B), NEW C \in SUBSET B, NEW p, NEW d
  PROVE  Booked(C, p, d) \in Nat /\ Booked(B, p, d) \in Nat /\ Booked(C, p, d) <= Booked(B, p, d)
<1> DEFINE On(S) == {b \in S : b.provider = p /\ Day(b.from) = d}
<1>1. On(C) \subseteq On(B) /\ On(B) \subseteq B
  OBVIOUS
<1>2. IsFiniteSet(On(B)) /\ IsFiniteSet(On(C))
  BY <1>1, FS_Subset
<1> QED BY <1>1, <1>2, FS_Subset, FS_CardinalityType DEF Booked

(* One booking more is at most one more on a day, and none on another day. *)
LEMMA OneMoreBooked ==
  ASSUME NEW B, IsFiniteSet(B), NEW b, NEW p, NEW d
  PROVE  /\ Booked(B \cup {b}, p, d) \in Nat /\ Booked(B, p, d) \in Nat
         /\ Booked(B \cup {b}, p, d) <= Booked(B, p, d) + 1
         /\ ~(b.provider = p /\ Day(b.from) = d) => Booked(B \cup {b}, p, d) = Booked(B, p, d)
<1> DEFINE On(S) == {c \in S : c.provider = p /\ Day(c.from) = d}
<1>1. IsFiniteSet(On(B)) /\ Cardinality(On(B)) \in Nat
  BY FS_Subset, FS_CardinalityType
<1>4. Booked(B, p, d) = Cardinality(On(B)) /\ Booked(B \cup {b}, p, d) = Cardinality(On(B \cup {b}))
  BY DEF Booked
<1> HIDE DEF On
<1>2. CASE b.provider = p /\ Day(b.from) = d
  <2>1. On(B \cup {b}) = On(B) \cup {b}
    BY <1>2 DEF On
  <2>2. /\ IsFiniteSet(On(B) \cup {b})
        /\ Cardinality(On(B) \cup {b}) = Cardinality(On(B)) \/ Cardinality(On(B) \cup {b}) = Cardinality(On(B)) + 1
    BY <1>1, FS_AddElement
  <2>3. \/ Booked(B \cup {b}, p, d) = Booked(B, p, d)
        \/ Booked(B \cup {b}, p, d) = Booked(B, p, d) + 1
    BY <1>4, <2>1, <2>2
  <2>4. Booked(B, p, d) \in Nat
    BY <1>1, <1>4
  <2> QED BY <1>2, <2>3, <2>4
<1>3. CASE ~(b.provider = p /\ Day(b.from) = d)
  <2>1. On(B \cup {b}) = On(B)
    BY <1>3 DEF On
  <2> QED BY <1>1, <1>3, <1>4, <2>1
<1> QED BY <1>2, <1>3
-----------------------------------------------------------------------------
(* A matcher whose own state does not change, but for what it knows of     *)
(* others.                                                                 *)
Same(m) ==
  /\ run'[m].pc = run[m].pc /\ run'[m].batch = run[m].batch /\ run'[m].done = run[m].done
  /\ run'[m].offers = run[m].offers /\ run'[m].plan = run[m].plan /\ run'[m].hand = run[m].hand
  /\ run'[m].placed = run[m].placed /\ run'[m].shared = run[m].shared

(* Such a matcher keeps its invariant and its locks, if the requests that  *)
(* it has locked stay as they are.                                         *)
LEMMA OthersGoOn ==
  ASSUME NEW m \in Matchers, JobInv(m), Same(m), \A r \in Locked(m) : request'[r] = request[r]
  PROVE  JobInv(m)' /\ Locked(m)' = Locked(m)
<1>1. Asked(m)' = Asked(m)
  BY DEF Same, Asked
<1>2. Locked(m)' = Locked(m)
  BY <1>1 DEF Same, Locked
<1>3. PlacedInv(m)'
  BY <1>1 DEF Same, JobInv, PlacedInv, Through
<1>4. run'[m].pc \in {"prepare", "decide"} => OffersInv(m)'
  BY DEF Same, JobInv, OffersInv
<1>5. m \in Writing' => PlanInv(m)'
  BY DEF Same, JobInv, PlanInv, Writing
<1>6. run'[m].pc \in {"book", "insert"} => HandInv(m)'
  BY <1>1 DEF Same, JobInv, HandInv
<1> QED BY <1>1, <1>2, <1>3, <1>4, <1>5, <1>6 DEF Same, JobInv

(* One matcher takes a step that only it can tell.                         *)
LEMMA JobGoesOn ==
  ASSUME BatchInv, MatchingInv', NEW m \in Matchers,
         \A n \in Matchers \ {m} : run'[n] = run[n],
         UNCHANGED <<request, windows, closed, capacity, bookings>>,
         JobInv(m)', RoomInv(m)',
         \A r \in Locked(m)' : r \in Locked(m) \/ \A n \in Matchers \ {m} : r \notin Locked(n),
         m \in Writing \/ m \notin Writing'
  PROVE  BatchInv'
<1>1. ASSUME NEW n \in Matchers, n # m
      PROVE  JobInv(n)' /\ Locked(n)' = Locked(n)
  <2>1. Same(n)
    BY <1>1 DEF Same
  <2> QED BY <2>1, OthersGoOn DEF BatchInv
<1>2. LocksInv'
  BY <1>1 DEF BatchInv, LocksInv
<1>3. WrittenInv' /\ CalendarInv'
  BY DEF BatchInv, WrittenInv, CalendarInv
<1>4. ASSUME NEW n \in Matchers, n # m PROVE RoomInv(n)'
  <2>1. CASE m \in Writing
    BY <1>4, <2>1 DEF BatchInv, RoomInv, Writing
  <2>2. CASE m \notin Writing'
    <3>1. Writing' \subseteq Writing /\ run'[n] = run[n] /\ (n \in Writing' <=> n \in Writing)
      BY <1>4, <2>2 DEF Writing
    <3>2. Asked(n)' = Asked(n) /\ Live' = Live
      BY <3>1 DEF Asked, Live
    <3>3. RoomInv(n)
      BY DEF BatchInv
    <3> QED BY <3>1, <3>2, <3>3 DEF RoomInv, Booked
  <2> QED BY <2>1, <2>2
<1> QED BY <1>1, <1>2, <1>3, <1>4 DEF BatchInv

(* The shape of a matcher's record allows what EXCEPT says of it.          *)
LEMMA BatchStarts == MatchingInit => BatchInv
<1> SUFFICES ASSUME MatchingInit PROVE BatchInv
  OBVIOUS
<1>1. \A m \in Matchers : run[m] = Idle
  BY DEF MatchingInit
<1>2. /\ Idle.pc = "idle" /\ Idle.batch = {} /\ Idle.done = {} /\ Idle.placed = {} /\ Idle.shared = {}
      /\ DOMAIN Idle.offers = {}
  BY DEF Idle
<1>3. IsFiniteSet({})
  BY FS_EmptySet
<1>4. \A m \in Matchers : JobInv(m) /\ RoomInv(m) /\ Locked(m) = {}
  BY <1>1, <1>2, <1>3 DEF JobInv, PlacedInv, Locked, Writing, RoomInv, Reads
<1>5. LocksInv
  BY <1>4 DEF LocksInv
<1>6. WrittenInv
  BY <1>3 DEF WrittenInv, MatchingInit
<1>7. \A p \in Providers : Min(Capacities[p]) \in Capacities[p]
  <2> TAKE p \in Providers
  <2>1. Capacities[p] \in SUBSET Nat /\ Capacities[p] # {}
    BY MatchingAssumption
  <2> QED BY <2>1, MinIsLeast
<1>8. CalendarInv
  BY <1>7 DEF CalendarInv, MatchingInit
<1> QED BY <1>4, <1>5, <1>6, <1>8, MatchingStarts DEF BatchInv

(* A transaction that ends without a commit lets go of everything.         *)
LEMMA RollbackGoesOn ==
  ASSUME BatchInv, MatchingInv', NEW m \in Matchers, Rollback(m),
         UNCHANGED <<request, windows, closed, capacity, bookings>>
  PROVE  BatchInv'
<1>1. run'[m] = Idle /\ \A n \in Matchers \ {m} : run'[n] = run[n]
  BY DEF BatchInv, MatchingInv, Shaped, Rollback
<1>2. /\ Idle.pc = "idle" /\ Idle.batch = {} /\ Idle.done = {} /\ Idle.placed = {} /\ Idle.shared = {}
      /\ DOMAIN Idle.offers = {}
  BY DEF Idle
<1>3. m \notin Writing' /\ Locked(m)' = {}
  BY <1>1, <1>2 DEF Writing, Locked, Reads
<1>4. JobInv(m)' /\ RoomInv(m)'
  BY <1>1, <1>2, <1>3, FS_EmptySet DEF JobInv, PlacedInv, RoomInv, Reads
<1> QED BY <1>1, <1>3, <1>4, JobGoesOn
(* What the engine is told: time within what the customer asked for, and   *)
(* the capacity as it is.                                                  *)
LEMMA CandidatesAreFree ==
  ASSUME BatchInv, NEW r \in Requests
  PROVE  OfferOK(r, findCandidates(r))
<1> SUFFICES ASSUME NEW p \in DOMAIN findCandidates(r)
             PROVE  /\ p \in Providers
                    /\ findCandidates(r)[p].free \subseteq Slots(Demand[r])
                    /\ findCandidates(r)[p].count \in Nat /\ findCandidates(r)[p].max \in 1..10
  BY DEF OfferOK
<1>1. /\ p \in Providers
      /\ findCandidates(r)[p] =
           [free |-> Free(p, r), count |-> Booked(Live, p, Day(Demand[r].from)), max |-> capacity[p]]
  BY DEF findCandidates
<1>2. Free(p, r) \subseteq Slots(Demand[r])
  BY DEF Free
<1>3. Booked(Live, p, Day(Demand[r].from)) \in Nat
  <2>1. Live \subseteq bookings /\ IsFiniteSet(bookings)
    BY DEF Live, BatchInv, WrittenInv
  <2> QED BY <2>1, FewerBooked
<1>4. capacity[p] \in 1..10
  BY <1>1, MatchingAssumption DEF BatchInv, CalendarInv
<1> QED BY <1>1, <1>2, <1>3, <1>4

(* One request of a batch is read.                                         *)
LEMMA PrepareGoesOn ==
  ASSUME BatchInv, MatchingInv', NEW m \in Matchers, NEW B \in SUBSET Requests, prepare(m, B)
  PROVE  BatchInv'
<1> DEFINE known == run[m].offers
<1> PICK pc, offers, r : Reading(m, B, pc, offers, r)
  BY PrepareReads
<1>1. /\ r = Min(B \ DOMAIN known)
      /\ DOMAIN offers = DOMAIN known \cup {r} /\ offers[r] = findCandidates(r)
      /\ \A q \in DOMAIN known \ {r} : offers[q] = known[q]
      /\ pc \in {"prepare", "decide"} /\ (pc = "decide" <=> DOMAIN offers = B)
  BY DEF Reading
<1>2. /\ (run[m].pc = "idle" /\ B # {}) \/ (run[m].pc = "prepare" /\ B = run[m].batch)
      /\ request[r] = "CREATED" /\ \A n \in Matchers \ {m} : r \notin Locked(n)
      /\ UNCHANGED <<request, windows, closed, capacity, bookings>>
  <2>1. /\ request[Min(B \ DOMAIN known)] = "CREATED"
        /\ \A n \in Matchers \ {m} : Min(B \ DOMAIN known) \notin Locked(n)
        /\ (run[m].pc = "idle" /\ B # {}) \/ (run[m].pc = "prepare" /\ B = run[m].batch)
        /\ UNCHANGED <<request, windows, closed, capacity, bookings>>
    BY Zenon DEF prepare
  <2> HIDE DEF known
  <2> QED BY <1>1, <2>1
<1>3. /\ \A n \in Matchers \ {m} : run'[n] = run[n]
      /\ run'[m].pc = pc /\ run'[m].batch = B /\ run'[m].offers = offers
      /\ run'[m].done = {} /\ run'[m].placed = {} /\ run'[m].shared = {}
  <2>1. run' = [run EXCEPT ![m] = [Idle EXCEPT !.pc = pc, !.batch = B, !.offers = offers]]
    BY DEF Reading
  <2> QED BY <2>1 DEF BatchInv, MatchingInv, Shaped, Idle
<1>4. /\ JobInv(m) /\ DOMAIN known \in SUBSET B /\ DOMAIN known # B /\ B # {}
      /\ \A q \in DOMAIN known : OfferOK(q, known[q]) /\ q \in Locked(m)
  BY <1>2 DEF BatchInv, JobInv, OffersInv, Locked
<1>5. r \in B /\ r \in Requests
  <2>1. (B \ DOMAIN known) \in SUBSET Nat /\ B \ DOMAIN known # {}
    BY <1>4, MatchingAssumption
  <2> QED BY <1>1, <2>1, MinIsLeast
<1>6. OffersInv(m)'
  <2>1. \A q \in DOMAIN offers : OfferOK(q, offers[q])
    BY <1>1, <1>4, <1>5, CandidatesAreFree
  <2> QED BY <1>1, <1>3, <1>4, <1>5, <2>1 DEF OffersInv
<1>7. m \notin Writing' /\ Locked(m)' \subseteq Locked(m) \cup {r}
  BY <1>1, <1>3, <1>4 DEF Writing, Reads, Locked
<1>8. \A q \in Locked(m)' : request'[q] # "MATCHED"
  BY <1>2, <1>4, <1>7 DEF JobInv
<1>9. PlacedInv(m)'
  BY <1>3, FS_EmptySet DEF PlacedInv
<1>10. JobInv(m)' /\ RoomInv(m)'
  <2>1. run'[m].batch \in SUBSET Requests /\ run'[m].batch \ run'[m].done # {}
    BY <1>3, <1>4
  <2>2. /\ run'[m].pc \in Reads /\ run'[m].pc \in {"prepare", "decide"}
        /\ run'[m].shared = {} /\ run'[m].done = {} /\ run'[m].placed = {}
    BY <1>1, <1>3 DEF Reads
  <2>3. RoomInv(m)'
    BY <1>7 DEF RoomInv
  <2> QED BY <1>6, <1>7, <1>8, <1>9, <2>1, <2>2, <2>3 DEF JobInv
<1> QED BY <1>1, <1>2, <1>3, <1>7, <1>10, JobGoesOn

(* A transaction that opens: alone, if no other is open.                   *)
LEMMA Commenced ==
  ASSUME BatchInv, NEW m \in Matchers, NEW next, Commences(m, next), DOMAIN next = Fields
  PROVE  /\ run'[m].pc = next.pc /\ run'[m].batch = next.batch /\ run'[m].done = next.done
         /\ run'[m].plan = next.plan /\ run'[m].hand = next.hand
         /\ run'[m].placed = next.placed /\ run'[m].shared = next.shared
         /\ run'[m].alone => Writing = {}
         /\ \A n \in Matchers \ {m} : Same(n) /\ (run'[n].alone => n \notin Writing)
<1>1. /\ run'[m] = [next EXCEPT !.alone = (Writing = {})]
      /\ \A n \in Matchers \ {m} : run'[n] = [run[n] EXCEPT !.alone = (@ /\ n \notin Writing)]
  BY DEF Commences
<1>2. \A n \in Matchers : DOMAIN run[n] = Fields
  BY DEF BatchInv, MatchingInv, Shaped
<1>3. ASSUME NEW n \in Matchers \ {m} PROVE Same(n) /\ (run'[n].alone => n \notin Writing)
  <2>2. PICK a : a = (run[n].alone /\ n \notin Writing)
    OBVIOUS
  <2>5. run'[n] = [run[n] EXCEPT !.alone = a]
    BY <1>1, <2>2, Zenon
  <2>1. Same(n)
    BY <1>2, <2>5 DEF Same, Fields
  <2>3. run'[n].alone = a
    BY <1>2, <2>5 DEF Fields
  <2>4. a => n \notin Writing
    BY <2>2, Zenon
  <2> QED BY <2>1, <2>3, <2>4
<1> QED BY <1>1, <1>3 DEF Fields

(* The others know that they are no longer alone, and nothing else has     *)
(* changed.                                                                *)
LEMMA CommencesGoesOn ==
  ASSUME BatchInv, MatchingInv', NEW m \in Matchers, NEW next, Commences(m, next), DOMAIN next = Fields,
         run[m].pc \in Reads, next.placed = {}, next.done = {},
         next.pc = "verify" \/ (next.pc = "book" /\ next.batch = {}),
         UNCHANGED <<request, windows, closed, capacity, bookings>>, JobInv(m)'
  PROVE  BatchInv'
<1>1. /\ run'[m].pc = next.pc /\ run'[m].batch = next.batch /\ run'[m].done = {} /\ run'[m].placed = {}
      /\ run'[m].alone => Writing = {}
      /\ \A n \in Matchers \ {m} : Same(n) /\ (run'[n].alone => n \notin Writing)
  BY Commenced
<1>2. \A n \in Matchers \ {m} : JobInv(n)' /\ Locked(n)' = Locked(n)
  BY <1>1, OthersGoOn DEF BatchInv
<1>3. Locked(m)' = {}
  BY <1>1 DEF Locked, Asked
<1>4. LocksInv'
  BY <1>2, <1>3 DEF BatchInv, LocksInv
<1>5. \A n \in Matchers \ {m} : n \in Writing' <=> n \in Writing
  BY <1>1 DEF Same, Writing
<1>6. RoomInv(m)'
  <2>1. run'[m].alone => Writing' \subseteq {m}
    BY <1>1, <1>5 DEF Writing
  <2> QED BY <1>1, <2>1 DEF RoomInv
<1>7. \A n \in Matchers \ {m} : RoomInv(n)'
  BY <1>1, <1>5 DEF RoomInv
<1>8. WrittenInv' /\ CalendarInv'
  BY DEF BatchInv, WrittenInv, CalendarInv
<1> QED BY <1>2, <1>4, <1>6, <1>7, <1>8 DEF BatchInv
(* What stands of a plan fits the request it is for.                       *)
LEMMA VerifiedFits ==
  ASSUME BatchInv, NEW m \in Matchers, run[m].pc = "decide", NEW r \in run[m].batch,
         NEW a, IsSpot(a), verifyAssignment(m, r, a)
  PROVE  Fits(a, r)
<1>1. JobInv(m)
  BY DEF BatchInv
<1>2. r \in Requests /\ a.provider \in Demand[r].skilled /\ a.to - a.from = Demand[r].minutes
  BY <1>1 DEF JobInv, verifyAssignment, Eligible
<1>3. Slots(a) \subseteq Slots(Demand[r])
  BY <1>1 DEF JobInv, OffersInv, verifyAssignment, Eligible, OfferOK
<1>4. /\ a.from \in Nat /\ a.to \in Nat
      /\ Demand[r].from \in Nat /\ Demand[r].to \in Nat /\ Demand[r].minutes \in Nat \ {0}
  BY <1>2, MatchingAssumption DEF IsSpot
<1>5. a.from \in Slots(a) /\ a.to - 1 \in Slots(a)
  BY <1>2, <1>4 DEF Slots
<1>6. a.from \in Slots(Demand[r]) /\ a.to - 1 \in Slots(Demand[r])
  BY <1>3, <1>5
<1> QED BY <1>2, <1>4, <1>6 DEF Fits, Slots

(* Whatever is planned has a provider and a time.                          *)
LEMMA PlansAreSpots ==
  ASSUME BatchInv, NEW m \in Matchers, run[m].pc = "decide", NEW plan \in PlansFor(m),
         NEW r \in run[m].batch, plan[r] # None
  PROVE  IsSpot(plan[r])
<1>1. CASE plan \in [run[m].batch -> Proposals \cup {None}]
  <2>1. plan[r] \in Proposals
    BY <1>1
  <2> QED BY <2>1, MatchingAssumption DEF IsSpot
<1>2. CASE plan \in fallback(m)
  <2>1. PICK q : q \in run[m].batch /\ plan[r] \in Places(m, q)
    <3> DEFINE places(q) == Places(m, q)
    <3>1. plan \in [run[m].batch -> {None} \cup UNION {places(q) : q \in run[m].batch}]
      BY <1>2 DEF fallback
    <3> HIDE DEF places
    <3>2. \E q \in run[m].batch : plan[r] \in places(q)
      BY <3>1
    <3> QED BY <3>2 DEF places
  <2>2. PICK p \in Eligible(m, q) : \E t \in StartSlots(run[m].offers[q][p].free, Demand[q].minutes) :
          plan[r] = [provider |-> p, from |-> t, to |-> t + Demand[q].minutes]
    BY <2>1 DEF Places
  <2> PICK t \in StartSlots(run[m].offers[q][p].free, Demand[q].minutes) :
             plan[r] = [provider |-> p, from |-> t, to |-> t + Demand[q].minutes]
    BY <2>2
  <2>3. q \in Requests /\ p \in Providers /\ run[m].offers[q][p].free \subseteq Slots(Demand[q])
    BY <2>1, <2>2 DEF BatchInv, JobInv, OffersInv, Eligible, OfferOK
  <2>4. Demand[q].from \in Nat /\ Demand[q].to \in Nat /\ Demand[q].minutes \in Nat
    BY <2>3, MatchingAssumption
  <2>5. t \in Nat /\ t + Demand[q].minutes \in Nat
    BY <2>2, <2>3, <2>4 DEF StartSlots, Slots
  <2> QED BY <2>2, <2>3, <2>5 DEF IsSpot
<1> QED BY <1>1, <1>2 DEF PlansFor

(* What has been planned is settled.                                       *)
LEMMA DecideGoesOn ==
  ASSUME BatchInv, MatchingInv', NEW m \in Matchers, decide(m)
  PROVE  BatchInv'
<1>1. PICK plan \in PlansFor(m) : Commences(m, [run[m] EXCEPT !.pc = "verify", !.offers = <<>>,
                   !.plan = [r \in run[m].batch |->
                               IF verifyAssignment(m, r, plan[r]) THEN plan[r] ELSE None]])
  BY DEF decide
<1>2. PICK standing : standing = [r \in run[m].batch |->
                               IF verifyAssignment(m, r, plan[r]) THEN plan[r] ELSE None]
  OBVIOUS
<1>3. PICK next : next = [run[m] EXCEPT !.pc = "verify", !.offers = <<>>, !.plan = standing]
  OBVIOUS
<1>4. Commences(m, next)
  BY <1>1, <1>2, <1>3
<1>5. JobInv(m) /\ DOMAIN run[m] = Fields /\ run[m].pc = "decide"
  BY DEF BatchInv, MatchingInv, Shaped, decide
<1>6. /\ DOMAIN next = Fields /\ next.pc = "verify" /\ next.batch = run[m].batch
      /\ next.done = {} /\ next.placed = {} /\ next.plan = standing /\ next.shared = run[m].shared
  BY <1>3, <1>5 DEF Fields, JobInv
<1>7. /\ run'[m].pc = "verify" /\ run'[m].batch = run[m].batch /\ run'[m].done = {}
      /\ run'[m].placed = {} /\ run'[m].plan = standing /\ run'[m].shared = run[m].shared
  BY <1>4, <1>6, Commenced
<1>8. PlanInv(m)'
  <2>1. ASSUME NEW r \in run[m].batch, standing[r] # None PROVE IsSpot(standing[r]) /\ Fits(standing[r], r)
    <3>1. standing[r] = plan[r] /\ verifyAssignment(m, r, plan[r])
      BY <1>2, <2>1
    <3>2. IsSpot(plan[r])
      BY <1>5, <2>1, <3>1, PlansAreSpots
    <3> QED BY <1>5, <3>1, <3>2, VerifiedFits
  <2> QED BY <1>7, <2>1 DEF PlanInv
<1>9. JobInv(m)'
  BY <1>5, <1>7, <1>8, FS_EmptySet DEF JobInv, PlacedInv, Locked
<1> QED BY <1>4, <1>5, <1>6, <1>9, CommencesGoesOn DEF decide, Reads

(* Somebody books by hand.                                                 *)
LEMMA CreateGoesOn ==
  ASSUME BatchInv, MatchingInv', NEW m \in Matchers, create(m)
  PROVE  BatchInv'
<1>1. PICK w \in Wishes : Commences(m, [Idle EXCEPT !.pc = "book", !.hand = w])
  BY DEF create
<1>2. PICK next : next = [Idle EXCEPT !.pc = "book", !.hand = w]
  OBVIOUS
<1>3. /\ DOMAIN next = Fields /\ next.pc = "book" /\ next.batch = {} /\ next.hand = w
      /\ next.done = {} /\ next.placed = {} /\ next.shared = {}
  BY <1>2 DEF Idle, Fields
<1>4. Commences(m, next)
  BY <1>1, <1>2
<1>5. /\ run'[m].pc = "book" /\ run'[m].batch = {} /\ run'[m].done = {} /\ run'[m].hand = w
      /\ run'[m].placed = {} /\ run'[m].shared = {}
  BY <1>3, <1>4, Commenced
<1>6. PlanInv(m)' /\ HandInv(m)'
  BY <1>5, MatchingAssumption DEF PlanInv, HandInv, IsSpot
<1>7. JobInv(m)'
  BY <1>5, <1>6, FS_EmptySet DEF JobInv, PlacedInv, Locked, Asked
<1> QED BY <1>3, <1>4, <1>7, CommencesGoesOn DEF create, Reads
(* The request is locked, and its provider too: the count of the day is    *)
(* below the capacity.                                                     *)
LEMMA PersistGoesOn ==
  ASSUME BatchInv, MatchingInv', NEW m \in Matchers, persist(m)
  PROVE  BatchInv'
<1>1. PICK r, a, S :
        /\ r = Asked(m) /\ a = run[m].plan[r]
        /\ S = run[m].shared \cup (IF a # None THEN {a.provider} ELSE {})
  OBVIOUS
<1>2. /\ run[m].pc = "verify" /\ \A n \in Matchers \ {m} : r \notin Locked(n)
      /\ UNCHANGED <<request, windows, closed, capacity, bookings>>
      /\ \/ Rollback(m)
         \/ /\ request[r] # "MATCHED" /\ a # None /\ acceptAssignment(m, r, a)
            /\ run' = [run EXCEPT ![m].pc = "book", ![m].hand = a, ![m].shared = S]
         \/ /\ request[r] # "MATCHED"
            /\ run' = [run EXCEPT ![m].pc = "record", ![m].hand = None, ![m].shared = S]
  BY <1>1 DEF persist
<1>3. CASE Rollback(m)
  BY <1>2, <1>3, RollbackGoesOn
<1>4. ASSUME NEW pc \in {"book", "record"}, NEW hand, request[r] # "MATCHED",
             pc = "book" => hand = a /\ a # None /\ acceptAssignment(m, r, a),
             run' = [run EXCEPT ![m].pc = pc, ![m].hand = hand, ![m].shared = S]
      PROVE  BatchInv'
  <2>1. JobInv(m) /\ RoomInv(m) /\ m \in Writing
    BY <1>2 DEF BatchInv, Writing, Reads
  <2>2. r \in run[m].batch \ run[m].done /\ r \in Requests /\ r # None
    BY <1>1, <1>2, <2>1, AskedIsNext DEF JobInv
  <2>3. /\ \A n \in Matchers \ {m} : run'[n] = run[n]
        /\ run'[m].pc = pc /\ run'[m].hand = hand /\ run'[m].shared = S
        /\ run'[m].batch = run[m].batch /\ run'[m].done = run[m].done
        /\ run'[m].plan = run[m].plan /\ run'[m].placed = run[m].placed
        /\ run'[m].alone = run[m].alone
    BY <1>4 DEF BatchInv, MatchingInv, Shaped, Fields
  <2>4. Asked(m)' = r /\ Locked(m) = run[m].done /\ Locked(m)' = run[m].done \cup {r}
    <3>1. Asked(m)' = r
      BY <1>1, <2>3 DEF Asked
    <3>2. Locked(m) = run[m].done
      BY <1>2 DEF Locked
    <3> QED BY <1>4, <2>2, <2>3, <3>1, <3>2 DEF Locked
  <2>5. a # None => IsSpot(a) /\ Fits(a, r)
    BY <1>1, <2>1, <2>2 DEF JobInv, PlanInv
  <2>6. PlanInv(m)' /\ PlacedInv(m)' /\ (pc = "book" => HandInv(m)')
    <3>1. PlanInv(m)'
      BY <2>1, <2>3 DEF JobInv, PlanInv
    <3>2. PlacedInv(m)'
      BY <1>2, <2>1, <2>3 DEF JobInv, PlacedInv, Through
    <3>3. pc = "book" => HandInv(m)'
      BY <1>4, <2>3, <2>4, <2>5 DEF HandInv
    <3> QED BY <3>1, <3>2, <3>3
  <2>7. S \in SUBSET Providers
    BY <1>1, <2>1, <2>5 DEF JobInv, IsSpot
  <2>8. JobInv(m)'
    <3>1. \A q \in Locked(m)' : request'[q] # "MATCHED"
      BY <1>2, <1>4, <2>1, <2>4 DEF JobInv
    <3> QED BY <1>4, <2>1, <2>2, <2>3, <2>6, <2>7, <3>1 DEF JobInv, Reads
  <2>9. m \in Writing' /\ Writing' = Writing
    BY <2>1, <2>3 DEF Writing, Reads
  <2>10. RoomInv(m)'
    <3>1. Live' = Live /\ capacity' = capacity
      BY <1>2 DEF Live
    <3>2. pc = "book" =>
            /\ a.provider \in S
            /\ Booked(Live \cup run[m].placed, a.provider, Day(Demand[r].from)) < capacity[a.provider]
      <4> SUFFICES ASSUME pc = "book" PROVE /\ a.provider \in S
            /\ Booked(Live \cup run[m].placed, a.provider, Day(Demand[r].from)) < capacity[a.provider]
        OBVIOUS
      <4> DEFINE d == Day(Demand[r].from)
                 B == Live \cup run[m].placed
                 C == {b \in run[m].placed : b.provider = a.provider /\ Day(Demand[b.request].from) = d}
      <4>2. Booked(B, a.provider, d) + Cardinality(C) < capacity[a.provider]
        BY <1>4 DEF acceptAssignment
      <4>3. IsFiniteSet(B) /\ IsFiniteSet(C)
        <5>1. Live \subseteq bookings /\ IsFiniteSet(bookings) /\ IsFiniteSet(run[m].placed)
          BY <2>1 DEF Live, BatchInv, WrittenInv, JobInv, PlacedInv
        <5> QED BY <5>1, FS_Subset, FS_Union
      <4>4. Cardinality(C) \in Nat /\ Booked(B, a.provider, d) \in Nat
        BY <4>3, FS_CardinalityType, FewerBooked
      <4> HIDE DEF B, C, d
      <4>5. capacity[a.provider] \in Nat
        BY <1>4, <2>5, MatchingAssumption DEF BatchInv, CalendarInv, IsSpot
      <4>6. Booked(B, a.provider, d) < capacity[a.provider]
        BY <4>2, <4>4, <4>5
      <4>7. a.provider \in S
        BY <1>1, <1>4
      <4> QED BY <4>6, <4>7 DEF B, d
    <3>4. \A b \in run[m].placed : b.provider \in run[m].shared => b.provider \in S
      BY <1>1
    <3> QED BY <1>4, <2>1, <2>3, <2>4, <2>9, <3>1, <3>2, <3>4 DEF RoomInv
  <2>11. \A q \in Locked(m)' : q \in Locked(m) \/ \A n \in Matchers \ {m} : q \notin Locked(n)
    BY <1>2, <2>4
  <2> QED BY <1>2, <2>1, <2>3, <2>8, <2>10, <2>11, JobGoesOn
<1> QED BY <1>2, <1>3, <1>4
(* A window is found, and the hand is fit to be written.                   *)
LEMMA CreateWithinGoesOn ==
  ASSUME BatchInv, MatchingInv', NEW m \in Matchers, createWithin(m)
  PROVE  BatchInv'
<1>1. /\ run[m].pc = "book" /\ UNCHANGED <<request, windows, closed, capacity, bookings>>
      /\ \/ Rollback(m)
         \/ /\ ~(run[m].hand.to <= run[m].hand.from)
            /\ ~(Asked(m) # None /\ Demand[Asked(m)].customer = run[m].hand.provider)
            /\ \E over : run' = [run EXCEPT ![m].pc = "insert", ![m].held = @ \cup over]
  BY DEF createWithin
<1>2. CASE Rollback(m)
  BY <1>1, <1>2, RollbackGoesOn
<1>3. CASE /\ ~(run[m].hand.to <= run[m].hand.from)
           /\ ~(Asked(m) # None /\ Demand[Asked(m)].customer = run[m].hand.provider)
           /\ \E over : run' = [run EXCEPT ![m].pc = "insert", ![m].held = @ \cup over]
  <2>1. JobInv(m) /\ RoomInv(m) /\ HandInv(m) /\ m \in Writing
    BY <1>1 DEF BatchInv, JobInv, Writing, Reads
  <2>2. /\ \A n \in Matchers \ {m} : run'[n] = run[n]
        /\ run'[m].pc = "insert" /\ run'[m].hand = run[m].hand /\ run'[m].shared = run[m].shared
        /\ run'[m].batch = run[m].batch /\ run'[m].done = run[m].done
        /\ run'[m].plan = run[m].plan /\ run'[m].placed = run[m].placed
        /\ run'[m].alone = run[m].alone
    BY <1>3 DEF BatchInv, MatchingInv, Shaped, Fields
  <2>3. Asked(m)' = Asked(m)
    BY <2>2 DEF Asked
  <2>4. Locked(m)' = Locked(m)
    BY <1>1, <2>2, <2>3 DEF Locked
  <2>5. run[m].batch # {} => Asked(m) # None
    BY <1>1, <2>1, AskedIsNext DEF JobInv
  <2>6. HandInv(m)'
    <3>1. run[m].hand.from < run[m].hand.to
      BY <1>3, <2>1 DEF HandInv, IsSpot
    <3> QED BY <1>3, <2>1, <2>2, <2>3, <2>5, <3>1 DEF HandInv
  <2>7. PlanInv(m)' /\ PlacedInv(m)'
    BY <1>1, <2>1, <2>2 DEF JobInv, PlanInv, PlacedInv, Through
  <2>8. JobInv(m)'
    BY <1>1, <2>1, <2>2, <2>4, <2>6, <2>7 DEF JobInv, Reads
  <2>9. m \in Writing' /\ Writing' = Writing /\ Live' = Live
    BY <1>1, <2>1, <2>2 DEF Writing, Live, Reads
  <2>10. RoomInv(m)'
    BY <1>1, <2>1, <2>2, <2>3, <2>9 DEF RoomInv
  <2> QED BY <1>1, <2>1, <2>2, <2>4, <2>8, <2>10, JobGoesOn
<1> QED BY <1>1, <1>2, <1>3

(* The row that is inserted fits its request, and is within the capacity.  *)
LEMMA InsertedGoesOn ==
  ASSUME BatchInv, MatchingInv', NEW m \in Matchers, Inserted(m)
  PROVE  BatchInv'
<1>1. PICK b : b = Booking(run[m].hand, Asked(m))
  OBVIOUS
<1>2. /\ run[m].pc = "insert" /\ UNCHANGED <<request, windows, closed, capacity, bookings>>
      /\ Rollback(m) \/ run' = [run EXCEPT ![m].pc = "record", ![m].placed = @ \cup {b}]
  BY <1>1 DEF Inserted
<1>3. CASE Rollback(m)
  BY <1>2, <1>3, RollbackGoesOn
<1>4. CASE run' = [run EXCEPT ![m].pc = "record", ![m].placed = @ \cup {b}]
  <2>1. JobInv(m) /\ RoomInv(m) /\ HandInv(m) /\ PlacedInv(m) /\ m \in Writing
    BY <1>2 DEF BatchInv, JobInv, Writing, Reads
  <2>2. /\ \A n \in Matchers \ {m} : run'[n] = run[n]
        /\ run'[m].pc = "record" /\ run'[m].hand = run[m].hand /\ run'[m].shared = run[m].shared
        /\ run'[m].batch = run[m].batch /\ run'[m].done = run[m].done
        /\ run'[m].plan = run[m].plan /\ run'[m].placed = run[m].placed \cup {b}
        /\ run'[m].alone = run[m].alone
    BY <1>4 DEF BatchInv, MatchingInv, Shaped, Fields
  <2>3. Asked(m)' = Asked(m)
    BY <2>2 DEF Asked
  <2>4. Locked(m)' = Locked(m)
    BY <1>2, <2>2, <2>3 DEF Locked
  <2>5. IF run[m].batch = {} THEN Asked(m) = None
        ELSE Asked(m) \in run[m].batch \ run[m].done /\ Asked(m) \in Requests /\ Asked(m) # None
    BY <1>2, <2>1, AskedIsNext DEF JobInv, Asked
  <2>6. /\ b.provider = run[m].hand.provider /\ b.from = run[m].hand.from /\ b.to = run[m].hand.to
        /\ b.request = Asked(m) /\ b \in Row
    BY <1>1, <2>1, <2>5 DEF Booking, Row, HandInv, IsSpot
  <2>7. RowOK(b)
    BY <1>2, <2>1, <2>5, <2>6 DEF RowOK, HandInv, Fits
  <2>8. PlacedInv(m)'
    <3>1. IsFiniteSet(run[m].placed \cup {b})
      BY <2>1, FS_AddElement DEF PlacedInv
    <3>2. \A c \in run[m].placed \cup {b} :
            IF run[m].batch = {} THEN c.request = None ELSE c.request \in run[m].done \cup {Asked(m)}
      BY <1>2, <2>1, <2>5, <2>6 DEF PlacedInv, Through
    <3>3. \A c \in run[m].placed : c.request = b.request => c.request = None
      BY <1>2, <2>1, <2>5, <2>6 DEF PlacedInv, Through
    <3>4. \A c, d \in run[m].placed \cup {b} : c.request = d.request /\ c.request # None => c = d
      BY <2>1, <3>3 DEF PlacedInv
    <3> QED BY <2>1, <2>2, <2>3, <2>6, <2>7, <3>1, <3>2, <3>4 DEF PlacedInv, Through
  <2>9. JobInv(m)'
    BY <1>2, <2>1, <2>2, <2>4, <2>8 DEF JobInv, PlanInv, Reads
  <2>10. m \in Writing' /\ Writing' = Writing /\ Live' = Live
    BY <1>2, <2>1, <2>2 DEF Writing, Live, Reads
  <2>11. RoomInv(m)'
    <3> SUFFICES ASSUME run[m].alone, run[m].batch # {}
                 PROVE  /\ \A c \in run[m].placed \cup {b} : c.provider \in run[m].shared
                        /\ (\A c \in run[m].placed \cup {b} : InDay(c)) =>
                             \A c \in run[m].placed \cup {b} :
                               Booked(Live \cup (run[m].placed \cup {b}), c.provider, Day(c.from))
                                 <= capacity[c.provider]
      BY <1>2, <2>1, <2>2, <2>10 DEF RoomInv
    <3>1. \A c \in run[m].placed \cup {b} : c.provider \in run[m].shared
      BY <1>2, <2>1, <2>6 DEF RoomInv
    <3> SUFFICES ASSUME \A c \in run[m].placed \cup {b} : InDay(c), NEW c \in run[m].placed \cup {b}
                 PROVE  Booked(Live \cup (run[m].placed \cup {b}), c.provider, Day(c.from))
                          <= capacity[c.provider]
      BY <3>1
    <3>2. PICK B : B = Live \cup run[m].placed
      OBVIOUS
    <3>3. IsFiniteSet(B)
      <4>1. Live \subseteq bookings /\ IsFiniteSet(bookings) /\ IsFiniteSet(run[m].placed)
        BY <2>1 DEF Live, BatchInv, WrittenInv, PlacedInv
      <4> QED BY <3>2, <4>1, FS_Subset, FS_Union
    <3>4. Live \cup (run[m].placed \cup {b}) = B \cup {b}
      BY <3>2
    <3>5. capacity[c.provider] \in Nat
      <4>1. c.provider \in Providers
        BY <2>1, <2>6 DEF PlacedInv, Row
      <4> QED BY <4>1, MatchingAssumption DEF BatchInv, CalendarInv
    <3>6. /\ Booked(B \cup {b}, c.provider, Day(c.from)) \in Nat /\ Booked(B, c.provider, Day(c.from)) \in Nat
          /\ Booked(B \cup {b}, c.provider, Day(c.from)) <= Booked(B, c.provider, Day(c.from)) + 1
          /\ ~(b.provider = c.provider /\ Day(b.from) = Day(c.from)) =>
               Booked(B \cup {b}, c.provider, Day(c.from)) = Booked(B, c.provider, Day(c.from))
      BY <3>3, OneMoreBooked
    <3>7. CASE b.provider = c.provider /\ Day(b.from) = Day(c.from)
      <4>1. Day(b.from) = Day(Demand[Asked(m)].from)
        BY <2>6 DEF InDay
      <4>2. Booked(B, c.provider, Day(c.from)) < capacity[c.provider]
        BY <1>2, <2>1, <2>6, <3>2, <3>7, <4>1 DEF RoomInv
      <4> QED BY <3>4, <3>5, <3>6, <4>2
    <3>8. CASE ~(b.provider = c.provider /\ Day(b.from) = Day(c.from))
      <4>1. c \in run[m].placed
        BY <3>8
      <4>2. Booked(B, c.provider, Day(c.from)) <= capacity[c.provider]
        BY <2>1, <3>2, <4>1 DEF RoomInv
      <4> QED BY <3>4, <3>6, <3>8, <4>2
    <3> QED BY <3>7, <3>8
  <2> QED BY <1>2, <2>1, <2>2, <2>4, <2>9, <2>11, JobGoesOn
<1> QED BY <1>2, <1>3, <1>4
(* Only requests that m has locked have rows of m.                         *)
LEMMA RowsAreLocked ==
  ASSUME BatchInv, NEW m \in Matchers, run[m].pc = "record",
         NEW b \in run[m].placed, b.request # None
  PROVE  b.request \in Locked(m) /\ b.request \in Requests /\ request[b.request] # "MATCHED"
<1>1. JobInv(m) /\ PlacedInv(m)
  BY DEF BatchInv, JobInv
<1>2. b.request \in Through(m) /\ b.request \in Requests
  BY <1>1 DEF PlacedInv, Row
<1>3. b.request \in Locked(m)
  BY <1>2 DEF Through, Locked
<1> QED BY <1>1, <1>2, <1>3 DEF JobInv

(* The next request of the batch, or the commit.                           *)
LEMMA RecordedGoesOn ==
  ASSUME BatchInv, MatchingInv', NEW m \in Matchers, Recorded(m)
  PROVE  BatchInv'
<1>1. /\ run[m].pc = "record" /\ m \in Writing /\ UNCHANGED <<windows, closed, capacity>>
      /\ JobInv(m) /\ RoomInv(m) /\ PlacedInv(m)
      /\ \/ /\ run[m].batch \ (run[m].done \cup {Asked(m)}) # {} /\ UNCHANGED <<request, bookings>>
            /\ run' = [run EXCEPT ![m].pc = "verify", ![m].done = @ \cup {Asked(m)}]
         \/ /\ bookings' = bookings \cup run[m].placed /\ request' = Settled(m)
            /\ run' = [run EXCEPT ![m] = Idle]
  BY DEF Recorded, BatchInv, JobInv, Writing, Reads
<1>2. CASE /\ run[m].batch \ (run[m].done \cup {Asked(m)}) # {} /\ UNCHANGED <<request, bookings>>
           /\ run' = [run EXCEPT ![m].pc = "verify", ![m].done = @ \cup {Asked(m)}]
  <2>1. /\ \A n \in Matchers \ {m} : run'[n] = run[n]
        /\ run'[m].pc = "verify" /\ run'[m].shared = run[m].shared
        /\ run'[m].batch = run[m].batch /\ run'[m].done = run[m].done \cup {Asked(m)}
        /\ run'[m].plan = run[m].plan /\ run'[m].placed = run[m].placed
        /\ run'[m].alone = run[m].alone
    BY <1>2 DEF BatchInv, MatchingInv, Shaped, Fields
  <2>2. Asked(m) \in run[m].batch /\ Asked(m) # None
    BY <1>1, <1>2, AskedIsNext DEF JobInv
  <2>3. Locked(m)' = Locked(m)
    BY <1>1, <2>1, <2>2 DEF Locked
  <2>4. PlacedInv(m)' /\ PlanInv(m)'
    BY <1>1, <2>1 DEF JobInv, PlacedInv, PlanInv, Through
  <2>5. JobInv(m)'
    BY <1>1, <1>2, <2>1, <2>2, <2>3, <2>4 DEF JobInv, Reads
  <2>6. m \in Writing' /\ Writing' = Writing /\ Live' = Live
    BY <1>1, <1>2, <2>1 DEF Writing, Live, Reads
  <2>7. RoomInv(m)'
    BY <1>1, <2>1, <2>6 DEF RoomInv
  <2> QED BY <1>1, <1>2, <2>1, <2>3, <2>5, <2>7, JobGoesOn
<1>3. CASE /\ bookings' = bookings \cup run[m].placed /\ request' = Settled(m)
           /\ run' = [run EXCEPT ![m] = Idle]
  <2>1. run'[m] = Idle /\ \A n \in Matchers \ {m} : run'[n] = run[n]
    BY <1>3 DEF BatchInv, MatchingInv, Shaped
  <2>2. /\ Idle.pc = "idle" /\ Idle.batch = {} /\ Idle.done = {} /\ Idle.placed = {} /\ Idle.shared = {}
        /\ DOMAIN Idle.offers = {}
    BY DEF Idle
  <2>3. m \notin Writing' /\ Locked(m)' = {}
    BY <2>1, <2>2 DEF Writing, Locked, Reads
  <2>4. JobInv(m)' /\ RoomInv(m)'
    BY <2>1, <2>2, <2>3, FS_EmptySet DEF JobInv, PlacedInv, RoomInv, Reads
  <2>5. /\ DOMAIN request' = Requests
        /\ \A r \in Requests : request'[r] = IF \E b \in run[m].placed : b.request = r THEN "MATCHED" ELSE request[r]
    BY <1>3 DEF Settled
  <2>6. ASSUME NEW n \in Matchers, n # m
        PROVE  JobInv(n)' /\ Locked(n)' = Locked(n) /\ RoomInv(n)'
    <3>1. Same(n) /\ JobInv(n)
      BY <2>1, <2>6 DEF Same, BatchInv
    <3>2. \A r \in Locked(n) : r \in Requests /\ r # None
      <4>1. CASE run[n].pc \in {"book", "insert", "record"} /\ run[n].batch # {}
        BY <3>1, <4>1, AskedIsNext, MatchingAssumption DEF JobInv, Locked
      <4>2. CASE ~(run[n].pc \in {"book", "insert", "record"} /\ run[n].batch # {})
        BY <3>1, <4>2, MatchingAssumption DEF JobInv, Locked, Asked, OffersInv
      <4> QED BY <4>1, <4>2
    <3>3. \A r \in Locked(n) : request'[r] = request[r]
      BY <1>1, <2>5, <2>6, <3>2, RowsAreLocked DEF BatchInv, LocksInv
    <3>4. RoomInv(n)'
      BY <1>1, <2>1, <2>6 DEF BatchInv, RoomInv, Writing
    <3> QED BY <3>1, <3>3, <3>4, OthersGoOn
  <2>7. LocksInv'
    BY <2>3, <2>6 DEF BatchInv, LocksInv
  <2>8. WrittenInv'
    <3>1. bookings' \in SUBSET Row /\ IsFiniteSet(bookings')
      BY <1>1, <1>3, FS_Union DEF BatchInv, WrittenInv, PlacedInv
    <3>2. ASSUME NEW b \in bookings' PROVE RowOK(b) /\ (b.request # None => request'[b.request] = "MATCHED")
      <4>1. RowOK(b)
        BY <1>1, <1>3 DEF BatchInv, WrittenInv, PlacedInv
      <4>2. b.request \in Requests \cup {None}
        BY <3>1 DEF Row
      <4>3. b \in run[m].placed \/ (b.request # None => request[b.request] = "MATCHED")
        BY <1>3 DEF BatchInv, WrittenInv
      <4> QED BY <2>5, <4>1, <4>2, <4>3
    <3>3. \A b \in bookings, c \in run[m].placed : b.request = c.request => c.request = None
      BY <1>1, RowsAreLocked DEF BatchInv, WrittenInv
    <3>4. \A b, c \in bookings' : b.request = c.request /\ b.request # None => b = c
      BY <1>1, <1>3, <3>3 DEF BatchInv, WrittenInv, PlacedInv
    <3>5. \A r \in Requests : request'[r] = "MATCHED" => \E b \in bookings' : b.request = r
      BY <1>3, <2>5 DEF BatchInv, WrittenInv
    <3> QED BY <3>1, <3>2, <3>4, <3>5 DEF WrittenInv
  <2>9. CalendarInv'
    <3>1. request' \in [Requests -> {"NONE", "CREATED", "MATCHED"}]
      BY <1>3 DEF Settled, BatchInv, CalendarInv
    <3> QED BY <1>1, <3>1 DEF BatchInv, CalendarInv
  <2> QED BY <2>4, <2>6, <2>7, <2>8, <2>9 DEF BatchInv
<1> QED BY <1>1, <1>2, <1>3

(* A booking less is no booking more.                                      *)
LEMMA CancelGoesOn ==
  ASSUME BatchInv, MatchingInv', NEW b \in bookings, cancel(b)
  PROVE  BatchInv'
<1>1. PICK c : c = [b EXCEPT !.cancelled = TRUE]
  OBVIOUS
<1>2. /\ b \in Row /\ b \in Live /\ bookings' = (bookings \ {b}) \cup {c}
      /\ UNCHANGED <<request, windows, closed, capacity, run>>
  BY <1>1 DEF cancel, BatchInv, WrittenInv
<1>3. /\ c \in Row /\ c.provider = b.provider /\ c.from = b.from /\ c.to = b.to
      /\ c.request = b.request /\ c.cancelled = TRUE
  BY <1>1, <1>2 DEF Row
<1>4. WrittenInv'
  <2>1. bookings' \in SUBSET Row /\ IsFiniteSet(bookings')
    BY <1>2, <1>3, FS_AddElement, FS_RemoveElement DEF BatchInv, WrittenInv
  <2>2. RowOK(c)
    BY <1>2, <1>3 DEF BatchInv, WrittenInv, RowOK, Fits
  <2>3. \A d \in bookings' : RowOK(d) /\ (d.request # None => request'[d.request] = "MATCHED")
    BY <1>2, <1>3, <2>2 DEF BatchInv, WrittenInv
  <2>4. \A d, e \in bookings' : d.request = e.request /\ d.request # None => d = e
    BY <1>2, <1>3 DEF BatchInv, WrittenInv
  <2>5. \A r \in Requests : request'[r] = "MATCHED" => \E d \in bookings' : d.request = r
    BY <1>2, <1>3 DEF BatchInv, WrittenInv
  <2> QED BY <2>1, <2>3, <2>4, <2>5 DEF WrittenInv
<1>5. \A m \in Matchers : JobInv(m)' /\ Locked(m)' = Locked(m)
  BY <1>2, OthersGoOn DEF BatchInv, Same
<1>6. ASSUME NEW m \in Matchers PROVE RoomInv(m)'
  <2>1. RoomInv(m) /\ IsFiniteSet(bookings) /\ IsFiniteSet(run[m].placed) /\ JobInv(m) /\ PlacedInv(m)
    BY DEF BatchInv, WrittenInv, JobInv, PlacedInv
  <2>2. Live' \subseteq Live
    BY <1>2, <1>3 DEF Live
  <2>3. IsFiniteSet(Live \cup run[m].placed) /\ (Live' \cup run[m].placed) \in SUBSET (Live \cup run[m].placed)
    <3>1. Live \subseteq bookings
      BY DEF Live
    <3> QED BY <2>1, <2>2, <3>1, FS_Subset, FS_Union
  <2>4. \A p, d : /\ Booked(Live' \cup run[m].placed, p, d) \in Nat /\ Booked(Live \cup run[m].placed, p, d) \in Nat
                  /\ Booked(Live' \cup run[m].placed, p, d) <= Booked(Live \cup run[m].placed, p, d)
    BY <2>3, FewerBooked
  <2>5. \A p \in Providers : capacity[p] \in Nat
    BY MatchingAssumption DEF BatchInv, CalendarInv
  <2>6. Asked(m)' = Asked(m) /\ Writing' = Writing
    BY <1>2 DEF Asked, Writing
  <2>7. \A d \in run[m].placed : d.provider \in Providers
    BY <2>1 DEF PlacedInv, Row
  <2>8. \A d \in run[m].placed : capacity[d.provider] \in Nat
    BY <2>5, <2>7
  <2>9. run[m].pc \in {"book", "insert"} => capacity[run[m].hand.provider] \in Nat
    BY <2>1, <2>5 DEF JobInv, HandInv, IsSpot
  <2>10. \A d \in run[m].placed :
           Booked(Live \cup run[m].placed, d.provider, Day(d.from)) <= capacity[d.provider] =>
             Booked(Live' \cup run[m].placed, d.provider, Day(d.from)) <= capacity[d.provider]
    BY <2>4, <2>8
  <2>11. run[m].pc \in {"book", "insert"} =>
           (Booked(Live \cup run[m].placed, run[m].hand.provider, Day(Demand[Asked(m)].from))
              < capacity[run[m].hand.provider] =>
            Booked(Live' \cup run[m].placed, run[m].hand.provider, Day(Demand[Asked(m)].from))
              < capacity[run[m].hand.provider])
    <3>1. PICK p, d : p = run[m].hand.provider /\ d = Day(Demand[Asked(m)].from)
      OBVIOUS
    <3>2. /\ Booked(Live' \cup run[m].placed, p, d) \in Nat /\ Booked(Live \cup run[m].placed, p, d) \in Nat
          /\ Booked(Live' \cup run[m].placed, p, d) <= Booked(Live \cup run[m].placed, p, d)
      BY <2>4
    <3> QED BY <2>9, <3>1, <3>2
  <2> QED BY <1>2, <2>1, <2>6, <2>10, <2>11 DEF RoomInv
<1>7. LocksInv' /\ CalendarInv'
  BY <1>2, <1>5 DEF BatchInv, LocksInv, CalendarInv
<1> QED BY <1>4, <1>5, <1>6, <1>7 DEF BatchInv
(* What providers change, and requests that are stored: the capacity of a  *)
(* provider whose row is locked stays.                                     *)
LEMMA CalendarGoesOn ==
  ASSUME BatchInv, MatchingInv',
         \/ \E r \in Requests : insert(r)
         \/ \E w \in windows : remove(w)
         \/ \E e \in Exceptions : addException(e)
         \/ \E p \in Providers : \E max \in Capacities[p] : update(p, max)
  PROVE  BatchInv'
<1>1. run' = run /\ bookings' = bookings
  BY DEF insert, remove, addException, update
<1>2. \A r \in Requests : request'[r] = request[r] \/ (request[r] = "NONE" /\ request'[r] = "CREATED")
  BY DEF insert, remove, addException, update, BatchInv, CalendarInv
<1>3. \A m \in Matchers, p \in Providers :
        m \in Writing /\ p \in run[m].shared => capacity'[p] = capacity[p]
  BY DEF insert, remove, addException, update, BatchInv, CalendarInv
<1>4. ASSUME NEW m \in Matchers PROVE JobInv(m)' /\ Locked(m)' = Locked(m)
  <2>1. JobInv(m)
    BY DEF BatchInv
  <2>2. Asked(m)' = Asked(m) /\ Locked(m)' = Locked(m)
    BY <1>1 DEF Asked, Locked
  <2>3. \A r \in Locked(m) : r \in Requests
    <3>1. CASE run[m].pc \in {"book", "insert", "record"} /\ run[m].batch # {}
      BY <2>1, <3>1, AskedIsNext DEF JobInv, Locked
    <3>2. CASE ~(run[m].pc \in {"book", "insert", "record"} /\ run[m].batch # {})
      BY <2>1, <3>2 DEF JobInv, Locked, Asked, OffersInv
    <3> QED BY <3>1, <3>2
  <2>4. \A r \in Locked(m)' : request'[r] # "MATCHED"
    BY <1>2, <2>1, <2>2, <2>3 DEF JobInv
  <2>5. PlacedInv(m)' /\ (m \in Writing' => PlanInv(m)')
    BY <1>1, <2>1 DEF JobInv, PlacedInv, PlanInv, Through, Asked, Writing
  <2>6. (run'[m].pc \in {"prepare", "decide"} => OffersInv(m)') /\ (run'[m].pc \in {"book", "insert"} => HandInv(m)')
    BY <1>1, <2>1 DEF JobInv, OffersInv, HandInv, Asked
  <2> QED BY <1>1, <2>1, <2>2, <2>4, <2>5, <2>6 DEF JobInv
<1>5. ASSUME NEW m \in Matchers PROVE RoomInv(m)'
  <2>1. RoomInv(m) /\ JobInv(m)
    BY DEF BatchInv
  <2>2. Asked(m)' = Asked(m) /\ Writing' = Writing /\ Live' = Live
    BY <1>1 DEF Asked, Writing, Live
  <2>3. run[m].shared \in SUBSET Providers
    BY <2>1 DEF JobInv
  <2> QED BY <1>1, <1>3, <2>1, <2>2, <2>3 DEF RoomInv
<1>6. WrittenInv'
  <2>1. \A b \in bookings : b.request \in Requests \cup {None}
    BY DEF BatchInv, WrittenInv, Row
  <2> QED BY <1>1, <1>2, <2>1 DEF BatchInv, WrittenInv
<1>7. CalendarInv'
  BY DEF insert, remove, addException, update, BatchInv, CalendarInv
<1>8. LocksInv'
  BY <1>4 DEF BatchInv, LocksInv
<1> QED BY <1>4, <1>5, <1>6, <1>7, <1>8 DEF BatchInv

(* Every step keeps the invariant of the batches.                          *)
LEMMA BatchStep == BatchInv /\ [MatchingNext]_matchingVars => BatchInv'
<1> SUFFICES ASSUME BatchInv, [MatchingNext]_matchingVars PROVE BatchInv'
  OBVIOUS
<1> MatchingInv'
  BY MatchingStep DEF BatchInv
<1>1. CASE UNCHANGED matchingVars
  <2>1. UNCHANGED <<request, windows, closed, capacity, bookings, run>>
    BY <1>1 DEF matchingVars
  <2>2. \A m \in Matchers : JobInv(m)' /\ RoomInv(m)'
    <3> TAKE m \in Matchers
    <3>1. JobInv(m)'
      BY <2>1, OthersGoOn DEF BatchInv, Same
    <3>2. Asked(m)' = Asked(m) /\ Writing' = Writing /\ Live' = Live
      BY <2>1 DEF Asked, Writing, Live
    <3> QED BY <2>1, <3>1, <3>2 DEF BatchInv, RoomInv
  <2>3. LocksInv' /\ WrittenInv' /\ CalendarInv'
    BY <2>1 DEF BatchInv, LocksInv, WrittenInv, CalendarInv, Locked, Asked
  <2> QED BY <2>2, <2>3 DEF BatchInv
<1>2. CASE \E m \in Matchers : \E B \in SUBSET Requests : prepare(m, B)
  BY <1>2, PrepareGoesOn
<1>3. ASSUME NEW m \in Matchers PROVE decide(m) => BatchInv'
  BY DecideGoesOn
<1>4. ASSUME NEW m \in Matchers PROVE persist(m) => BatchInv'
  BY PersistGoesOn
<1>5. ASSUME NEW m \in Matchers PROVE create(m) => BatchInv'
  BY CreateGoesOn
<1>6. ASSUME NEW m \in Matchers PROVE createWithin(m) => BatchInv'
  BY CreateWithinGoesOn
<1>7. ASSUME NEW m \in Matchers PROVE Inserted(m) => BatchInv'
  BY InsertedGoesOn
<1>8. ASSUME NEW m \in Matchers PROVE Recorded(m) => BatchInv'
  BY RecordedGoesOn
<1>9. ASSUME NEW m \in Matchers PROVE Fails(m) => BatchInv'
  BY RollbackGoesOn DEF Fails
<1>10. CASE \E b \in bookings : cancel(b)
  BY <1>10, CancelGoesOn
<1>11. CASE \/ \E r \in Requests : insert(r)
            \/ \E w \in windows : remove(w)
            \/ \E e \in Exceptions : addException(e)
            \/ \E p \in Providers : \E max \in Capacities[p] : update(p, max)
  BY <1>11, CalendarGoesOn
<1> QED
  BY <1>1, <1>2, <1>3, <1>4, <1>5, <1>6, <1>7, <1>8, <1>9, <1>10, <1>11 DEF MatchingNext

(* The invariant of the batches holds whatever happens.                    *)
LEMMA BatchInvariance == MatchingSpec => []BatchInv
BY BatchStarts, BatchStep, PTL DEF MatchingSpec
-----------------------------------------------------------------------------
(* A request gives one booking.                                            *)
LEMMA OneForEach == BatchInv => MatchedOnce
<1> SUFFICES ASSUME BatchInv, NEW r \in Requests
             PROVE  /\ Cardinality({b \in bookings : b.request = r}) <= 1
                    /\ request[r] = "MATCHED" <=> {b \in bookings : b.request = r} # {}
  BY DEF MatchedOnce
<1> DEFINE made == {b \in bookings : b.request = r}
<1>1. \A b, c \in made : b = c
  BY MatchingAssumption DEF BatchInv, WrittenInv
<1>2. Cardinality(made) <= 1
  <2>1. CASE made = {}
    BY <2>1, FS_EmptySet
  <2>2. CASE made # {}
    <3>1. PICK b \in made : made = {b}
      BY <1>1, <2>2
    <3>2. Cardinality({b}) = 1
      BY FS_Singleton
    <3> HIDE DEF made
    <3> QED BY <3>1, <3>2
  <2> QED BY <2>1, <2>2
<1>3. request[r] = "MATCHED" <=> made # {}
  BY MatchingAssumption DEF BatchInv, WrittenInv
<1> QED BY <1>2, <1>3

(* What was asked for was booked.                                          *)
LEMMA AsAskedFor == BatchInv => BookingFitsRequest
BY DEF BatchInv, WrittenInv, RowOK, Fits, BookingFitsRequest

(* The invariant gives the types.                                          *)
LEMMA TypedMatching == BatchInv => MatchingTypeOK
<1> SUFFICES ASSUME BatchInv PROVE MatchingTypeOK
  OBVIOUS
<1>1. \A b \in bookings : b.provider \in Providers /\ b.from < b.to /\ b.request \in Requests \cup {None}
  BY DEF BatchInv, WrittenInv, Row, RowOK
<1>2. \A m \in Matchers : run[m].held \subseteq windows
  BY DEF BatchInv, MatchingInv, RowsInv
<1> QED BY <1>1, <1>2 DEF BatchInv, CalendarInv, JobInv, MatchingTypeOK

(* A transaction that met no other keeps within the capacity.              *)
LEMMA RoomAtCommit ==
  ASSUME BatchInv, NEW m \in Matchers, [MatchingNext]_matchingVars, Commits(m), run[m].alone,
         \A b \in run[m].placed : InDay(b), NEW b \in run[m].placed
  PROVE  Booked({c \in bookings' : ~c.cancelled}, b.provider, Day(b.from)) <= capacity'[b.provider]
<1>1. /\ run[m].pc = "record" /\ run'[m] = Idle /\ bookings' # bookings /\ m \in Writing
      /\ RoomInv(m) /\ JobInv(m) /\ PlacedInv(m)
  BY DEF Commits, BatchInv, JobInv, Writing
<1>2. Idle.pc = "idle"
  BY DEF Idle
<1>3. PICK n \in Matchers : Recorded(n)
  <2>1. ~(\E c \in bookings : cancel(c))
    BY <1>1, <1>2 DEF cancel
  <2> QED BY <1>1, <2>1 DEF MatchingNext, matchingVars, insert, prepare, decide, persist, create,
            createWithin, Inserted, Fails, remove, addException, update
<1>4. n = m
  BY <1>1, <1>2, <1>3 DEF Recorded, BatchInv, MatchingInv, Shaped
<1>5. bookings' = bookings \cup run[m].placed /\ capacity' = capacity
  BY <1>1, <1>3, <1>4 DEF Recorded
<1>6. {c \in bookings' : ~c.cancelled} = Live \cup run[m].placed
  BY <1>5 DEF Live, BatchInv, MatchingInv, RowsInv
<1>7. run[m].batch # {}
  BY <1>1 DEF PlacedInv, InDay
<1>8. Booked(Live \cup run[m].placed, b.provider, Day(b.from)) <= capacity[b.provider]
  BY <1>1, <1>7 DEF RoomInv
<1> QED BY <1>5, <1>6, <1>8
-----------------------------------------------------------------------------
(* What holds of zero, and of each number after one of which it holds.     *)
LEMMA AllNumbers ==
  ASSUME NEW P, 0 \in P, \A n \in Nat : n \in P => n + 1 \in P
  PROVE  Nat \subseteq P
<1>1. SUFFICES ASSUME Nat \ P # {} PROVE FALSE
  OBVIOUS
<1>2. PICK n \in Nat \ P : \A k \in Nat \ P : n <= k
  BY <1>1, OneIsLeast
<1>3. n # 0 /\ n \in Nat
  OBVIOUS
<1>4. n - 1 \in Nat /\ n - 1 \notin Nat \ P /\ n - 1 + 1 = n
  BY <1>2, <1>3
<1> QED BY <1>2, <1>4

(* Of two requests one comes first.                                        *)
LEMMA InOrder ==
  ASSUME NEW q \in Requests, NEW r \in Requests
  PROVE  /\ q # r => Earlier(q, r) \/ Earlier(r, q)
         /\ ~(Earlier(q, r) /\ Earlier(r, q)) /\ ~Earlier(q, q)
         /\ \A o \in Requests : Earlier(o, q) /\ Earlier(q, r) => Earlier(o, r)
<1>1. \A o \in Requests : o \in Nat /\ Demand[o].from \in Nat
  BY MatchingAssumption
<1> QED BY <1>1 DEF Earlier

(* Of some requests one comes last: it has the fewest after it.            *)
LEMMA OneIsLast ==
  ASSUME NEW S \in SUBSET Requests, S # {}
  PROVE  \E l \in S : \A q \in S : q # l => Earlier(q, l)
<1> DEFINE after(x) == {q \in S : Earlier(x, q)}
           counts == {Cardinality(after(x)) : x \in S}
<1>1. IsFiniteSet(S)
  BY MatchingAssumption, FS_Subset
<1>2. \A x \in S : IsFiniteSet(after(x)) /\ Cardinality(after(x)) \in Nat
  <2> TAKE x \in S
  <2>1. after(x) \subseteq S
    OBVIOUS
  <2> QED BY <1>1, <2>1, FS_Subset, FS_CardinalityType
<1>3. PICK l \in S : \A x \in S : Cardinality(after(l)) <= Cardinality(after(x))
  <2>1. counts \in SUBSET Nat /\ counts # {}
    BY <1>2
  <2>2. PICK c \in counts : \A y \in counts : c <= y
    BY <2>1, OneIsLeast
  <2> QED BY <2>2
<1>4. ASSUME NEW q \in S, q # l PROVE Earlier(q, l)
  <2> SUFFICES ASSUME ~Earlier(q, l) PROVE FALSE
    OBVIOUS
  <2>1. Earlier(l, q)
    BY <1>4, InOrder
  <2>2. q \in after(l) /\ q \notin after(q) /\ after(q) \subseteq after(l)
    BY <2>1, InOrder
  <2>3. /\ IsFiniteSet(after(q) \cup {q}) /\ Cardinality(after(q) \cup {q}) = Cardinality(after(q)) + 1
    BY <1>2, <2>2, FS_AddElement
  <2>4. Cardinality(after(q) \cup {q}) <= Cardinality(after(l))
    <3>1. after(q) \cup {q} \subseteq after(l)
      BY <2>2
    <3> QED BY <1>2, <3>1, FS_Subset
  <2>5. /\ Cardinality(after(l)) <= Cardinality(after(q))
        /\ Cardinality(after(l)) \in Nat /\ Cardinality(after(q)) \in Nat
    BY <1>2, <1>3
  <2> HIDE DEF after
  <2> QED BY <2>3, <2>4, <2>5
<1> QED BY <1>4

(* Provider p has room for r beside what was given, and the start t.       *)
CanTake(m, r, given, p, t) ==
  LET some == {q \in DOMAIN given : given[q] # None}
      busy == UNION {Slots(given[q]) : q \in {o \in some : given[o].provider = p}}
      offer == run[m].offers[r]
  IN /\ t \in StartSlots(offer[p].free \ busy, Demand[r].minutes) /\ t \in Nat
     /\ offer[p].count
          + Cardinality({q \in some : /\ given[q].provider = p
                                      /\ Day(Demand[q].from) = Day(Demand[r].from)})
          < offer[p].max

(* Whatever was given before, the fallback picks a provider who has room   *)
(* and a start beside it, or nobody.                                       *)
LEMMA GreedyPick ==
  ASSUME NEW m \in Matchers, NEW r \in Requests, OfferOK(r, run[m].offers[r]), NEW given
  PROVE  \/ placeGreedily(m, r, given) = None
         \/ \E p, t :
              /\ p \in Eligible(m, r) /\ CanTake(m, r, given, p, t)
              /\ placeGreedily(m, r, given)
                   = [provider |-> p, from |-> t, to |-> t + Demand[r].minutes]
<1> DEFINE some == {q \in DOMAIN given : given[q] # None}
           busy(p) == UNION {Slots(given[q]) : q \in {o \in some : given[o].provider = p}}
           used(p) == Cardinality({q \in some : /\ given[q].provider = p
                                                /\ Day(Demand[q].from) = Day(Demand[r].from)})
           offer == run[m].offers[r]
           starts(p) == StartSlots(offer[p].free \ busy(p), Demand[r].minutes)
           able == {p \in Eligible(m, r) : offer[p].count + used(p) < offer[p].max /\ starts(p) # {}}
           n == CHOOSE q \in able : \A o \in able : Distance[q] <= Distance[o]
<1>1. placeGreedily(m, r, given) =
        IF able = {} THEN None
        ELSE [provider |-> n, from |-> Min(starts(n)), to |-> Min(starts(n)) + Demand[r].minutes]
  BY DEF placeGreedily
<1>2. CASE able = {}
  BY <1>1, <1>2
<1>3. CASE able # {}
  <2>1. n \in able
    <3>1. able \subseteq Providers
      BY DEF Eligible, OfferOK
    <3> HIDE DEF able
    <3> DEFINE far == {Distance[q] : q \in able}
    <3>2. far \in SUBSET Nat /\ far # {}
      BY <1>3, <3>1, MatchingAssumption
    <3>3. PICK d \in far : \A e \in far : d <= e
      BY <3>2, OneIsLeast
    <3>4. \E q \in able : \A o \in able : Distance[q] <= Distance[o]
      BY <3>3
    <3> QED BY <3>4
  <2>2. Min(starts(n)) \in starts(n) /\ Min(starts(n)) \in Nat
    <3>1. n \in DOMAIN offer /\ starts(n) # {}
      BY <2>1 DEF Eligible
    <3>2. starts(n) \subseteq Slots(Demand[r])
      BY <3>1 DEF StartSlots, OfferOK
    <3>3. Demand[r].from \in Nat /\ Demand[r].to \in Nat
      BY MatchingAssumption
    <3>4. Slots(Demand[r]) \in SUBSET Nat
      BY <3>3, SMTT(30) DEF Slots
    <3> QED BY <3>1, <3>2, <3>4, MinIsLeast
  <2>3. n \in Eligible(m, r) /\ offer[n].count + used(n) < offer[n].max
    BY <2>1
  <2>4. PICK k, t : k = n /\ t = Min(starts(n))
    OBVIOUS
  <2>5. placeGreedily(m, r, given) = [provider |-> k, from |-> t, to |-> t + Demand[r].minutes]
    BY <1>1, <1>3, <2>4
  <2>6. k \in Eligible(m, r) /\ t \in starts(k) /\ t \in Nat /\ offer[k].count + used(k) < offer[k].max
    BY <2>2, <2>3, <2>4
  <2>7. CanTake(m, r, given, k, t)
    BY <2>6 DEF CanTake
  <2> HIDE DEF n, able
  <2> QED BY <2>5, <2>6, <2>7
<1> QED BY <1>2, <1>3

(* What the fallback gives a request is within what was offered, beside    *)
(* what it gave those before, and below the capacity.                      *)
LEMMA PlacedBeside ==
  ASSUME BatchInv, NEW m \in Matchers, run[m].pc = "decide", NEW plan \in fallback(m),
         NEW r \in run[m].batch, plan[r] # None
  PROVE  LET p == plan[r].provider
             before == {q \in run[m].batch : Earlier(q, r) /\ plan[q] # None /\ plan[q].provider = p}
         IN /\ p \in DOMAIN run[m].offers[r]
            /\ \A q \in before : Slots(plan[q]) \cap Slots(plan[r]) = {}
            /\ run[m].offers[r][p].count
                 + Cardinality({q \in before : Day(Demand[q].from) = Day(Demand[r].from)})
                 < run[m].offers[r][p].max
<1>1. r \in Requests /\ OfferOK(r, run[m].offers[r])
  BY DEF BatchInv, JobInv, OffersInv
<1> DEFINE B == run[m].batch
           given == [q \in {o \in B : Earlier(o, r)} |-> plan[q]]
           some == {q \in DOMAIN given : given[q] # None}
           busy(p) == UNION {Slots(given[q]) : q \in {o \in some : given[o].provider = p}}
           offer == run[m].offers[r]
<1>2. plan[r] = placeGreedily(m, r, given)
  BY DEF fallback
<1>3. PICK n, t :
        /\ n \in Eligible(m, r) /\ CanTake(m, r, given, n, t)
        /\ plan[r] = [provider |-> n, from |-> t, to |-> t + Demand[r].minutes]
  <2> HIDE DEF given
  <2> QED BY <1>1, <1>2, GreedyPick
<1>4. /\ t \in StartSlots(offer[n].free \ busy(n), Demand[r].minutes) /\ t \in Nat
      /\ offer[n].count
           + Cardinality({q \in some : /\ given[q].provider = n
                                       /\ Day(Demand[q].from) = Day(Demand[r].from)})
           < offer[n].max
  <2> HIDE DEF given
  <2> QED BY <1>3 DEF CanTake
<1>5. plan[r].provider = n /\ Slots(plan[r]) = t..(t + Demand[r].minutes - 1)
  <2>1. plan[r].provider = n /\ plan[r].from = t /\ plan[r].to = t + Demand[r].minutes
    BY <1>3
  <2>2. t \in Nat /\ Demand[r].minutes \in Nat
    BY <1>1, <1>4, MatchingAssumption
  <2> QED BY <2>1, <2>2 DEF Slots
<1>6. Slots(plan[r]) \cap busy(n) = {}
  BY <1>4, <1>5 DEF StartSlots
<1>7. \A q \in B : Earlier(q, r) /\ plan[q] # None /\ plan[q].provider = n =>
        Slots(plan[q]) \cap Slots(plan[r]) = {}
  BY <1>6
<1>8. {q \in some : given[q].provider = n /\ Day(Demand[q].from) = Day(Demand[r].from)} =
        {q \in {o \in B : Earlier(o, r) /\ plan[o] # None /\ plan[o].provider = n} :
           Day(Demand[q].from) = Day(Demand[r].from)}
  OBVIOUS
<1>9. n \in DOMAIN offer
  BY <1>3 DEF Eligible
<1> QED BY <1>4, <1>5, <1>7, <1>8, <1>9
-----------------------------------------------------------------------------
(* The plan of some of the requests, each of them placed beside those of   *)
(* them that come before it.                                               *)
IsGreedy(m, T, f) ==
  f = [r \in T |-> placeGreedily(m, r, [q \in {o \in T : Earlier(o, r)} |-> f[q]])]

HasOnePlan(m, T) == \E f : \A g : IsGreedy(m, T, g) <=> g = f

(* There is one such plan and no other, for any of the requests: without   *)
(* the last of them there is one, and the last does not matter to it.      *)
LEMMA OneGreedyPlan ==
  ASSUME NEW m \in Matchers, NEW B \in SUBSET Requests
  PROVE  HasOnePlan(m, B)
<1>1. PICK P : P = {n \in Nat : \A T \in SUBSET Requests :
                                   Cardinality(T) = n => HasOnePlan(m, T)}
  OBVIOUS
<1>2. \A T \in SUBSET Requests : IsFiniteSet(T) /\ Cardinality(T) \in Nat
  BY MatchingAssumption, FS_Subset, FS_CardinalityType
<1>3. 0 \in P
  <2> SUFFICES ASSUME NEW T \in SUBSET Requests, Cardinality(T) = 0
               PROVE  HasOnePlan(m, T)
    BY <1>1
  <2>1. T = {}
    BY <1>2, FS_EmptySet
  <2>2. PICK f : f = [r \in {} |-> None]
    OBVIOUS
  <2>3. \A g : IsGreedy(m, T, g) <=> g = f
    BY <2>1, <2>2 DEF IsGreedy
  <2> QED BY <2>3 DEF HasOnePlan
<1>4. ASSUME NEW n \in Nat, n \in P PROVE n + 1 \in P
  <2> SUFFICES ASSUME NEW T \in SUBSET Requests, Cardinality(T) = n + 1
               PROVE  HasOnePlan(m, T)
    BY <1>1
  <2>1. T # {}
    BY FS_EmptySet
  <2>2. PICK l \in T : \A q \in T : q # l => Earlier(q, l)
    BY <2>1, OneIsLast
  <2>3. PICK R \in SUBSET Requests : R = T \ {l}
    OBVIOUS
  <2>4. Cardinality(R) = n
    BY <1>2, <2>3, FS_RemoveElement
  <2>5. PICK h : \A g : IsGreedy(m, R, g) <=> g = h
    BY <1>1, <1>4, <2>4 DEF HasOnePlan
  <2>6. /\ {o \in T : Earlier(o, l)} = R
        /\ \A r \in R : {o \in T : Earlier(o, r)} = {o \in R : Earlier(o, r)}
        /\ T = R \cup {l} /\ l \notin R
    BY <2>2, <2>3, InOrder
  <2>7. PICK f : f = [r \in T |-> IF r = l THEN placeGreedily(m, l, h) ELSE h[r]]
    OBVIOUS
  <2>8. h = [r \in R |-> placeGreedily(m, r, [q \in {o \in R : Earlier(o, r)} |-> h[q]])]
    BY <2>5 DEF IsGreedy
  <2>9. h = [q \in R |-> h[q]]
    BY <2>8
  <2>10. IsGreedy(m, T, f)
    <3>1. ASSUME NEW r \in R
          PROVE  f[r] = placeGreedily(m, r, [q \in {o \in T : Earlier(o, r)} |-> f[q]])
      <4>1. [q \in {o \in T : Earlier(o, r)} |-> f[q]] = [q \in {o \in R : Earlier(o, r)} |-> h[q]]
        BY <2>6, <2>7
      <4>2. f[r] = h[r]
        BY <2>6, <2>7
      <4> QED BY <2>8, <4>1, <4>2
    <3>2. f[l] = placeGreedily(m, l, [q \in {o \in T : Earlier(o, l)} |-> f[q]])
      <4>1. [q \in {o \in T : Earlier(o, l)} |-> f[q]] = h
        BY <2>6, <2>7, <2>9
      <4>2. f[l] = placeGreedily(m, l, h)
        BY <2>6, <2>7
      <4> QED BY <4>1, <4>2
    <3>3. \A r \in T : f[r] = placeGreedily(m, r, [q \in {o \in T : Earlier(o, r)} |-> f[q]])
      BY <2>6, <3>1, <3>2
    <3>4. f = [r \in T |-> f[r]]
      BY <2>7
    <3> QED BY <3>3, <3>4 DEF IsGreedy
  <2>11. ASSUME NEW g, IsGreedy(m, T, g) PROVE g = f
    <3>1. g = [r \in T |-> placeGreedily(m, r, [q \in {o \in T : Earlier(o, r)} |-> g[q]])]
      BY <2>11 DEF IsGreedy
    <3>2. PICK k : k = [r \in R |-> g[r]]
      OBVIOUS
    <3>3. ASSUME NEW r \in R
          PROVE  k[r] = placeGreedily(m, r, [q \in {o \in R : Earlier(o, r)} |-> k[q]])
      <4>1. [q \in {o \in T : Earlier(o, r)} |-> g[q]] = [q \in {o \in R : Earlier(o, r)} |-> k[q]]
        BY <2>6, <3>2
      <4>2. k[r] = g[r] /\ r \in T
        BY <2>6, <3>2
      <4> QED BY <3>1, <4>1, <4>2
    <3>4. IsGreedy(m, R, k)
      BY <3>2, <3>3 DEF IsGreedy
    <3>5. k = h
      BY <2>5, <3>4
    <3>6. [q \in {o \in T : Earlier(o, l)} |-> g[q]] = h
      BY <2>6, <3>2, <3>5
    <3>7. g[l] = placeGreedily(m, l, h)
      BY <2>2, <3>1, <3>6
    <3> QED BY <2>6, <2>7, <3>1, <3>2, <3>5, <3>7
  <2> QED BY <2>10, <2>11 DEF HasOnePlan
<1>5. Cardinality(B) \in P
  BY <1>1, <1>2, <1>3, <1>4, AllNumbers
<1> QED BY <1>1, <1>5

(* What it picks is a place on offer.                                      *)
LEMMA PickIsOffered ==
  ASSUME NEW m \in Matchers, NEW r \in Requests, OfferOK(r, run[m].offers[r]), NEW given
  PROVE  placeGreedily(m, r, given) \in {None} \cup Places(m, r)
<1>1. SUFFICES ASSUME placeGreedily(m, r, given) # None PROVE placeGreedily(m, r, given) \in Places(m, r)
  OBVIOUS
<1>2. PICK p, t :
        /\ p \in Eligible(m, r) /\ CanTake(m, r, given, p, t)
        /\ placeGreedily(m, r, given) = [provider |-> p, from |-> t, to |-> t + Demand[r].minutes]
  BY <1>1, GreedyPick
<1>3. t \in StartSlots(run[m].offers[r][p].free, Demand[r].minutes)
  BY <1>2 DEF CanTake, StartSlots
<1> QED BY <1>2, <1>3 DEF Places

(* The fallback has one plan.                                              *)
LEMMA FallbackPlans ==
  ASSUME BatchInv, NEW m \in Matchers, run[m].pc = "decide"
  PROVE  \E plan \in fallback(m) : fallback(m) = {plan}
<1> DEFINE B == run[m].batch
           choices == {None} \cup UNION {Places(m, r) : r \in B}
           before(f, r) == [q \in {o \in B : Earlier(o, r)} |-> f[q]]
<1>1. B \in SUBSET Requests /\ \A r \in B : OfferOK(r, run[m].offers[r])
  BY DEF BatchInv, JobInv, OffersInv
<1>2. PICK f : \A g : IsGreedy(m, B, g) <=> g = f
  BY <1>1, OneGreedyPlan DEF HasOnePlan
<1>3. fallback(m) = {g \in [B -> choices] : \A r \in B : g[r] = placeGreedily(m, r, before(g, r))}
  BY DEF fallback
<1>4. IsGreedy(m, B, f)
  BY <1>2
<1>5. f = [r \in B |-> placeGreedily(m, r, before(f, r))]
  BY <1>4 DEF IsGreedy
<1>6. \A r \in B : f[r] = placeGreedily(m, r, before(f, r))
  BY <1>5
<1>7. ASSUME NEW r \in B PROVE f[r] \in choices
  <2>1. PICK given : given = before(f, r)
    OBVIOUS
  <2>2. placeGreedily(m, r, given) \in {None} \cup Places(m, r)
    BY <1>1, PickIsOffered
  <2> QED BY <1>6, <2>1, <2>2
<1>8. f \in [B -> choices]
  <2>1. f = [r \in B |-> f[r]]
    BY <1>5
  <2> HIDE DEF choices
  <2> QED BY <1>7, <2>1
<1>9. f \in fallback(m)
  BY <1>3, <1>6, <1>7, <1>8
<1>10. ASSUME NEW g \in fallback(m) PROVE g = f
  <2>1. g = [r \in B |-> g[r]] /\ \A r \in B : g[r] = placeGreedily(m, r, before(g, r))
    BY <1>3
  <2>2. g = [r \in B |-> placeGreedily(m, r, before(g, r))]
    BY <2>1
  <2>3. IsGreedy(m, B, g)
    BY <2>2 DEF IsGreedy
  <2> QED BY <1>2, <2>3
<1> QED BY <1>9, <1>10

(* And what it plans can be kept.                                          *)
LEMMA FallbackIsKept == BatchInv => FallbackIsSound
<1> SUFFICES ASSUME BatchInv, NEW m \in Matchers, run[m].pc = "decide",
                    NEW plan \in fallback(m), fallback(m) = {plan}
             PROVE  LET given == {r \in run[m].batch : plan[r] # None}
                    IN \A q, r \in given :
                         /\ q # r => ~Overlap(plan[q], plan[r])
                         /\ LET daily == {o \in given : plan[o].provider = plan[r].provider
                                                         /\ Day(Demand[o].from) = Day(Demand[r].from)}
                            IN \E o \in daily :
                                 Cardinality(daily) <= run[m].offers[o][plan[o].provider].max
  BY FallbackPlans DEF FallbackIsSound
<1> DEFINE given == {r \in run[m].batch : plan[r] # None}
<1>1. given \in SUBSET Requests /\ OffersInv(m)
  BY DEF BatchInv, JobInv
<1>2. ASSUME NEW q \in given, NEW r \in given, q # r PROVE ~Overlap(plan[q], plan[r])
  <2>1. \A o, l \in given : Earlier(o, l) /\ plan[o].provider = plan[l].provider =>
          Slots(plan[o]) \cap Slots(plan[l]) = {}
    BY PlacedBeside
  <2>2. Earlier(q, r) \/ Earlier(r, q)
    BY <1>1, <1>2, InOrder
  <2>3. Slots(plan[q]) \cap Slots(plan[r]) = Slots(plan[r]) \cap Slots(plan[q])
    OBVIOUS
  <2> QED BY <2>1, <2>2, <2>3 DEF Overlap
<1>3. ASSUME NEW r \in given
      PROVE  LET daily == {o \in given : plan[o].provider = plan[r].provider
                                          /\ Day(Demand[o].from) = Day(Demand[r].from)}
             IN \E o \in daily :
                  Cardinality(daily) <= run[m].offers[o][plan[o].provider].max
  <2> DEFINE p == plan[r].provider
             S == {o \in given : plan[o].provider = p /\ Day(Demand[o].from) = Day(Demand[r].from)}
  <2>1. S \in SUBSET Requests /\ r \in S
    BY <1>1
  <2>2. PICK l \in S : \A q \in S : q # l => Earlier(q, l)
    BY <2>1, OneIsLast
  <2> DEFINE before == {q \in {o \in run[m].batch : Earlier(o, l) /\ plan[o] # None /\ plan[o].provider = p} :
                          Day(Demand[q].from) = Day(Demand[l].from)}
  <2>3. l \in run[m].batch /\ plan[l] # None /\ plan[l].provider = p
        /\ Day(Demand[l].from) = Day(Demand[r].from)
    OBVIOUS
  <2>4. /\ p \in DOMAIN run[m].offers[l]
        /\ run[m].offers[l][p].count + Cardinality(before) < run[m].offers[l][p].max
    BY <2>3, PlacedBeside, SMTT(30)
  <2>6. /\ run[m].offers[l][p].count \in Nat /\ run[m].offers[l][p].max \in 1..10
    BY <1>1, <2>3, <2>4 DEF OffersInv, OfferOK
  <2>7. S \subseteq before \cup {l}
    BY <2>2, <2>3
  <2>8. IsFiniteSet(before) /\ Cardinality(before) \in Nat
    <3>1. before \subseteq Requests
      BY DEF BatchInv, JobInv
    <3> QED BY <3>1, MatchingAssumption, FS_Subset, FS_CardinalityType
  <2>9. IsFiniteSet(before \cup {l}) /\ Cardinality(before \cup {l}) <= Cardinality(before) + 1
        /\ Cardinality(before \cup {l}) \in Nat
    <3> HIDE DEF before
    <3>1. IsFiniteSet(before \cup {l})
      BY <2>8, FS_AddElement
    <3>2. \/ Cardinality(before \cup {l}) = Cardinality(before)
          \/ Cardinality(before \cup {l}) = Cardinality(before) + 1
      BY <2>8, FS_AddElement
    <3> QED BY <2>8, <3>1, <3>2
  <2>10. Cardinality(S) \in Nat /\ Cardinality(S) <= Cardinality(before \cup {l})
    <3> HIDE DEF before, S
    <3> QED BY <2>7, <2>9, FS_Subset, FS_CardinalityType
  <2>11. Cardinality(S) <= run[m].offers[l][p].max
    <3> HIDE DEF before, S, p
    <3> QED BY <2>4, <2>6, <2>8, <2>9, <2>10
  <2> QED BY <2>3, <2>11
<1> QED BY <1>2, <1>3

(* What a batch leaves behind is one booking for each request that is      *)
(* matched, as it was asked for, whatever the engine proposed; the fallback*)
(* plans what can be kept; and a batch that meets no other stays within the*)
(* capacity of the day (persist, acceptAssignment, placeGreedily).         *)
THEOREM BatchesStand == MatchingSpec => BatchesAreSound
<1>1. BatchInv => MatchingTypeOK /\ MatchedOnce /\ BookingFitsRequest /\ FallbackIsSound
  BY TypedMatching, OneForEach, AsAskedFor, FallbackIsKept
<1>2. BatchInv /\ [MatchingNext]_matchingVars =>
        [\A m \in Matchers : Commits(m) /\ run[m].alone /\ (\A b \in run[m].placed : InDay(b)) =>
           \A b \in run[m].placed :
             Booked({c \in bookings' : ~c.cancelled}, b.provider, Day(b.from)) <= capacity'[b.provider]]_matchingVars
  BY RoomAtCommit
<1>3. MatchingSpec => CapacityUnlessRaced
  BY <1>2, BatchInvariance, PTL DEF MatchingSpec, CapacityUnlessRaced
<1> QED BY <1>1, <1>3, BatchInvariance, PTL DEF BatchesAreSound
-----------------------------------------------------------------------------
(* THE HOLD OF THE PRICE                                                   *)
(*                                                                         *)
(* Of a payment whose key is not reserved nothing is held; the key is      *)
(* reserved once, so at most one request ever calls the provider for it;   *)
(* and of all payments at most one is live.                                *)

(* What the variables hold.                                                *)
AuthorizationTypeOK ==
  /\ bookingStatus \in {"PROVIDER_PENDING", "CONFIRMED", "SCHEDULED", "CANCELLED"}
  /\ paymentStatus \in [Intents -> {"NONE", "CREATED", "HELD", "FAILED", "REFUNDED",
                                    "AUTHORIZATION_EXPIRED"}]
  /\ authorizeCmd \in [Intents -> {"NONE", "PENDING", "SUCCEEDED", "FAILED"}]
  /\ holds \subseteq Intents /\ unheard \subseteq Intents /\ overtaken \subseteq Intents
  /\ buyer \in [Buyers -> [pc : {"idle", "find", "create", "reserve", "call", "authorized", "declined"},
                           payment : Intents \cup {NoIntent}]]

(* A request that has a payment in hand.                                   *)
Sent(b) == buyer[b].pc \in {"call", "authorized", "declined"}

(* What a request that has got so far relies on.                           *)
RequestInv(b) ==
  /\ buyer[b].pc = "idle" => buyer[b] = Waits
  /\ buyer[b] # Waits => bookingStatus # "PROVIDER_PENDING"
  /\ buyer[b].pc = "reserve" \/ Sent(b) =>
       buyer[b].payment \in Intents /\ paymentStatus[buyer[b].payment] # "NONE"
  /\ Sent(b) => /\ authorizeCmd[buyer[b].payment] = "PENDING"
                /\ buyer[b].payment \notin unheard \cup overtaken
                /\ buyer[b].pc = "authorized" <=> buyer[b].payment \in holds

(* No two requests have sent the same command.                             *)
SentOnce ==
  \A b, c \in Buyers : Sent(b) /\ Sent(c) /\ buyer[b].payment = buyer[c].payment => b = c

(* The command of a payment tells how far the payment is.                  *)
CommandInv(p) ==
  /\ authorizeCmd[p] = "NONE" => /\ paymentStatus[p] \in {"NONE", "CREATED"}
                                 /\ p \notin holds \cup unheard \cup overtaken
  /\ authorizeCmd[p] = "PENDING" =>
       /\ paymentStatus[p] = "CREATED"
       /\ p \in unheard \cup overtaken \/ \E b \in Buyers : Sent(b) /\ buyer[b].payment = p
  /\ authorizeCmd[p] = "SUCCEEDED" =>
       \/ paymentStatus[p] = "HELD" /\ p \in holds
       \/ Ended(p) /\ p \notin holds
  /\ authorizeCmd[p] = "FAILED" => paymentStatus[p] = "FAILED" /\ p \notin holds

(* At most one payment of the booking is live.                             *)
OneLive ==
  \A p, q \in Intents :
    paymentStatus[p] \in {"CREATED", "HELD"} /\ paymentStatus[q] \in {"CREATED", "HELD"} => p = q

(* How far the booking is, and its payments.                               *)
BookingInv ==
  /\ bookingStatus = "PROVIDER_PENDING" \/ bookingStatus = "CONFIRMED" =>
       overtaken = {} /\ \A p \in Intents : paymentStatus[p] \in {"NONE", "CREATED", "FAILED"}
  /\ bookingStatus = "SCHEDULED" => \E p \in Intents : paymentStatus[p] = "HELD" \/ Ended(p)

(* A payment that is held without anyone being about to book it.           *)
AccountedInv ==
  \A p \in holds : paymentStatus[p] = "HELD" \/ p \in InFlight \cup unheard \cup overtaken

AuthorizationInv ==
  /\ AuthorizationTypeOK
  /\ (\A b \in Buyers : RequestInv(b)) /\ SentOnce
  /\ (\A p \in Intents : CommandInv(p)) /\ OneLive
  /\ BookingInv /\ AccountedInv

-----------------------------------------------------------------------------
(* In the states that are reached, live means created or held.             *)
LEMMA LiveMeans ==
  ASSUME AuthorizationTypeOK
  PROVE  LiveIntents = {p \in Intents : paymentStatus[p] \in {"CREATED", "HELD"}}
BY DEF AuthorizationTypeOK, LiveIntents, IsLive

(* Where the steps of the booking lead.                                    *)
LEMMA Leads ==
  /\ \A from : TransitionAllowed(from, "PAYMENT_AUTHORIZED", "SYSTEM") <=> from = "CONFIRMED"
  /\ \A from, actor : TransitionAllowed(from, "CONFIRMED", actor) => from = "PROVIDER_PENDING"
  /\ \A actor : ~TransitionAllowed("CANCELLED", "CANCELLED", actor)
BY DEF TransitionAllowed, BeforeService

(* At first there are no payments.                                         *)
LEMMA AuthorizationStarts == AuthorizationInit => AuthorizationInv
BY DEF AuthorizationInit, AuthorizationInv, AuthorizationTypeOK, RequestInv, Sent, Waits, SentOnce,
       CommandInv, OneLive, BookingInv, AccountedInv

(* The invariant is what is promised.                                      *)
LEMMA AuthorizationPromises == AuthorizationInv => OneHold /\ HoldsAreKnown /\ MayTryAgain
<1> SUFFICES ASSUME AuthorizationInv PROVE OneHold /\ HoldsAreKnown /\ MayTryAgain
  OBVIOUS
<1>1. \A p \in holds : paymentStatus[p] \in {"CREATED", "HELD"}
  BY DEF AuthorizationInv, AuthorizationTypeOK, CommandInv
<1>2. OneHold
  BY <1>1 DEF AuthorizationInv, AuthorizationTypeOK, OneLive, OneHold
<1>3. \A p \in Intents : paymentStatus[p] = "HELD" =>
        p \in holds /\ bookingStatus \in {"SCHEDULED", "CANCELLED"}
  BY DEF AuthorizationInv, AuthorizationTypeOK, CommandInv, BookingInv, Ended
<1>4. HoldsAreKnown
  BY <1>3 DEF HoldsAreKnown, AuthorizationInv, AccountedInv
<1>5. MayTryAgain
  <2> SUFFICES ASSUME bookingStatus = "CONFIRMED", \A b \in Buyers : buyer[b] = Waits,
                      NEW p \in LiveIntents
               PROVE  p \in unheard \/ (paymentStatus[p] = "CREATED" /\ authorizeCmd[p] = "NONE")
    BY DEF MayTryAgain
  <2>1. p \in Intents /\ paymentStatus[p] = "CREATED" /\ overtaken = {}
    BY LiveMeans DEF AuthorizationInv, BookingInv
  <2>2. \A b \in Buyers : ~Sent(b)
    BY DEF Sent, Waits
  <2>3. CASE authorizeCmd[p] = "PENDING"
    BY <2>1, <2>2, <2>3 DEF AuthorizationInv, CommandInv
  <2>4. CASE authorizeCmd[p] # "PENDING"
    BY <2>1, <2>4 DEF AuthorizationInv, AuthorizationTypeOK, CommandInv, Ended
  <2> QED BY <2>3, <2>4
<1> QED BY <1>2, <1>4, <1>5
-----------------------------------------------------------------------------
(* The booking moves.                                                      *)
LEMMA MovesKeeps ==
  ASSUME AuthorizationInv, NEW to, NEW actor, Moves(to, actor)
  PROVE  AuthorizationInv'
<1> USE DEF AuthorizationInv
<1>1. /\ UNCHANGED <<paymentStatus, authorizeCmd, holds, buyer, unheard, overtaken>>
      /\ bookingStatus' = to /\ to \in {"CONFIRMED", "CANCELLED"}
      /\ to = "CONFIRMED" => bookingStatus = "PROVIDER_PENDING"
  BY Leads DEF Moves
<1>2. AuthorizationTypeOK'
  BY <1>1 DEF AuthorizationTypeOK
<1>3. (\A b \in Buyers : RequestInv(b)') /\ SentOnce'
  BY <1>1 DEF RequestInv, Sent, SentOnce
<1>4. (\A p \in Intents : CommandInv(p)') /\ OneLive' /\ AccountedInv'
  BY <1>1 DEF CommandInv, Ended, Sent, OneLive, AccountedInv, InFlight
<1>5. BookingInv'
  BY <1>1 DEF BookingInv
<1> QED BY <1>2, <1>3, <1>4, <1>5

(* A payment that is given back or expires takes its hold with it.         *)
LEMMA HoldEndsKeeps ==
  ASSUME AuthorizationInv, NEW p \in Intents, HoldEnds(p)
  PROVE  AuthorizationInv'
<1> USE DEF AuthorizationInv
<1>1. /\ UNCHANGED <<bookingStatus, authorizeCmd, buyer, unheard, overtaken>>
      /\ paymentStatus[p] = "HELD" /\ holds' = holds \ {p}
      /\ \E to \in {"REFUNDED", "AUTHORIZATION_EXPIRED"} :
           paymentStatus' = [paymentStatus EXCEPT ![p] = to]
  BY DEF HoldEnds
<1>2. AuthorizationTypeOK'
  BY <1>1 DEF AuthorizationTypeOK
<1>3. paymentStatus'[p] \in {"REFUNDED", "AUTHORIZATION_EXPIRED"}
      /\ \A q \in Intents \ {p} : paymentStatus'[q] = paymentStatus[q]
  BY <1>1 DEF AuthorizationTypeOK
<1>4. authorizeCmd[p] = "SUCCEEDED"
  BY <1>1 DEF AuthorizationTypeOK, CommandInv
<1>5. (\A b \in Buyers : RequestInv(b)') /\ SentOnce'
  BY <1>1, <1>3, <1>4 DEF RequestInv, Sent, SentOnce
<1>6. \A q \in Intents : CommandInv(q)'
  BY <1>1, <1>3, <1>4 DEF CommandInv, Ended, Sent
<1>7. OneLive' /\ AccountedInv'
  BY <1>1, <1>3 DEF OneLive, AccountedInv, InFlight
<1>8. BookingInv'
  BY <1>1, <1>3 DEF BookingInv, Ended
<1> QED BY <1>2, <1>5, <1>6, <1>7, <1>8

-----------------------------------------------------------------------------
(* A request that has nothing at the provider moves on, or ends.           *)
LEMMA QuietBuyerKeeps ==
  ASSUME AuthorizationInv, NEW b \in Buyers, ~Sent(b), NEW next,
         next \in [pc : {"idle", "find", "create", "reserve"}, payment : Intents \cup {NoIntent}],
         buyer' = [buyer EXCEPT ![b] = next],
         next.pc = "idle" => next = Waits,
         next # Waits => bookingStatus # "PROVIDER_PENDING",
         next.pc = "reserve" => next.payment \in Intents /\ paymentStatus[next.payment] # "NONE",
         UNCHANGED <<bookingStatus, paymentStatus, authorizeCmd, holds, unheard, overtaken>>
  PROVE  AuthorizationInv'
<1> USE DEF AuthorizationInv
<1>1. buyer'[b] = next /\ \A c \in Buyers \ {b} : buyer'[c] = buyer[c]
  BY DEF AuthorizationTypeOK
<1>2. AuthorizationTypeOK'
  BY DEF AuthorizationTypeOK
<1>3. ~Sent(b)' /\ \A c \in Buyers \ {b} : Sent(c)' = Sent(c)
  BY <1>1 DEF Sent
<1>4. (\A c \in Buyers : RequestInv(c)') /\ SentOnce'
  BY <1>1, <1>3 DEF RequestInv, SentOnce
<1>5. (\A p \in Intents : CommandInv(p)') /\ OneLive' /\ BookingInv'
  BY <1>1, <1>3 DEF CommandInv, Ended, OneLive, BookingInv
<1>6. InFlight' = InFlight
  BY <1>1 DEF InFlight, Sent
<1>7. AccountedInv'
  BY <1>6 DEF AccountedInv
<1> QED BY <1>2, <1>4, <1>5, <1>7

(* The reads without a lock, and a crash before the key is reserved.       *)
LEMMA EarlyStepsKeep ==
  ASSUME AuthorizationInv, NEW b \in Buyers,
         loadBookingForCustomer(b) \/ findLiveForBooking(b) \/ DiesEarly(b)
  PROVE  AuthorizationInv'
<1> DEFINE found(p) == [pc |-> "reserve", payment |-> p]
<1>0. /\ buyer[b] \in [pc : {"idle", "find", "create", "reserve", "call", "authorized", "declined"},
                       payment : Intents \cup {NoIntent}]
      /\ Waits \in [pc : {"idle", "find", "create", "reserve"}, payment : Intents \cup {NoIntent}]
      /\ Waits.pc = "idle"
  BY DEF AuthorizationInv, AuthorizationTypeOK, Waits
<1>1. CASE loadBookingForCustomer(b)
  <2>1. /\ buyer' = [buyer EXCEPT ![b] = [buyer[b] EXCEPT !.pc = "find"]]
        /\ UNCHANGED <<bookingStatus, paymentStatus, authorizeCmd, holds, unheard, overtaken>>
        /\ buyer[b].pc = "idle" /\ bookingStatus # "PROVIDER_PENDING"
    BY <1>1, <1>0 DEF loadBookingForCustomer
  <2>2. [buyer[b] EXCEPT !.pc = "find"] \in [pc : {"find"}, payment : Intents \cup {NoIntent}]
    BY <1>0
  <2> QED BY <2>1, <2>2, QuietBuyerKeeps DEF Sent
<1>2. CASE findLiveForBooking(b)
  <2>1. buyer[b].pc = "find" /\ bookingStatus # "PROVIDER_PENDING"
    BY <1>0, <1>2 DEF findLiveForBooking, AuthorizationInv, RequestInv
  <2>2. CASE buyer' = [buyer EXCEPT ![b].pc = "create"]
    <3>1. [buyer[b] EXCEPT !.pc = "create"] \in [pc : {"create"}, payment : Intents \cup {NoIntent}]
      BY <1>0
    <3> QED BY <1>2, <2>1, <2>2, <3>1, QuietBuyerKeeps DEF Sent, findLiveForBooking
  <2>3. CASE \E p \in LiveIntents : buyer' = [buyer EXCEPT ![b] = found(p)]
    <3>1. PICK p \in LiveIntents : buyer' = [buyer EXCEPT ![b] = found(p)]
      BY <2>3
    <3>2. p \in Intents /\ paymentStatus[p] # "NONE"
      BY DEF LiveIntents
    <3> QED BY <1>2, <2>1, <3>1, <3>2, QuietBuyerKeeps DEF Sent, findLiveForBooking
  <2>4. CASE buyer' = [buyer EXCEPT ![b] = Waits]
    BY <1>0, <1>2, <2>1, <2>4, QuietBuyerKeeps DEF Sent, findLiveForBooking
  <2> QED BY <1>2, <2>2, <2>3, <2>4 DEF findLiveForBooking
<1>3. CASE DiesEarly(b)
  BY <1>0, <1>3, QuietBuyerKeeps DEF Sent, DiesEarly
<1> QED BY <1>1, <1>2, <1>3

(* A row is inserted when none is live.                                    *)
LEMMA NewPaymentKeeps ==
  ASSUME AuthorizationInv, NEW b \in Buyers, createPayment(b)
  PROVE  AuthorizationInv'
<1>0. /\ Waits \in [pc : {"idle"}, payment : Intents \cup {NoIntent}] /\ Waits.pc = "idle"
      /\ buyer[b].pc = "create" /\ bookingStatus # "PROVIDER_PENDING"
  BY DEF Waits, createPayment, AuthorizationInv, RequestInv
<1>1. CASE buyer' = [buyer EXCEPT ![b] = Waits] /\ UNCHANGED paymentStatus
  BY <1>0, <1>1, QuietBuyerKeeps DEF createPayment, Sent
<1>2. CASE /\ LiveIntents = {}
           /\ \E p \in {q \in Intents : paymentStatus[q] = "NONE"} :
                /\ paymentStatus' = [paymentStatus EXCEPT ![p] = "CREATED"]
                /\ buyer' = [buyer EXCEPT ![b] = [pc |-> "reserve", payment |-> p]]
  <2> USE DEF AuthorizationInv
  <2>1. PICK p \in Intents :
           /\ paymentStatus[p] = "NONE" /\ paymentStatus' = [paymentStatus EXCEPT ![p] = "CREATED"]
           /\ buyer' = [buyer EXCEPT ![b] = [pc |-> "reserve", payment |-> p]]
           /\ UNCHANGED <<bookingStatus, authorizeCmd, holds, unheard, overtaken>>
    BY <1>2 DEF createPayment
  <2>2. /\ paymentStatus'[p] = "CREATED"
        /\ \A q \in Intents \ {p} : paymentStatus'[q] = paymentStatus[q]
        /\ buyer'[b] = [pc |-> "reserve", payment |-> p]
        /\ \A c \in Buyers \ {b} : buyer'[c] = buyer[c]
    BY <2>1 DEF AuthorizationTypeOK
  <2>3. \A q \in Intents : paymentStatus[q] \notin {"CREATED", "HELD"}
    BY <1>2, LiveMeans
  <2>4. authorizeCmd[p] = "NONE" /\ p \notin holds
    BY <2>1 DEF AuthorizationTypeOK, CommandInv, Ended
  <2>5. ~Sent(b) /\ ~Sent(b)' /\ \A c \in Buyers \ {b} : Sent(c)' = Sent(c)
    BY <1>0, <2>2 DEF Sent
  <2>6. AuthorizationTypeOK'
    BY <2>1 DEF AuthorizationTypeOK
  <2>7. (\A c \in Buyers : RequestInv(c)') /\ SentOnce'
    BY <1>0, <2>1, <2>2, <2>5 DEF RequestInv, SentOnce, Waits
  <2>8. \A q \in Intents : CommandInv(q)'
    BY <2>1, <2>2, <2>4, <2>5 DEF CommandInv, Ended
  <2>9. OneLive'
    BY <2>2, <2>3 DEF OneLive
  <2>10. BookingInv'
    BY <2>1, <2>2 DEF BookingInv, Ended
  <2>11. AccountedInv'
    <3>1. InFlight' = InFlight
      BY <1>0, <2>2 DEF InFlight
    <3> QED BY <2>1, <2>2, <2>4, <3>1 DEF AccountedInv, AuthorizationTypeOK
  <2> QED BY <2>6, <2>7, <2>8, <2>9, <2>10, <2>11
<1> QED BY <1>1, <1>2 DEF createPayment

(* The key is reserved: from now on this request alone speaks for it.      *)
LEMMA ReserveKeeps ==
  ASSUME AuthorizationInv, NEW b \in Buyers, reserveCommand(b)
  PROVE  AuthorizationInv'
<1> DEFINE p == buyer[b].payment
<1>0. /\ Waits \in [pc : {"idle"}, payment : Intents \cup {NoIntent}] /\ Waits.pc = "idle"
      /\ buyer[b].pc = "reserve" /\ bookingStatus # "PROVIDER_PENDING"
      /\ p \in Intents /\ paymentStatus[p] # "NONE"
  BY DEF Waits, reserveCommand, AuthorizationInv, RequestInv
<1>1. CASE authorizeCmd[p] # "NONE"
  BY <1>0, <1>1, QuietBuyerKeeps DEF reserveCommand, Sent
<1>2. CASE authorizeCmd[p] = "NONE"
  <2> USE DEF AuthorizationInv
  <2>1. /\ authorizeCmd' = [authorizeCmd EXCEPT ![p] = "PENDING"]
        /\ buyer' = [buyer EXCEPT ![b].pc = "call"]
        /\ UNCHANGED <<bookingStatus, paymentStatus, holds, unheard, overtaken>>
    BY <1>2 DEF reserveCommand
  <2>2. /\ authorizeCmd'[p] = "PENDING"
        /\ \A q \in Intents \ {p} : authorizeCmd'[q] = authorizeCmd[q]
        /\ buyer'[b].pc = "call" /\ buyer'[b].payment = p
        /\ \A c \in Buyers \ {b} : buyer'[c] = buyer[c]
    BY <1>0, <2>1 DEF AuthorizationTypeOK
  <2>3. paymentStatus[p] = "CREATED" /\ p \notin holds
    BY <1>0, <1>2 DEF CommandInv
  <2>4. \A c \in Buyers : Sent(c) => buyer[c].payment # p
    BY <1>2 DEF RequestInv
  <2>5. ~Sent(b) /\ Sent(b)' /\ \A c \in Buyers \ {b} : Sent(c)' = Sent(c)
    BY <1>0, <2>2 DEF Sent
  <2>6. AuthorizationTypeOK'
    BY <1>0, <2>1 DEF AuthorizationTypeOK
  <2>7. p \notin unheard \cup overtaken
    BY <1>0, <1>2 DEF CommandInv
  <2>8. (\A c \in Buyers : RequestInv(c)') /\ SentOnce'
    BY <1>0, <2>1, <2>2, <2>3, <2>4, <2>5, <2>7 DEF RequestInv, SentOnce, Waits
  <2>9. \A q \in Intents : CommandInv(q)'
    BY <1>2, <2>1, <2>2, <2>3, <2>4, <2>5 DEF CommandInv, Ended
  <2>10. OneLive' /\ BookingInv'
    BY <2>1 DEF OneLive, BookingInv, Ended
  <2>11. AccountedInv'
    <3>1. InFlight \subseteq InFlight'
      BY <1>0, <2>2 DEF InFlight
    <3> QED BY <2>1, <3>1 DEF AccountedInv
  <2> QED BY <2>6, <2>8, <2>9, <2>10, <2>11
<1> QED BY <1>1, <1>2

(* The provider answers; nobody else waits for this answer.                *)
LEMMA AuthorizeKeeps ==
  ASSUME AuthorizationInv, NEW b \in Buyers, authorize(b)
  PROVE  AuthorizationInv'
<1> USE DEF AuthorizationInv
<1> DEFINE p == buyer[b].payment
<1>1. /\ buyer[b].pc = "call"
      /\ UNCHANGED <<bookingStatus, paymentStatus, authorizeCmd, unheard, overtaken>>
      /\ \/ holds' = holds \cup {p} /\ buyer' = [buyer EXCEPT ![b].pc = "authorized"]
         \/ holds' = holds /\ buyer' = [buyer EXCEPT ![b].pc = "declined"]
  BY DEF authorize
<1>2. /\ p \in Intents /\ paymentStatus[p] = "CREATED" /\ authorizeCmd[p] = "PENDING"
      /\ p \notin holds /\ p \notin unheard \cup overtaken
  BY <1>1 DEF RequestInv, Sent, CommandInv
<1>3. /\ buyer'[b].payment = p /\ \A c \in Buyers \ {b} : buyer'[c] = buyer[c]
      /\ \/ holds' = holds \cup {p} /\ buyer'[b].pc = "authorized"
         \/ holds' = holds /\ buyer'[b].pc = "declined"
  BY <1>1 DEF AuthorizationTypeOK
<1>4. Sent(b) /\ Sent(b)' /\ \A c \in Buyers \ {b} : Sent(c)' = Sent(c)
  BY <1>1, <1>3 DEF Sent
<1>5. AuthorizationTypeOK'
  BY <1>1, <1>2 DEF AuthorizationTypeOK
<1>6. \A c \in Buyers \ {b} : Sent(c) => buyer[c].payment # p
  BY <1>4 DEF SentOnce
<1>7. \A c \in Buyers \ {b} : RequestInv(c)'
  BY <1>1, <1>3, <1>4, <1>6 DEF RequestInv
<1>8. RequestInv(b)' /\ SentOnce'
  BY <1>1, <1>2, <1>3, <1>4 DEF RequestInv, SentOnce, Waits
<1>9. \A q \in Intents : CommandInv(q)'
  BY <1>1, <1>2, <1>3, <1>4 DEF CommandInv, Ended
<1>10. OneLive' /\ BookingInv'
  BY <1>1 DEF OneLive, BookingInv, Ended
<1>11. AccountedInv'
  <2>1. CASE holds' = holds \cup {p} /\ buyer'[b].pc = "authorized"
    <3>1. InFlight \subseteq InFlight' /\ p \in InFlight'
      BY <1>3, <2>1 DEF InFlight
    <3> QED BY <1>1, <2>1, <3>1 DEF AccountedInv
  <2>2. CASE holds' = holds /\ buyer'[b].pc = "declined"
    <3>1. InFlight \subseteq InFlight' \cup {p}
      BY <1>3 DEF InFlight
    <3> QED BY <1>1, <1>2, <2>2, <3>1 DEF AccountedInv
  <2> QED BY <1>3, <2>1, <2>2
<1> QED BY <1>5, <1>7, <1>8, <1>9, <1>10, <1>11

(* An outcome is lost: the command stays pending for ever.                 *)
LEMMA UnheardKeeps ==
  ASSUME AuthorizationInv, NEW b \in Buyers, GoesUnheard(b)
  PROVE  AuthorizationInv'
<1> USE DEF AuthorizationInv
<1> DEFINE p == buyer[b].payment
<1>1. /\ Sent(b) /\ buyer' = [buyer EXCEPT ![b] = Waits] /\ unheard' = unheard \cup {p}
      /\ holds' = holds \/ holds' = holds \cup {p}
      /\ UNCHANGED <<bookingStatus, paymentStatus, authorizeCmd, overtaken>>
  BY DEF GoesUnheard, Sent
<1>2. /\ p \in Intents /\ paymentStatus[p] = "CREATED" /\ authorizeCmd[p] = "PENDING"
  BY <1>1 DEF RequestInv, CommandInv
<1>3. buyer'[b] = Waits /\ \A c \in Buyers \ {b} : buyer'[c] = buyer[c]
  BY <1>1 DEF AuthorizationTypeOK
<1>4. ~Sent(b)' /\ \A c \in Buyers \ {b} : Sent(c)' = Sent(c)
  BY <1>3 DEF Sent, Waits
<1>5. AuthorizationTypeOK'
  BY <1>1, <1>2 DEF AuthorizationTypeOK, Waits
<1>6. \A c \in Buyers \ {b} : Sent(c) => buyer[c].payment # p
  BY <1>1 DEF SentOnce
<1>7. \A c \in Buyers \ {b} : RequestInv(c)'
  BY <1>1, <1>3, <1>4, <1>6 DEF RequestInv
<1>8. RequestInv(b)' /\ SentOnce'
  BY <1>1, <1>3, <1>4 DEF RequestInv, SentOnce, Waits
<1>9. \A q \in Intents : CommandInv(q)'
  BY <1>1, <1>2, <1>3, <1>4 DEF CommandInv, Ended
<1>10. OneLive' /\ BookingInv'
  BY <1>1 DEF OneLive, BookingInv, Ended
<1>11. AccountedInv'
  <2>1. InFlight \subseteq InFlight' \cup {p}
    BY <1>3 DEF InFlight
  <2> QED BY <1>1, <2>1 DEF AccountedInv
<1> QED BY <1>5, <1>7, <1>8, <1>9, <1>10, <1>11

(* A decline closes the command and the payment.                           *)
LEMMA FailureKeeps ==
  ASSUME AuthorizationInv, NEW b \in Buyers, recordCommandFailure(b)
  PROVE  AuthorizationInv'
<1> USE DEF AuthorizationInv
<1> DEFINE p == buyer[b].payment
<1>1. Sent(b) /\ buyer[b].pc = "declined"
  BY DEF recordCommandFailure, Sent
<1>2. /\ p \in Intents /\ paymentStatus[p] = "CREATED" /\ authorizeCmd[p] = "PENDING"
      /\ p \notin holds
  BY <1>1 DEF RequestInv, CommandInv
<1>3. /\ authorizeCmd' = [authorizeCmd EXCEPT ![p] = "FAILED"]
      /\ paymentStatus' = [paymentStatus EXCEPT ![p] = "FAILED"]
      /\ buyer' = [buyer EXCEPT ![b] = Waits]
      /\ UNCHANGED <<bookingStatus, holds, unheard, overtaken>>
  BY <1>2 DEF recordCommandFailure
<1>4. /\ buyer'[b] = Waits /\ \A c \in Buyers \ {b} : buyer'[c] = buyer[c]
      /\ authorizeCmd'[p] = "FAILED" /\ paymentStatus'[p] = "FAILED"
      /\ \A q \in Intents \ {p} :
           authorizeCmd'[q] = authorizeCmd[q] /\ paymentStatus'[q] = paymentStatus[q]
  BY <1>2, <1>3 DEF AuthorizationTypeOK
<1>5. ~Sent(b)' /\ \A c \in Buyers \ {b} : Sent(c)' = Sent(c)
  BY <1>4 DEF Sent, Waits
<1>6. AuthorizationTypeOK'
  BY <1>2, <1>3 DEF AuthorizationTypeOK, Waits
<1>7. \A c \in Buyers \ {b} : Sent(c) => buyer[c].payment # p
  BY <1>1 DEF SentOnce
<1>8. \A c \in Buyers \ {b} : RequestInv(c)'
  BY <1>3, <1>4, <1>5, <1>7 DEF RequestInv
<1>9. RequestInv(b)' /\ SentOnce'
  BY <1>3, <1>4, <1>5 DEF RequestInv, SentOnce, Waits
<1>10. \A q \in Intents : CommandInv(q)'
  BY <1>2, <1>3, <1>4, <1>5 DEF CommandInv, Ended
<1>11. OneLive' /\ BookingInv'
  BY <1>2, <1>3, <1>4 DEF OneLive, BookingInv, Ended
<1>12. AccountedInv'
  <2>1. InFlight \subseteq InFlight' \cup {p}
    BY <1>4 DEF InFlight
  <2> QED BY <1>2, <1>3, <1>4, <2>1 DEF AccountedInv, AuthorizationTypeOK
<1> QED BY <1>6, <1>8, <1>9, <1>10, <1>11, <1>12

(* The answer is booked, or comes too late.                                *)
LEMMA AuthorizedKeeps ==
  ASSUME AuthorizationInv, NEW b \in Buyers, authorizeForBooking(b)
  PROVE  AuthorizationInv'
<1> USE DEF AuthorizationInv
<1> DEFINE p == buyer[b].payment
<1>1. /\ Sent(b) /\ buyer[b].pc = "authorized" /\ buyer[b] # Waits
      /\ buyer' = [buyer EXCEPT ![b] = Waits] /\ UNCHANGED <<holds, unheard>>
  BY DEF authorizeForBooking, Sent, Waits
<1>2. /\ p \in Intents /\ paymentStatus[p] = "CREATED" /\ authorizeCmd[p] = "PENDING"
      /\ p \in holds /\ bookingStatus # "PROVIDER_PENDING"
  BY <1>1 DEF RequestInv, CommandInv
<1>3. buyer'[b] = Waits /\ \A c \in Buyers \ {b} : buyer'[c] = buyer[c]
  BY <1>1 DEF AuthorizationTypeOK
<1>4. ~Sent(b)' /\ \A c \in Buyers \ {b} : Sent(c)' = Sent(c)
  BY <1>3 DEF Sent, Waits
<1>5. \A c \in Buyers \ {b} : Sent(c) => buyer[c].payment # p
  BY <1>1 DEF SentOnce
<1>6. InFlight \subseteq InFlight' \cup {p}
  BY <1>3 DEF InFlight
<1>7. CASE bookingStatus = "CONFIRMED"
  <2>1. /\ authorizeCmd' = [authorizeCmd EXCEPT ![p] = "SUCCEEDED"]
        /\ paymentStatus' = [paymentStatus EXCEPT ![p] = "HELD"]
        /\ bookingStatus' = "SCHEDULED" /\ overtaken' = overtaken
    BY <1>7, Leads DEF authorizeForBooking
  <2>2. /\ authorizeCmd'[p] = "SUCCEEDED" /\ paymentStatus'[p] = "HELD"
        /\ \A q \in Intents \ {p} :
             authorizeCmd'[q] = authorizeCmd[q] /\ paymentStatus'[q] = paymentStatus[q]
    BY <1>2, <2>1 DEF AuthorizationTypeOK
  <2>3. AuthorizationTypeOK'
    BY <1>1, <1>2, <2>1 DEF AuthorizationTypeOK, Waits
  <2>4. \A c \in Buyers \ {b} : RequestInv(c)'
    BY <1>1, <1>3, <1>4, <1>5, <2>1, <2>2 DEF RequestInv
  <2>5. RequestInv(b)' /\ SentOnce'
    BY <1>3, <1>4 DEF RequestInv, SentOnce, Waits
  <2>6. \A q \in Intents : CommandInv(q)'
    BY <1>1, <1>2, <1>3, <1>4, <2>1, <2>2 DEF CommandInv, Ended
  <2>7. OneLive'
    BY <1>2, <2>2 DEF OneLive
  <2>8. BookingInv'
    BY <1>2, <2>1, <2>2 DEF BookingInv
  <2>9. AccountedInv'
    BY <1>1, <1>6, <2>1, <2>2 DEF AccountedInv, AuthorizationTypeOK
  <2> QED BY <2>3, <2>4, <2>5, <2>6, <2>7, <2>8, <2>9
<1>8. CASE bookingStatus # "CONFIRMED"
  <2>1. bookingStatus = "CANCELLED" \/ \E q \in Intents : Ended(q)
    BY <1>2, <1>8 DEF AuthorizationTypeOK, BookingInv, OneLive, Ended
  <2>2. /\ UNCHANGED <<bookingStatus, paymentStatus, authorizeCmd>>
        /\ overtaken' = overtaken \cup {p}
    BY <1>8, <2>1, Leads DEF authorizeForBooking
  <2>3. AuthorizationTypeOK'
    BY <1>1, <1>2, <2>2 DEF AuthorizationTypeOK, Waits
  <2>4. \A c \in Buyers \ {b} : RequestInv(c)'
    BY <1>1, <1>3, <1>4, <1>5, <2>2 DEF RequestInv
  <2>5. RequestInv(b)' /\ SentOnce'
    BY <1>3, <1>4 DEF RequestInv, SentOnce, Waits
  <2>6. \A q \in Intents : CommandInv(q)'
    BY <1>1, <1>2, <1>3, <1>4, <2>2 DEF CommandInv, Ended
  <2>7. OneLive' /\ BookingInv'
    BY <1>2, <1>8, <2>2 DEF OneLive, BookingInv, Ended
  <2>8. AccountedInv'
    BY <1>1, <1>6, <2>2 DEF AccountedInv
  <2> QED BY <2>3, <2>4, <2>5, <2>6, <2>7, <2>8
<1> QED BY <1>7, <1>8

-----------------------------------------------------------------------------
(* Every step keeps the invariant.                                         *)
LEMMA AuthorizationStep ==
  AuthorizationInv /\ [AuthorizationNext]_authorizationVars => AuthorizationInv'
<1> SUFFICES ASSUME AuthorizationInv, [AuthorizationNext]_authorizationVars PROVE AuthorizationInv'
  OBVIOUS
<1>1. CASE UNCHANGED authorizationVars
  BY <1>1 DEF authorizationVars, AuthorizationInv, AuthorizationTypeOK, RequestInv, Sent, SentOnce,
    CommandInv, Ended, OneLive, BookingInv, AccountedInv, InFlight
<1>2. CASE AuthorizationNext
  BY <1>2, MovesKeeps, HoldEndsKeeps, EarlyStepsKeep, NewPaymentKeeps, ReserveKeeps, AuthorizeKeeps,
    UnheardKeeps, FailureKeeps, AuthorizedKeeps DEF AuthorizationNext
<1> QED BY <1>1, <1>2

(* The invariant holds whatever happens.                                   *)
LEMMA AuthorizationInvariance == AuthorizationSpec => []AuthorizationInv
BY AuthorizationStarts, AuthorizationStep, PTL DEF AuthorizationSpec

(* The customer's limit is blocked once at most for a booking, because the *)
(* AUTHORIZE key of a payment is reserved once and one payment is live.    *)
THEOREM NeverTwoHolds == AuthorizationSpec => []OneHold
BY AuthorizationInvariance, AuthorizationPromises, PTL

(* Money that is held without a payment saying so is on its way into the   *)
(* books, or was lost in one of the two ways that HoldsAreKnown names.     *)
THEOREM EveryHoldIsKnown == AuthorizationSpec => []HoldsAreKnown
BY AuthorizationInvariance, AuthorizationPromises, PTL

(* A confirmed booking that waits for its payment can be paid, unless the  *)
(* outcome of an earlier attempt is unknown.                               *)
THEOREM ThereIsAnotherTry == AuthorizationSpec => []MayTryAgain
BY AuthorizationInvariance, AuthorizationPromises, PTL

(* For any number of requests and payments of a booking authorizeForBooking*)
(* holds money once, knows of it, and leaves room for another try.         *)
THEOREM HoldsAreInHand == AuthorizationSpec => []OneHoldAndAnotherTry
<1>1. OneHold /\ HoldsAreKnown /\ MayTryAgain => OneHoldAndAnotherTry
  BY DEF OneHoldAndAnotherTry
<1> QED BY <1>1, NeverTwoHolds, EveryHoldIsKnown, ThereIsAnotherTry, PTL
-----------------------------------------------------------------------------
(* THE INTAKE                                                              *)
(*                                                                         *)
(* What is stored never changes: it is a request of the right shape, which *)
(* was sure enough and whose window was made to hold the job.              *)
IntakeOK ==
  /\ rate \in Nat
  /\ stored # NoRecord =>
       stored \in [from : Int, to : Int, minutes : 30..1440, confidence : MinConfidence..100]
  /\ StoredIsMatchable

(* Rounding up to the next kurus covers what is rounded, and rounding two  *)
(* parts comes to no less than rounding their sum.                         *)
LEMMA RoundingUp ==
  ASSUME NEW a \in Nat, NEW b \in Nat
  PROVE  /\ 60 * ((a + 59) \div 60) >= a
         /\ ((a + 59) \div 60) + ((b + 59) \div 60) >= (a + b + 59) \div 60
OBVIOUS

(* The price of a job is fair to its time.                                 *)
LEMMA PriceIsFair ==
  ASSUME rate \in Nat, NEW m \in Nat
  PROVE  /\ pricing = "HOURLY" => 60 * priceFor(m) >= rate * m
         /\ \A part \in 1..(m - 1) : priceFor(part) + priceFor(m - part) >= priceFor(m)
<1>1. rate * m \in Nat
  OBVIOUS
<1>2. pricing = "HOURLY" => 60 * priceFor(m) >= rate * m
  BY <1>1, RoundingUp DEF priceFor
<1>3. ASSUME NEW part \in 1..(m - 1)
      PROVE  priceFor(part) + priceFor(m - part) >= priceFor(m)
  <2>1. /\ part \in Nat /\ m - part \in Nat
        /\ rate * part \in Nat /\ rate * (m - part) \in Nat
    OBVIOUS
  <2>2. rate * part + rate * (m - part) = rate * m
    OBVIOUS
  <2>3. ((rate * part + 59) \div 60) + ((rate * (m - part) + 59) \div 60)
          >= (rate * part + rate * (m - part) + 59) \div 60
    BY <2>1, RoundingUp
  <2>4. CASE pricing = "FIXED"
    BY <2>4 DEF priceFor
  <2>5. CASE pricing # "FIXED"
    BY <2>2, <2>3, <2>5 DEF priceFor
  <2> QED BY <2>4, <2>5
<1> QED BY <1>2, <1>3

(* An answer that is sure becomes a request whose window holds the job.    *)
LEMMA AnswersAreMadeToFit ==
  ASSUME NEW a \in Answers, Sure(a)
  PROVE  /\ resolveWindow(a) \in [from : Int, to : Int, minutes : 30..1440,
                                  confidence : MinConfidence..100]
         /\ resolveWindow(a).to - resolveWindow(a).from >= resolveWindow(a).minutes
<1>1. /\ a.confidence \in MinConfidence..100 /\ a.minutes \in 30..1440
      /\ a.start \in Int /\ a.end \in Int
  BY IntakeAssumption DEF Sure, Understood
<1>2. PICK s, e, m, k : s = a.start /\ e = a.end /\ m = a.minutes /\ k = a.confidence
  OBVIOUS
<1>3. resolveWindow(a) = [from |-> s, to |-> IF e - s < m THEN s + m ELSE e,
                          minutes |-> m, confidence |-> k]
  BY <1>2 DEF resolveWindow
<1>4. s \in Int /\ e \in Int /\ m \in 30..1440 /\ k \in MinConfidence..100
  BY <1>1, <1>2
<1> QED BY <1>3, <1>4

(* Whatever the language service answers and whatever goes out of offer in *)
(* between, what is stored can be matched, and its price is fair.          *)
THEOREM WhatIsStoredIsFair == IntakeSpec => []IntakeInv
<1> USE IntakeAssumption
<1>1. IntakeInit => IntakeOK
  BY DEF IntakeInit, IntakeOK, StoredIsMatchable
<1>2. IntakeOK /\ [IntakeNext]_intakeVars => IntakeOK'
  <2> SUFFICES ASSUME IntakeOK, [IntakeNext]_intakeVars PROVE IntakeOK'
    OBVIOUS
  <2>1. CASE UNCHANGED <<rate, stored>>
    BY <2>1 DEF IntakeOK, StoredIsMatchable
  <2>2. ASSUME NEW a \in Answers, Parsed(a) PROVE IntakeOK'
    <3>1. CASE Sure(a) /\ offered
      <4>1. stored' = resolveWindow(a) /\ rate' = rate
        BY <2>2, <3>1 DEF Parsed
      <4> QED BY <3>1, <4>1, AnswersAreMadeToFit DEF IntakeOK, StoredIsMatchable
    <3>2. CASE ~(Sure(a) /\ offered)
      BY <2>1, <2>2, <3>2 DEF Parsed
    <3> QED BY <3>1, <3>2
  <2>3. ASSUME NEW f \in Forms, createFromForm(f) PROVE IntakeOK'
    <3>1. f \in [from : Int, to : Int, minutes : 30..1440, confidence : MinConfidence..100]
      OBVIOUS
    <3> QED BY <2>3, <3>1 DEF createFromForm, IntakeOK, StoredIsMatchable
  <2>4. CASE createFromText \/ Unavailable \/ archiveAddress \/ Deactivated \/ UNCHANGED intakeVars
    BY <2>1, <2>4 DEF createFromText, Unavailable, archiveAddress, Deactivated, intakeVars
  <2> QED BY <2>2, <2>3, <2>4 DEF IntakeNext
<1>3. IntakeOK => IntakeInv
  <2> SUFFICES ASSUME IntakeOK, stored # NoRecord PROVE PriceCoversTime
    BY DEF IntakeOK, IntakeInv, PriceCoversTime
  <2>1. PICK m \in Nat : m = stored.minutes
    BY DEF IntakeOK
  <2>2. /\ pricing = "HOURLY" => 60 * priceFor(m) >= rate * m
        /\ \A part \in 1..(m - 1) : priceFor(part) + priceFor(m - part) >= priceFor(m)
    BY PriceIsFair DEF IntakeOK
  <2> QED BY <2>1, <2>2 DEF PriceCoversTime
<1> QED BY <1>1, <1>2, <1>3, PTL DEF IntakeSpec
-----------------------------------------------------------------------------
(* THE SERVICE AREAS                                                       *)
(*                                                                         *)
(* A row that is inserted takes one of the places that the trigger saw; a  *)
(* form never waits for two rows, so no more places are taken than there   *)
(* are forms.  An area is in the form that describes it or in the table,   *)
(* and in both only when the answer was lost.                              *)
Adding == {f \in AreaForms : adding[f] # NoArea}

PlacesSuffice == Cardinality(areas) + Cardinality(Adding) < MaxAreas + Cardinality(AreaForms)

FormOK(f) ==
  /\ wish[f] \in 0..wishes
  /\ adding[f] \in {NoArea, wish[f]}
  /\ wish[f] # 0 =>
       /\ \A r \in areas : r.wish = wish[f] => wish[f] \in lostWishes
       /\ \A g \in AreaForms : wish[g] = wish[f] => g = f

AreasOK ==
  /\ wishes \in Nat /\ wish \in [AreaForms -> Nat] /\ adding \in [AreaForms -> Nat \cup {NoArea}]
  /\ IsFiniteSet(areas) /\ \A r \in areas : r.wish \in 1..wishes
  /\ PlacesSuffice /\ TwinsAreExcused
  /\ \A f \in AreaForms : FormOK(f) /\ adding[f] # 0

(* The forms that are adding are some of the forms.                        *)
LEMMA AddingIsFinite ==
  /\ IsFiniteSet(Adding) /\ Cardinality(Adding) \in Nat
  /\ Cardinality(AreaForms) \in Nat /\ Cardinality(Adding) <= Cardinality(AreaForms)
BY AreasAssumption, FS_Subset, FS_CardinalityType DEF Adding

(* A new row is one row more at most, whatever its number is.              *)
LEMMA OneAreaMore ==
  ASSUME AreasOK, NEW f \in AreaForms, adding[f] # NoArea, areas' = WithArea(f)
  PROVE  \E i : /\ areas' = areas \cup {[id |-> i, wish |-> wish[f]]}
                /\ IsFiniteSet(areas') /\ Cardinality(areas') <= Cardinality(areas) + 1
<1>1. adding[f] = wish[f]
  BY DEF AreasOK, FormOK
<1>2. PICK i : areas' = areas \cup {[id |-> i, wish |-> wish[f]]}
  BY <1>1 DEF WithArea
<1>3. PICK x : x = [id |-> i, wish |-> wish[f]]
  OBVIOUS
<1>4. IsFiniteSet(areas) /\ areas' = areas \cup {x}
  BY <1>2, <1>3 DEF AreasOK
<1>5. IsFiniteSet(areas') /\ Cardinality(areas') <= Cardinality(areas) + 1
  <2>1. IsFiniteSet(areas \cup {x}) /\ Cardinality(areas) \in Nat
    BY <1>4, FS_AddElement, FS_CardinalityType
  <2>2. Cardinality(areas \cup {x}) = Cardinality(areas) \/ Cardinality(areas \cup {x}) = Cardinality(areas) + 1
    BY <1>4, FS_AddElement
  <2> QED BY <1>4, <2>1, <2>2
<1> QED BY <1>2, <1>5

(* A form that has nothing to add any more frees a place.                  *)
LEMMA OneAddingLess ==
  ASSUME AreasOK, NEW f \in AreaForms, adding[f] # NoArea, adding' = [adding EXCEPT ![f] = NoArea]
  PROVE  Cardinality(Adding') = Cardinality(Adding) - 1
<1>1. Adding' = Adding \ {f} /\ f \in Adding
  BY DEF Adding, AreasOK
<1> QED BY <1>1, AddingIsFinite, FS_RemoveElement

(* A form describes an area that nobody has asked for before.              *)
LEMMA DescribingKeepsAreas ==
  ASSUME AreasOK, NEW f \in AreaForms, Describes(f)
  PROVE  AreasOK'
<1>1. /\ wish[f] = 0 /\ wishes' = wishes + 1 /\ wish' = [wish EXCEPT ![f] = wishes + 1]
      /\ UNCHANGED <<areas, adding, lostWishes>>
  BY DEF Describes
<1>2. adding[f] = NoArea
  BY <1>1 DEF AreasOK, FormOK
<1>3. ASSUME NEW g \in AreaForms PROVE FormOK(g)'
  <2>1. CASE g = f
    <3>1. /\ wish'[g] = wishes + 1 /\ \A h \in AreaForms : wish'[h] = wishes + 1 => h = f
          /\ \A r \in areas : r.wish # wishes + 1
      BY <1>1, <2>1 DEF AreasOK, FormOK
    <3> QED BY <1>1, <1>2, <2>1, <3>1 DEF AreasOK, FormOK
  <2>2. CASE g # f
    BY <1>1, <2>2 DEF AreasOK, FormOK
  <2> QED BY <2>1, <2>2
<1>4. Adding' = Adding
  BY <1>1 DEF Adding
<1> QED BY <1>1, <1>3, <1>4 DEF AreasOK, PlacesSuffice, TwinsAreExcused

(* The trigger has seen room for the row.                                  *)
LEMMA AddingKeepsAreas ==
  ASSUME AreasOK, NEW f \in AreaForms, addServiceArea(f)
  PROVE  AreasOK'
<1>1. /\ wish[f] # 0 /\ adding' = [adding EXCEPT ![f] = wish[f]] /\ Cardinality(areas) < MaxAreas
      /\ UNCHANGED <<areas, wish, wishes, lostWishes>>
  BY DEF addServiceArea
<1>2. PlacesSuffice'
  <2>1. Adding' \subseteq AreaForms
    BY DEF Adding
  <2>2. Cardinality(Adding') \in Nat /\ Cardinality(Adding') <= Cardinality(AreaForms)
    BY <2>1, AreasAssumption, FS_Subset, FS_CardinalityType
  <2>3. Cardinality(areas) \in Nat
    BY FS_CardinalityType DEF AreasOK
  <2> QED BY <1>1, <2>2, <2>3, AddingIsFinite, AreasAssumption DEF PlacesSuffice
<1>3. \A g \in AreaForms : FormOK(g)' /\ adding'[g] # 0
  BY <1>1 DEF AreasOK, FormOK
<1> QED BY <1>1, <1>2, <1>3 DEF AreasOK, TwinsAreExcused

(* A committed row leaves the form, unless its answer is lost.             *)
LEMMA CommitKeepsAreas ==
  ASSUME AreasOK, NEW f \in AreaForms, AreaAdded(f)
  PROVE  AreasOK'
<1>1. /\ adding[f] # NoArea /\ areas' = WithArea(f) /\ adding' = [adding EXCEPT ![f] = NoArea]
      /\ wishes' = wishes
      /\ \/ wish' = [wish EXCEPT ![f] = 0] /\ lostWishes' = lostWishes
         \/ wish' = wish /\ lostWishes' = lostWishes \cup {wish[f]}
  BY DEF AreaAdded, AreasOK, FormOK
<1>2. PICK i : /\ areas' = areas \cup {[id |-> i, wish |-> wish[f]]}
               /\ IsFiniteSet(areas') /\ Cardinality(areas') <= Cardinality(areas) + 1
  BY <1>1, OneAreaMore
<1>3. wish[f] \in 1..wishes /\ wish[f] # 0
  BY <1>1 DEF AreasOK, FormOK
<1>4. PlacesSuffice'
  <2>1. Cardinality(areas') \in Nat /\ Cardinality(areas) \in Nat
    BY <1>2, FS_CardinalityType DEF AreasOK
  <2>2. Cardinality(Adding') = Cardinality(Adding) - 1
    BY <1>1, OneAddingLess
  <2> QED BY <1>2, <2>1, <2>2, AddingIsFinite, AreasAssumption DEF AreasOK, PlacesSuffice
<1>5. PICK x : x = [id |-> i, wish |-> wish[f]]
  OBVIOUS
<1>6. x.wish = wish[f] /\ areas' = areas \cup {x} /\ x.wish \in 1..wishes
  BY <1>2, <1>3, <1>5
<1>7. TwinsAreExcused'
  <2> SUFFICES ASSUME NEW r \in areas', NEW q \in areas', r.wish = q.wish, r.wish \notin lostWishes'
               PROVE  r = q
    BY DEF TwinsAreExcused
  <2>1. r.wish \notin lostWishes
    BY <1>1
  <2>2. \A p \in areas : p.wish = wish[f] => wish[f] \in lostWishes
    BY <1>3 DEF AreasOK, FormOK
  <2> QED BY <1>6, <2>1, <2>2 DEF AreasOK, TwinsAreExcused
<1>8. ASSUME NEW g \in AreaForms PROVE FormOK(g)' /\ adding'[g] # 0
  <2>1. adding'[g] # 0 /\ adding'[g] \in {NoArea, wish'[g]} /\ wish'[g] \in 0..wishes'
    BY <1>1, AreasAssumption DEF AreasOK, FormOK
  <2>2. ASSUME wish'[g] # 0
        PROVE  /\ \A r \in areas' : r.wish = wish'[g] => wish'[g] \in lostWishes'
               /\ \A h \in AreaForms : wish'[h] = wish'[g] => h = g
    <3>1. wish'[g] = wish[g] /\ lostWishes \subseteq lostWishes'
      BY <1>1, <2>2 DEF AreasOK
    <3>2. \A h \in AreaForms : wish'[h] = wish'[g] => h = g
      BY <1>1, <2>2, <3>1 DEF AreasOK, FormOK
    <3>3. ASSUME NEW r \in areas', r.wish = wish'[g] PROVE wish'[g] \in lostWishes'
      <4>1. CASE r \in areas
        BY <2>2, <3>1, <3>3, <4>1 DEF AreasOK, FormOK
      <4>2. CASE r = x
        <5>1. wish[g] = wish[f] /\ g = f
          BY <1>3, <1>6, <3>1, <3>3, <4>2 DEF AreasOK, FormOK
        <5> QED BY <1>1, <1>3, <2>2, <3>1, <5>1 DEF AreasOK
      <4> QED BY <1>6, <3>3, <4>1, <4>2
    <3> QED BY <3>2, <3>3
  <2> QED BY <2>1, <2>2 DEF FormOK
<1> QED BY <1>1, <1>2, <1>4, <1>6, <1>7, <1>8 DEF AreasOK

(* A removal makes room.                                                   *)
LEMMA RemovalKeepsAreas ==
  ASSUME AreasOK, NEW r \in areas, removeServiceArea(r)
  PROVE  AreasOK'
<1>1. areas' = areas \ {r} /\ UNCHANGED <<adding, wish, wishes, lostWishes>>
  BY DEF removeServiceArea
<1>2. IsFiniteSet(areas') /\ Cardinality(areas') = Cardinality(areas) - 1 /\ Cardinality(areas) \in Nat
  BY <1>1, FS_RemoveElement, FS_CardinalityType DEF AreasOK
<1>3. PlacesSuffice' /\ Adding' = Adding
  BY <1>1, <1>2, AddingIsFinite, AreasAssumption DEF AreasOK, PlacesSuffice, Adding
<1>4. \A f \in AreaForms : FormOK(f)'
  BY <1>1 DEF AreasOK, FormOK
<1> QED BY <1>1, <1>2, <1>3, <1>4 DEF AreasOK, TwinsAreExcused

(* The limit is passed only by as many forms as race for the last place,   *)
(* and an area is doubled only by a lost answer.                           *)
THEOREM AreasAreLimited == AreasInit /\ [][AreasNext]_areaVars => []AreasInv
<1>1. AreasInit => AreasOK
  <2> SUFFICES ASSUME AreasInit PROVE AreasOK
    OBVIOUS
  <2>1. Adding = {} /\ areas = {}
    BY DEF AreasInit, Adding
  <2>2. PlacesSuffice
    BY <2>1, FS_EmptySet, AddingIsFinite, AreasAssumption DEF PlacesSuffice
  <2> QED BY <2>1, <2>2, FS_EmptySet, AreasAssumption DEF AreasInit, AreasOK, FormOK, TwinsAreExcused
<1>2. AreasOK /\ [AreasNext]_areaVars => AreasOK'
  <2> SUFFICES ASSUME AreasOK, [AreasNext]_areaVars PROVE AreasOK'
    OBVIOUS
  <2>1. ASSUME NEW f \in AreaForms, Describes(f) \/ addServiceArea(f) \/ AreaAdded(f) PROVE AreasOK'
    BY <2>1, DescribingKeepsAreas, AddingKeepsAreas, CommitKeepsAreas
  <2>2. ASSUME NEW r \in areas, removeServiceArea(r) PROVE AreasOK'
    BY <2>2, RemovalKeepsAreas
  <2>3. CASE UNCHANGED areaVars
    BY <2>3 DEF areaVars, AreasOK, FormOK, PlacesSuffice, TwinsAreExcused, Adding
  <2> QED BY <2>1, <2>2, <2>3 DEF AreasNext
<1>3. AreasOK => AreasInv
  BY AddingIsFinite, FS_CardinalityType, AreasAssumption DEF AreasOK, PlacesSuffice, AreasInv, AreasUnlessRaced
<1> QED BY <1>1, <1>2, <1>3, PTL
-----------------------------------------------------------------------------
(* THE APPROVAL OF A PROVIDER                                              *)
(*                                                                         *)
(* One transaction at a time has read the state, and nobody else writes it *)
(* until that one ends.  Each panel has a number of its own, and its key   *)
(* has an answer once the decision has been written.                       *)
OneDecides ==
  \A x \in Sessions \cup Admins : deciding[x] # Unset =>
    /\ deciding[x].from = approval /\ approval # "NONE"
    /\ \A y \in Sessions \cup Admins : deciding[y] # Unset => y = x

Numbered(panel, k) ==
  panel = [n |-> panel.n, key |-> <<panel.n, 0>>, to |-> panel.to] /\ panel.n \in 1..k

KeysAreNumbered ==
  /\ pressed \in 0..MaxPresses
  /\ \A k \in keyed : \E p \in 1..pressed : k = <<p, 0>>
  /\ \A a \in Admins : press[a] # Unset =>
       /\ Numbered(press[a], pressed)
       /\ \A b \in Admins : press[b] # Unset /\ press[b].n = press[a].n => b = a

ActsAreKeyed ==
  /\ \A p \in 1..MaxPresses : acts[p] \in {0, 1} /\ (acts[p] = 1 => <<p, 0>> \in keyed)
  /\ \A a \in Admins : deciding[a] # Unset => press[a] # Unset /\ press[a].key \notin keyed

(* What a session shows is there, or went away since.                      *)
ShownOrGone == \A s \in Sessions : glance[s] \subseteq present \cup gone[s]

OnboardingShape ==
  /\ deciding = [x \in Sessions \cup Admins |-> deciding[x]]
  /\ press = [a \in Admins |-> press[a]]
  /\ acts = [p \in 1..MaxPresses |-> acts[p]]
  /\ glance = [s \in Sessions |-> glance[s]] /\ gone = [s \in Sessions |-> gone[s]]

OnboardingOK == OnboardingShape /\ OneDecides /\ KeysAreNumbered /\ ActsAreKeyed /\ ShownOrGone

(* A step that leaves the decisions alone.                                 *)
LEMMA ApartFromDecisions ==
  ASSUME OnboardingOK, UNCHANGED <<deciding, press, pressed, keyed, acts>>,
         approval' = approval \/ approval = "NONE",
         glance' = [s \in Sessions |-> glance'[s]], gone' = [s \in Sessions |-> gone'[s]],
         ShownOrGone'
  PROVE  OnboardingOK'
BY DEF OnboardingOK, OnboardingShape, OneDecides, KeysAreNumbered, ActsAreKeyed

(* What is needed comes and goes, and the screens read it.                 *)
LEMMA ReadinessKeepsOnboarding ==
  ASSUME OnboardingOK,
         \/ createProvider
         \/ \E i \in Needed : addService(i)
         \/ \E s \in Sessions, i \in Needed : Rereads(s, i)
  PROVE  OnboardingOK'
<1> USE DEF OnboardingOK
<1>1. CASE createProvider
  BY <1>1, ApartFromDecisions DEF createProvider, readinessVars, ShownOrGone, OnboardingShape
<1>2. ASSUME NEW i \in Needed, addService(i) PROVE OnboardingOK'
  <2>1. /\ UNCHANGED <<approval, glance, deciding, press, pressed, keyed, acts>>
        /\ present' = IF i \in present THEN present \ {i} ELSE present \cup {i}
        /\ gone' = [s \in Sessions |-> IF i \in present THEN gone[s] \cup {i} ELSE gone[s]]
    BY <1>2 DEF addService
  <2>2. ShownOrGone'
    BY <2>1 DEF ShownOrGone
  <2> QED BY <2>1, <2>2, ApartFromDecisions DEF OnboardingShape
<1>3. ASSUME NEW s \in Sessions, NEW i \in Needed, Rereads(s, i) PROVE OnboardingOK'
  <2>1. /\ UNCHANGED <<approval, present, deciding, press, pressed, keyed, acts>>
        /\ glance' = [glance EXCEPT ![s] = IF i \in present THEN @ \cup {i} ELSE @ \ {i}]
        /\ gone' = [gone EXCEPT ![s] = @ \ {i}]
    BY <1>3 DEF Rereads
  <2>2. \A t \in Sessions : glance'[t] \subseteq present \cup gone'[t]
    <3> SUFFICES ASSUME NEW t \in Sessions PROVE glance'[t] \subseteq present \cup gone'[t]
      OBVIOUS
    <3>1. CASE t = s
      BY <2>1, <3>1 DEF OnboardingShape, ShownOrGone
    <3>2. CASE t # s
      BY <2>1, <3>2 DEF OnboardingShape, ShownOrGone
    <3> QED BY <3>1, <3>2
  <2>3. /\ glance' = [t \in Sessions |-> glance'[t]] /\ gone' = [t \in Sessions |-> gone'[t]]
        /\ ShownOrGone'
    BY <2>1, <2>2 DEF OnboardingShape, ShownOrGone
  <2> QED BY <2>1, <2>3, ApartFromDecisions
<1> QED BY <1>1, <1>2, <1>3

(* A transition begins when nobody else is at one.                         *)
LEMMA BeginningKeepsOnboarding ==
  ASSUME OnboardingOK, NEW x \in Sessions \cup Admins, NEW to, NEW actor,
         applyTransition(x, to, actor), x \in Admins => press[x] # Unset /\ press[x].key \notin keyed,
         UNCHANGED <<approval, readinessVars, press, pressed, keyed, acts>>
  PROVE  OnboardingOK'
<1>1. /\ \A y \in Sessions \cup Admins : deciding[y] = Unset
      /\ <<approval, to, actor>> \in Transitions
      /\ deciding' = [deciding EXCEPT ![x] = [from |-> approval, to |-> to]]
  BY DEF applyTransition
<1>2. approval # "NONE"
  BY <1>1 DEF Transitions
<1>3. /\ deciding' = [y \in Sessions \cup Admins |-> deciding'[y]]
      /\ deciding'[x] = [from |-> approval, to |-> to]
      /\ \A y \in Sessions \cup Admins : y # x => deciding'[y] = Unset
  BY <1>1 DEF OnboardingOK, OnboardingShape
<1>4. OneDecides'
  BY <1>2, <1>3 DEF OneDecides
<1>5. ActsAreKeyed'
  BY <1>3 DEF OnboardingOK, ActsAreKeyed
<1> QED BY <1>3, <1>4, <1>5 DEF OnboardingOK, OnboardingShape, KeysAreNumbered, ShownOrGone, readinessVars

(* The one transaction ends, and writes the state.                         *)
LEMMA EndOfDecision ==
  ASSUME OnboardingOK, NEW x \in Sessions \cup Admins, deciding[x] # Unset,
         deciding' = [deciding EXCEPT ![x] = Unset]
  PROVE  /\ deciding' = [y \in Sessions \cup Admins |-> deciding'[y]]
         /\ \A y \in Sessions \cup Admins : deciding'[y] = Unset
BY DEF OnboardingOK, OnboardingShape, OneDecides

(* A submission is written whole, and changes no decision under way.       *)
LEMMA SubmissionKeepsOnboarding ==
  ASSUME OnboardingOK, NEW s \in Sessions, Submitted(s)
  PROVE  OnboardingOK'
<1>1. /\ deciding' = [y \in Sessions \cup Admins |-> deciding'[y]]
      /\ \A y \in Sessions \cup Admins : deciding'[y] = Unset
  BY EndOfDecision DEF Submitted
<1>2. UNCHANGED <<readinessVars, press, pressed, keyed, acts>>
  BY DEF Submitted
<1> QED BY <1>1, <1>2 DEF OnboardingOK, OnboardingShape, OneDecides, KeysAreNumbered, ActsAreKeyed,
                          ShownOrGone, readinessVars

(* A panel that closes, or opens with the next number.                     *)
LEMMA PanelKeepsOnboarding ==
  ASSUME OnboardingOK, NEW a \in Admins, deciding[a] = Unset,
         UNCHANGED <<approval, readinessVars, deciding, keyed, acts>>,
         \/ press' = [press EXCEPT ![a] = Unset] /\ pressed' = pressed
         \/ \E to : /\ pressed < MaxPresses /\ pressed' = pressed + 1
                    /\ press' = [press EXCEPT ![a] = [n |-> pressed + 1, key |-> <<pressed + 1, 0>>, to |-> to]]
  PROVE  OnboardingOK'
<1> USE OnboardingAssumption
<1>1. /\ press' = [b \in Admins |-> press'[b]] /\ \A b \in Admins : b # a => press'[b] = press[b]
      /\ pressed' \in 0..MaxPresses /\ pressed <= pressed'
  BY DEF OnboardingOK, OnboardingShape, KeysAreNumbered
<1>2. KeysAreNumbered'
  <2>1. CASE press' = [press EXCEPT ![a] = Unset] /\ pressed' = pressed
    BY <1>1, <2>1 DEF OnboardingOK, OnboardingShape, KeysAreNumbered
  <2>2. ASSUME NEW to, pressed < MaxPresses, pressed' = pressed + 1,
               press' = [press EXCEPT ![a] = [n |-> pressed + 1, key |-> <<pressed + 1, 0>>, to |-> to]]
        PROVE  KeysAreNumbered'
    <3>1. /\ press'[a] = [n |-> pressed + 1, key |-> <<pressed + 1, 0>>, to |-> to]
          /\ press'[a].n = pressed + 1 /\ press'[a].to = to
      BY <2>2 DEF OnboardingOK, OnboardingShape
    <3>2. pressed \in Nat /\ pressed' = pressed + 1
      BY <2>2 DEF OnboardingOK, KeysAreNumbered
    <3>3. \A k \in keyed' : \E p \in 1..pressed' : k = <<p, 0>>
      BY <3>2 DEF OnboardingOK, KeysAreNumbered
    <3>4. Numbered(press'[a], pressed')
      BY <3>1, <3>2 DEF Numbered
    <3>5. ASSUME NEW b \in Admins, b # a, press'[b] # Unset
          PROVE  /\ Numbered(press'[b], pressed') /\ press'[b].n # press'[a].n
                 /\ \A d \in Admins : d # a /\ press'[d] # Unset /\ press'[d].n = press'[b].n => d = b
      <4>1. press'[b] = press[b] /\ Numbered(press[b], pressed)
        BY <1>1, <3>5 DEF OnboardingOK, KeysAreNumbered
      <4>2. Numbered(press'[b], pressed') /\ press'[b].n # press'[a].n
        BY <3>1, <3>2, <4>1 DEF Numbered
      <4>3. ASSUME NEW d \in Admins, d # a, press'[d] # Unset, press'[d].n = press'[b].n PROVE d = b
        <5>1. press'[d] = press[d]
          BY <1>1, <4>3
        <5> QED BY <3>5, <4>1, <4>3, <5>1 DEF OnboardingOK, KeysAreNumbered
      <4> QED BY <4>2, <4>3
    <3>6. ASSUME NEW b \in Admins, press'[b] # Unset
          PROVE  /\ Numbered(press'[b], pressed')
                 /\ \A d \in Admins : press'[d] # Unset /\ press'[d].n = press'[b].n => d = b
      BY <3>4, <3>5, <3>6
    <3> QED BY <1>1, <3>3, <3>6 DEF KeysAreNumbered
  <2> QED BY <2>1, <2>2
<1>3. ActsAreKeyed'
  BY <1>1 DEF OnboardingOK, ActsAreKeyed
<1> QED BY <1>1, <1>2, <1>3 DEF OnboardingOK, OnboardingShape, OneDecides, ShownOrGone, readinessVars

(* A decision is written together with the answer to its key, which had    *)
(* none.                                                                   *)
LEMMA DecisionKeepsOnboarding ==
  ASSUME OnboardingOK, NEW a \in Admins, Decided(a)
  PROVE  OnboardingOK'
<1> USE OnboardingAssumption
<1>1. /\ deciding[a] # Unset /\ deciding' = [deciding EXCEPT ![a] = Unset]
      /\ keyed' = keyed \cup {press[a].key}
      /\ acts' = [acts EXCEPT ![press[a].n] = @ + 1]
      /\ \/ press' = [press EXCEPT ![a] = Unset]
         \/ press' = [press EXCEPT ![a].key = KeyAfterError(@)]
      /\ UNCHANGED <<readinessVars, pressed>>
  BY DEF Decided
<1>2. /\ press[a] # Unset /\ press[a].key \notin keyed
      /\ press[a] = [n |-> press[a].n, key |-> <<press[a].n, 0>>, to |-> press[a].to]
      /\ press[a].n \in 1..pressed /\ press[a].n \in 1..MaxPresses
      /\ press[a].key = <<press[a].n, 0>>
  BY <1>1 DEF OnboardingOK, ActsAreKeyed, KeysAreNumbered, Numbered
<1>3. /\ deciding' = [y \in Sessions \cup Admins |-> deciding'[y]]
      /\ \A y \in Sessions \cup Admins : deciding'[y] = Unset
  BY <1>1, EndOfDecision
<1>4. /\ press' = [b \in Admins |-> press'[b]]
      /\ \A b \in Admins : b # a => press'[b] = press[b]
      /\ press'[a] = Unset \/ press'[a] = press[a]
  BY <1>1, <1>2 DEF OnboardingOK, OnboardingShape, KeyAfterError
<1>5. KeysAreNumbered'
  <2>1. \A k \in keyed' : \E p \in 1..pressed' : k = <<p, 0>>
    BY <1>1, <1>2 DEF OnboardingOK, KeysAreNumbered
  <2>2. ASSUME NEW b \in Admins, press'[b] # Unset
        PROVE  press'[b] = press[b]
    BY <1>2, <1>4, <2>2
  <2> QED BY <1>1, <2>1, <2>2 DEF OnboardingOK, KeysAreNumbered
<1>6. ActsAreKeyed'
  <2>1. PICK n \in 1..MaxPresses : n = press[a].n
    BY <1>2
  <2>2. acts[n] = 0
    BY <1>2, <2>1 DEF OnboardingOK, ActsAreKeyed
  <2>3. /\ acts'[n] = 1 /\ <<n, 0>> \in keyed'
        /\ \A p \in 1..MaxPresses : p # n => acts'[p] = acts[p]
    BY <1>1, <1>2, <2>1, <2>2 DEF OnboardingOK, OnboardingShape
  <2> QED BY <1>1, <1>3, <2>3 DEF OnboardingOK, ActsAreKeyed
<1>7. acts' = [p \in 1..MaxPresses |-> acts'[p]]
  BY <1>1 DEF OnboardingOK, OnboardingShape
<1> QED BY <1>1, <1>3, <1>4, <1>5, <1>6, <1>7
        DEF OnboardingOK, OnboardingShape, OneDecides, ShownOrGone, readinessVars

(* Every step of a provider or an operator keeps the invariant.            *)
LEMMA OnboardingStep == OnboardingOK /\ [OnboardingNext]_onboardingVars => OnboardingOK'
<1> SUFFICES ASSUME OnboardingOK, [OnboardingNext]_onboardingVars PROVE OnboardingOK'
  OBVIOUS
<1>1. CASE createProvider \/ (\E i \in Needed : addService(i))
           \/ (\E s \in Sessions, i \in Needed : Rereads(s, i))
  BY <1>1, ReadinessKeepsOnboarding
<1>2. ASSUME NEW s \in Sessions, submitForReview(s) \/ Submitted(s) PROVE OnboardingOK'
  <2>1. CASE submitForReview(s)
    BY <2>1, BeginningKeepsOnboarding, OnboardingAssumption DEF submitForReview
  <2> QED BY <1>2, <2>1, SubmissionKeepsOnboarding
<1>3. ASSUME NEW a \in Admins,
             queue(a) \/ approve(a) \/ Replayed(a) \/ PanelCloses(a) \/ Decided(a)
               \/ \E to \in Buttons(desk[a]) : Confirms(a, to)
      PROVE  OnboardingOK'
  <2>1. CASE queue(a)
    BY <2>1, ApartFromDecisions DEF queue, readinessVars, OnboardingOK, OnboardingShape, ShownOrGone
  <2>2. CASE approve(a)
    BY <2>2, BeginningKeepsOnboarding DEF approve
  <2>3. CASE Replayed(a) \/ PanelCloses(a)
    BY <2>3, PanelKeepsOnboarding DEF Replayed, PanelCloses
  <2>4. ASSUME NEW to, Confirms(a, to) PROVE OnboardingOK'
    <3>1. deciding[a] = Unset
      BY <2>4 DEF Confirms, OnboardingOK, ActsAreKeyed
    <3> QED BY <2>4, <3>1, PanelKeepsOnboarding DEF Confirms
  <2> QED BY <1>3, <2>1, <2>2, <2>3, <2>4, DecisionKeepsOnboarding
<1>4. CASE UNCHANGED onboardingVars
  BY <1>4, ApartFromDecisions DEF onboardingVars, readinessVars, OnboardingOK, OnboardingShape, ShownOrGone
<1> QED BY <1>1, <1>2, <1>3, <1>4 DEF OnboardingNext

(* A decision is taken on the state there is, a confirmation acts once, and*)
(* an application is whole unless something has gone since it was shown.   *)
THEOREM DecisionsStand == OnboardingInit /\ [][OnboardingNext]_onboardingVars => DecisionsAreSound
<1> DEFINE Whole == \A s \in Sessions : deciding[s] = Unset /\ deciding'[s] # Unset =>
                      Needed \ present \subseteq gone[s]
<1>1. OnboardingInit => OnboardingOK
  BY OnboardingAssumption DEF OnboardingInit, OnboardingOK, OnboardingShape, OneDecides, KeysAreNumbered, ActsAreKeyed,
     ShownOrGone
<1>2. OnboardingOK => DecidedOnWhatIs /\ OneActPerPress
  <2>1. OnboardingOK => DecidedOnWhatIs
    BY DEF OnboardingOK, OneDecides, DecidedOnWhatIs
  <2>2. OnboardingOK => OneActPerPress
    <3> SUFFICES ASSUME OnboardingOK, NEW p \in 1..MaxPresses PROVE acts[p] <= 1
      BY DEF OneActPerPress
    <3>1. acts[p] = 0 \/ acts[p] = 1
      BY DEF OnboardingOK, ActsAreKeyed
    <3> QED BY <3>1
  <2> QED BY <2>1, <2>2
<1>3. OnboardingOK /\ [OnboardingNext]_onboardingVars => Whole
  <2> SUFFICES ASSUME OnboardingOK, [OnboardingNext]_onboardingVars,
                      NEW s \in Sessions, deciding[s] = Unset, deciding'[s] # Unset
               PROVE  Needed \ present \subseteq gone[s]
    OBVIOUS
  <2>1. ASSUME NEW t \in Sessions, submitForReview(t) PROVE Needed \ present \subseteq gone[s]
    <3>1. t = s /\ glance[t] = Needed
      BY <2>1 DEF submitForReview, canSubmitApplication, applyTransition, OnboardingOK, OnboardingShape
    <3> QED BY <3>1 DEF OnboardingOK, ShownOrGone
  <2>2. ASSUME NEW t \in Sessions, Submitted(t) PROVE FALSE
    BY <2>2 DEF Submitted, OnboardingOK, OnboardingShape
  <2>3. ASSUME NEW a \in Admins, approve(a) \/ Decided(a) PROVE FALSE
    BY <2>3, OnboardingAssumption DEF approve, applyTransition, Decided, OnboardingOK, OnboardingShape
  <2>4. deciding' # deciding
    OBVIOUS
  <2>5. ~createProvider /\ ~(\E i \in Needed : addService(i))
        /\ ~(\E t \in Sessions : \E i \in Needed : Rereads(t, i)) /\ ~UNCHANGED onboardingVars
    BY <2>4 DEF createProvider, addService, Rereads, onboardingVars
  <2>6. ASSUME NEW a \in Admins,
               queue(a) \/ Replayed(a) \/ PanelCloses(a) \/ \E to \in Buttons(desk[a]) : Confirms(a, to)
        PROVE  FALSE
    BY <2>4, <2>6 DEF queue, Replayed, PanelCloses, Confirms
  <2> QED BY <2>1, <2>2, <2>3, <2>5, <2>6 DEF OnboardingNext
<1>4. Whole <=> \A s \in Sessions : deciding[s] = Unset /\ deciding'[s] # Unset =>
                  Needed \ present \subseteq gone[s]
  OBVIOUS
<1> HIDE DEF Whole
<1> QED BY <1>1, <1>2, <1>3, <1>4, OnboardingStep, PTL DEF DecisionsAreSound, SubmittedWhole
-----------------------------------------------------------------------------
(* THE IDENTITIES                                                          *)
(*                                                                         *)
(* A request for recovery is on record only for somebody who has proved to *)
(* be the person that its target was registered under; and who approves it *)
(* holds its row, so that nobody else decides it meanwhile.                *)
Pleas ==
  [try : 1..MaxTries, requester : Accounts, target : Accounts,
   status : {"PENDING_REVIEW", "APPROVED", "REJECTED"}, by : Accounts \cup {Nobody}]
Attempts ==
  [user : Accounts, purpose : Purposes, status : {"PENDING", "VERIFIED", "REJECTED", "EXPIRED"}]
Subject == [user : Accounts \cup {Nobody}, status : {"UNKNOWN", "ACTIVE", "REVOKED"}]

Entered == [at : {"ACTING"}, as : Accounts]
Starting == [at : {"STARTING"}, as : Accounts, purpose : Purposes]
Claiming == [at : {"CLAIMING"}, try : Nat, shows : Persons, high : BOOLEAN, target : Accounts]
Verifying == [at : {"VERIFYING"}, try : Nat, shows : Persons]
Approving == [at : {"APPROVING"}, as : Staff, request : Pleas, moves : Subjects]
Call == {AtRest} \cup Entered \cup Starting \cup Claiming \cup Verifying \cup Approving

(* Only what a subject is linked to can be entered with it.                *)
SubjectsOK ==
  \A s \in Subjects : subject[s].status = "UNKNOWN" <=> subject[s].user = Nobody

(* The requester has shown to be a person that the target was held to be.  *)
Proven(u, t) == \E p \in Persons : <<u, p>> \in shown /\ <<p, t>> \in held

(* What a request to the API has read still stands where it matters.       *)
CallOK(c) ==
  /\ caller[c].at \in {"CLAIMING", "VERIFYING"} => caller[c].try \in DOMAIN tries
  /\ caller[c].at = "CLAIMING" =>
       caller[c].high = TRUE /\ <<caller[c].shows, caller[c].target>> \in held
  /\ caller[c].at = "APPROVING" =>
       /\ caller[c].request \in recovery
       /\ caller[c].as \notin {caller[c].request.requester, caller[c].request.target}
       /\ \A d \in Callers : caller[d].at = "APPROVING" /\ caller[d].request = caller[c].request => d = c

IdentityOK ==
  /\ account \in [Accounts -> {"FREE", "ACTIVE", "DELETED"}]
  /\ subject \in [Subjects -> Subject]
  /\ profile \in SUBSET Accounts
  /\ person \in [Accounts -> Persons \cup {Nobody}]
  /\ tries \in Seq(Attempts) /\ Len(tries) <= MaxTries
  /\ recovery \in SUBSET Pleas
  /\ caller \in [Callers -> Call]
  /\ SubjectsOK /\ NobodyIsLockedOut
  /\ \A u \in Accounts : person[u] # Nobody => <<person[u], u>> \in held
  /\ \A r \in recovery : Proven(r.requester, r.target)
  /\ \A c \in Callers : CallOK(c)

(* What the property says of a state follows.                              *)
LEMMA TypedIdentity == IdentityOK => IdentityTypeOK /\ NobodyIsLockedOut
<1> SUFFICES ASSUME IdentityOK PROVE IdentityTypeOK
  BY DEF IdentityOK
<1>1. \A i \in DOMAIN tries : tries[i] \in Attempts
  BY DEF IdentityOK
<1> QED BY <1>1 DEF IdentityOK, IdentityTypeOK, Subject, Attempts, Pleas

(* At first nobody asks for anything, and who is registered can sign in.   *)
LEMMA IdentityStarts == IdentityInit => IdentityOK
<1> SUFFICES ASSUME IdentityInit PROVE IdentityOK
  OBVIOUS
<1>1. account \in [Accounts -> {"FREE", "ACTIVE", "DELETED"}]
  BY DEF IdentityInit
<1>2. ASSUME NEW s \in Subjects PROVE subject[s] \in Subject /\ (subject[s].status = "UNKNOWN" <=> subject[s].user = Nobody)
  <2>1. CASE \E u \in Registered : FirstSubject[u] = s
    <3>1. PICK v : v = CHOOSE u \in Registered : FirstSubject[u] = s
      OBVIOUS
    <3>2. v \in Registered /\ v \in Accounts /\ v # Nobody
      BY <2>1, <3>1, IdentityAssumption
    <3>3. subject[s] = [user |-> v, status |-> "ACTIVE"]
      BY <2>1, <3>1 DEF IdentityInit
    <3> QED BY <3>2, <3>3 DEF Subject
  <2>2. CASE ~\E u \in Registered : FirstSubject[u] = s
    BY <2>2 DEF IdentityInit, Unlinked, Subject
  <2> QED BY <2>1, <2>2
<1>3. subject \in [Subjects -> Subject]
  BY <1>2 DEF IdentityInit
<1>4. NobodyIsLockedOut
  <2> SUFFICES ASSUME NEW u \in Accounts, account[u] = "ACTIVE" PROVE LiveSubjects(u) # {}
    BY DEF NobodyIsLockedOut
  <2>1. u \in Registered /\ FirstSubject[u] \in Subjects
    BY IdentityAssumption DEF IdentityInit
  <2>2. PICK s \in Subjects : s = FirstSubject[u]
    BY <2>1
  <2>3. PICK v : v = CHOOSE w \in Registered : FirstSubject[w] = s
    OBVIOUS
  <2>4. v \in Registered /\ FirstSubject[v] = s
    BY <2>1, <2>2, <2>3
  <2>5. v = u
    BY <2>1, <2>2, <2>4, IdentityAssumption
  <2>6. subject[s] = [user |-> v, status |-> "ACTIVE"]
    BY <2>1, <2>2, <2>3 DEF IdentityInit
  <2> QED BY <2>5, <2>6 DEF LiveSubjects
<1>5. tries \in Seq(Attempts) /\ Len(tries) <= MaxTries
  BY IdentityAssumption DEF IdentityInit
<1>6. caller \in [Callers -> Call] /\ \A c \in Callers : caller[c].at = "IDLE"
  BY DEF IdentityInit, Call, AtRest
<1> QED BY <1>1, <1>2, <1>3, <1>4, <1>5, <1>6 DEF IdentityInit, IdentityOK, SubjectsOK, CallOK

(* A request takes its next step; what it, and the others, rely on stands. *)
LEMMA CallsGoOn ==
  ASSUME IdentityOK, NEW c \in Callers, NEW k \in Call, caller' = [caller EXCEPT ![c] = k],
         DOMAIN tries \subseteq DOMAIN tries', held \subseteq held',
         \A d \in Callers \ {c} : caller[d].at = "APPROVING" => caller[d].request \in recovery',
         k.at \in {"CLAIMING", "VERIFYING"} => k.try \in DOMAIN tries',
         k.at = "CLAIMING" => k.high = TRUE /\ <<k.shows, k.target>> \in held',
         k.at = "APPROVING" =>
           /\ k.request \in recovery' /\ k.as \notin {k.request.requester, k.request.target}
           /\ \A d \in Callers \ {c} : caller[d].at = "APPROVING" => caller[d].request # k.request
  PROVE  caller' \in [Callers -> Call] /\ \A d \in Callers : CallOK(d)'
<1>1. /\ caller \in [Callers -> Call] /\ caller' \in [Callers -> Call]
      /\ caller'[c] = k /\ \A d \in Callers \ {c} : caller'[d] = caller[d]
  BY DEF IdentityOK
<1>2. ASSUME NEW d \in Callers PROVE CallOK(d)'
  <2>1. CASE d = c
    BY <1>1, <2>1 DEF CallOK
  <2>2. CASE d # c
    <3>1. caller'[d] = caller[d] /\ CallOK(d)
      BY <1>1, <2>2 DEF IdentityOK
    <3>2. caller[d].at = "APPROVING" =>
            \A e \in Callers : caller'[e].at = "APPROVING" /\ caller'[e].request = caller[d].request => e = d
      BY <1>1, <2>2, <3>1 DEF CallOK
    <3> QED BY <2>2, <3>1, <3>2 DEF CallOK
  <2> QED BY <2>1, <2>2
<1> QED BY <1>1, <1>2

(* Who is quiet has read nothing that must stand.                          *)
LEMMA QuietGoesOn ==
  ASSUME IdentityOK, NEW c \in Callers, NEW k \in {AtRest} \cup Entered \cup Starting,
         caller' = [caller EXCEPT ![c] = k],
         DOMAIN tries \subseteq DOMAIN tries', held \subseteq held', recovery \subseteq recovery'
  PROVE  caller' \in [Callers -> Call] /\ \A d \in Callers : CallOK(d)'
<1>1. k \in Call /\ k.at \in {"IDLE", "ACTING", "STARTING"}
  BY DEF Call, AtRest, Entered, Starting
<1>2. \A d \in Callers : caller[d].at = "APPROVING" => caller[d].request \in recovery'
  BY DEF IdentityOK, CallOK
<1> QED BY <1>1, <1>2, CallsGoOn

(* An attempt is settled: who holds which attempt does not change.         *)
LEMMA AttemptSettled ==
  ASSUME IdentityOK, NEW i \in DOMAIN tries, NEW outcome \in {"VERIFIED", "REJECTED", "EXPIRED"},
         completeAttempt(i, outcome)
  PROVE  /\ tries' \in Seq(Attempts) /\ Len(tries') <= MaxTries /\ DOMAIN tries' = DOMAIN tries
         /\ \A j \in DOMAIN tries : tries'[j].user = tries[j].user
<1>1. tries \in Seq(Attempts) /\ tries[i] \in Attempts /\ DOMAIN tries = 1..Len(tries) /\ Len(tries) \in Nat
  BY DEF IdentityOK
<1>2. PICK t : t = [tries[i] EXCEPT !.status = outcome]
  OBVIOUS
<1>3. t \in Attempts /\ t.user = tries[i].user
  BY <1>1, <1>2 DEF Attempts
<1>4. tries' = [tries EXCEPT ![i] = t]
  BY <1>2 DEF completeAttempt
<1>5. tries' \in Seq(Attempts) /\ Len(tries') = Len(tries)
  BY <1>1, <1>3, <1>4
<1> QED BY <1>1, <1>3, <1>4, <1>5 DEF IdentityOK

(* What each caller has in hand has its type.                              *)
LEMMA InHand ==
  ASSUME IdentityOK, NEW c \in Callers
  PROVE  /\ caller[c].at \in {"IDLE", "ACTING", "STARTING", "CLAIMING", "VERIFYING", "APPROVING"}
         /\ caller[c].at = "ACTING" => caller[c] \in Entered
         /\ caller[c].at = "STARTING" => caller[c] \in Starting
         /\ caller[c].at = "CLAIMING" => caller[c] \in Claiming
         /\ caller[c].at = "VERIFYING" => caller[c] \in Verifying
         /\ caller[c].at = "APPROVING" => caller[c] \in Approving
<1>1. caller[c] \in Call
  BY DEF IdentityOK
<1> QED BY <1>1 DEF Call, AtRest, Entered, Starting, Claiming, Verifying, Approving

(* The account that is registered under a person is known to have been.    *)
LEMMA OwnerIsHeld ==
  ASSUME IdentityOK, NEW p \in Persons, HashOwner(p) # Nobody
  PROVE  HashOwner(p) \in Accounts /\ <<p, HashOwner(p)>> \in held
<1>1. \E u \in Accounts : person[u] = p
  BY DEF HashOwner
<1>2. HashOwner(p) = CHOOSE u \in Accounts : person[u] = p
  BY <1>1 DEF HashOwner
<1>3. HashOwner(p) \in Accounts /\ person[HashOwner(p)] = p
  BY <1>1, <1>2
<1>4. p # Nobody
  BY IdentityAssumption
<1> QED BY <1>3, <1>4 DEF IdentityOK

-----------------------------------------------------------------------------
(* A subject is registered with a new account.                             *)
LEMMA RegistrationKeeps ==
  ASSUME IdentityOK, NEW s \in Subjects, ensureSession(s)
  PROVE  IdentityOK'
<1>1. PICK u \in Accounts :
        /\ account[u] = "FREE" /\ account' = [account EXCEPT ![u] = "ACTIVE"]
        /\ subject' = [subject EXCEPT ![s] = [user |-> u, status |-> "ACTIVE"]]
  BY DEF ensureSession
<1>2. /\ subject[s] = Unlinked
      /\ UNCHANGED <<profile, person, tries, recovery, caller, shown, held>>
  BY DEF ensureSession
<1>3. PICK n : n = [user |-> u, status |-> "ACTIVE"]
  OBVIOUS
<1>4. n \in Subject /\ u # Nobody /\ n.user = u /\ n.status = "ACTIVE"
  BY <1>3, IdentityAssumption DEF Subject
<1>5. /\ subject' \in [Subjects -> Subject] /\ subject'[s] = n
      /\ \A t \in Subjects \ {s} : subject'[t] = subject[t]
      /\ account' \in [Accounts -> {"FREE", "ACTIVE", "DELETED"}]
      /\ \A v \in Accounts \ {u} : account'[v] = account[v]
  BY <1>1, <1>3, <1>4 DEF IdentityOK
<1>6. SubjectsOK'
  BY <1>4, <1>5 DEF IdentityOK, SubjectsOK
<1>7. NobodyIsLockedOut'
  <2> SUFFICES ASSUME NEW v \in Accounts, account'[v] = "ACTIVE" PROVE LiveSubjects(v)' # {}
    BY DEF NobodyIsLockedOut
  <2>1. CASE v = u
    BY <1>3, <1>5, <2>1 DEF LiveSubjects
  <2>2. CASE v # u
    <3>1. PICK t \in Subjects : subject[t] = [user |-> v, status |-> "ACTIVE"]
      BY <1>5, <2>2 DEF IdentityOK, NobodyIsLockedOut, LiveSubjects
    <3>2. t # s
      BY <1>2, <3>1 DEF Unlinked
    <3> QED BY <1>5, <3>1, <3>2 DEF LiveSubjects
  <2> QED BY <2>1, <2>2
<1>8. \A c \in Callers : CallOK(c)'
  BY <1>2 DEF IdentityOK, CallOK
<1> QED BY <1>2, <1>5, <1>6, <1>7, <1>8 DEF IdentityOK, Proven

(* A request enters, writes a profile, starts an attempt, or gives up.     *)
LEMMA RequestKeeps ==
  ASSUME IdentityOK, NEW c \in Callers,
         \/ \E s \in Subjects : canActivate(c, s)
         \/ createProfile(c)
         \/ \E purpose \in Purposes : startSession(c, purpose)
         \/ givesUp(c)
  PROVE  IdentityOK'
<1>1. /\ UNCHANGED <<account, subject, person, tries, recovery, shown, held>>
      /\ profile' \in SUBSET Accounts
      /\ \E k \in {AtRest} \cup Entered \cup Starting : caller' = [caller EXCEPT ![c] = k]
  <2>1. ASSUME NEW s \in Subjects, canActivate(c, s)
        PROVE \E k \in Entered : caller' = [caller EXCEPT ![c] = k]
    <3>1. PICK u : u = subject[s].user
      OBVIOUS
    <3>2. subject[s] \in Subject /\ subject[s].status = "ACTIVE"
      BY <2>1 DEF IdentityOK, canActivate
    <3>3. u \in Accounts
      BY <3>1, <3>2 DEF Subject, IdentityOK, SubjectsOK
    <3>4. caller' = [caller EXCEPT ![c] = [at |-> "ACTING", as |-> u]]
      BY <2>1, <3>1 DEF canActivate, Goes
    <3>5. [at |-> "ACTING", as |-> u] \in Entered
      BY <3>3 DEF Entered
    <3> QED BY <3>4, <3>5
  <2>2. ASSUME NEW purpose \in Purposes, startSession(c, purpose)
        PROVE \E k \in Starting : caller' = [caller EXCEPT ![c] = k]
    <3>1. PICK u : u = caller[c].as
      OBVIOUS
    <3>2. u \in Accounts
      BY <2>2, <3>1, InHand DEF startSession, Entered
    <3>3. caller' = [caller EXCEPT ![c] = [at |-> "STARTING", as |-> u, purpose |-> purpose]]
      BY <2>2, <3>1 DEF startSession, Goes
    <3>4. [at |-> "STARTING", as |-> u, purpose |-> purpose] \in Starting
      BY <3>2 DEF Starting
    <3> QED BY <3>3, <3>4
  <2>3. ASSUME createProfile(c) PROVE profile' \in SUBSET Accounts
    BY <2>3, InHand DEF createProfile, Entered, IdentityOK
  <2> QED BY <2>1, <2>2, <2>3 DEF canActivate, createProfile, startSession, givesUp, Frees, IdentityOK
<1>2. caller' \in [Callers -> Call] /\ \A d \in Callers : CallOK(d)'
  BY <1>1, QuietGoesOn
<1> QED BY <1>1, <1>2 DEF IdentityOK, SubjectsOK, NobodyIsLockedOut, LiveSubjects, Proven

(* An attempt is inserted.                                                 *)
LEMMA AttemptKeeps ==
  ASSUME IdentityOK, NEW c \in Callers, createAttempt(c)
  PROVE  IdentityOK'
<1>1. PICK t : t = [user |-> caller[c].as, purpose |-> caller[c].purpose, status |-> "PENDING"]
  OBVIOUS
<1>2. caller[c] \in Starting
  BY InHand DEF createAttempt
<1>3. t \in Attempts
  BY <1>1, <1>2 DEF Starting, Attempts
<1>4. /\ tries' = Append(tries, t) /\ Len(tries) < MaxTries /\ tries \in Seq(Attempts) /\ Len(tries) \in Nat
      /\ caller' = [caller EXCEPT ![c] = AtRest]
      /\ UNCHANGED <<account, subject, profile, person, recovery, shown, held>>
  BY <1>1 DEF createAttempt, Frees, IdentityOK
<1>5. tries' \in Seq(Attempts) /\ Len(tries') = Len(tries) + 1 /\ DOMAIN tries \subseteq DOMAIN tries'
  BY <1>3, <1>4
<1>6. Len(tries') <= MaxTries
  BY <1>4, <1>5, IdentityAssumption
<1>7. caller' \in [Callers -> Call] /\ \A d \in Callers : CallOK(d)'
  BY <1>4, <1>5, QuietGoesOn
<1> QED BY <1>4, <1>5, <1>6, <1>7 DEF IdentityOK, SubjectsOK, NobodyIsLockedOut, LiveSubjects, Proven

(* An attempt is settled without a further word.                           *)
LEMMA SettlingKeeps ==
  ASSUME IdentityOK, NEW c \in Callers, NEW i \in DOMAIN tries,
         NEW outcome \in {"REJECTED", "EXPIRED"}, Settles(c, i, outcome)
  PROVE  IdentityOK'
<1>1. /\ completeAttempt(i, outcome) /\ caller' = [caller EXCEPT ![c] = AtRest]
      /\ UNCHANGED <<account, subject, profile, person, recovery, shown, held>>
  BY DEF Settles, Frees
<1>2. tries' \in Seq(Attempts) /\ Len(tries') <= MaxTries /\ DOMAIN tries' = DOMAIN tries
  BY <1>1, AttemptSettled
<1>3. caller' \in [Callers -> Call] /\ \A d \in Callers : CallOK(d)'
  BY <1>1, <1>2, QuietGoesOn
<1> QED BY <1>1, <1>2, <1>3 DEF IdentityOK, SubjectsOK, NobodyIsLockedOut, LiveSubjects, Proven

(* A callback is read: its attempt is settled, or it goes on to write.     *)
LEMMA CallbackKeeps ==
  ASSUME IdentityOK, NEW c \in Callers, NEW i \in DOMAIN tries, NEW p \in Persons,
         NEW high \in BOOLEAN, handleCallback(c, i, p, high)
  PROVE  IdentityOK'
<1>1. CASE Settles(c, i, "REJECTED")
  BY <1>1, SettlingKeeps
<1>2. CASE ~Settles(c, i, "REJECTED")
  <2>1. PICK k : k = IF HashOwner(p) \notin {Nobody, tries[i].user}
                     THEN [at |-> "CLAIMING", try |-> i, shows |-> p, high |-> high, target |-> HashOwner(p)]
                     ELSE [at |-> "VERIFYING", try |-> i, shows |-> p]
    OBVIOUS
  <2>2. /\ caller' = [caller EXCEPT ![c] = k]
        /\ UNCHANGED <<account, subject, profile, person, tries, recovery, shown, held>>
        /\ HashOwner(p) \notin {Nobody, tries[i].user} => high = TRUE
    BY <1>2, <2>1 DEF handleCallback, resolveExistingIdentity, Goes
  <2>3. i \in Nat
    BY DEF IdentityOK
  <2>4. /\ k \in Call /\ k.at \in {"CLAIMING", "VERIFYING"} /\ k.try = i
        /\ k.at = "CLAIMING" => k.high = TRUE /\ <<k.shows, k.target>> \in held
    <3>1. CASE HashOwner(p) \notin {Nobody, tries[i].user}
      <4>1. PICK t : t = HashOwner(p)
        OBVIOUS
      <4>2. t \in Accounts /\ <<p, t>> \in held
        BY <3>1, <4>1, OwnerIsHeld
      <4>3. k = [at |-> "CLAIMING", try |-> i, shows |-> p, high |-> TRUE, target |-> t]
        BY <2>1, <2>2, <3>1, <4>1
      <4> QED BY <2>3, <4>2, <4>3 DEF Call, Claiming
    <3>2. CASE HashOwner(p) \in {Nobody, tries[i].user}
      BY <2>1, <2>3, <3>2 DEF Call, Verifying
    <3> QED BY <3>1, <3>2
  <2>5. \A d \in Callers : caller[d].at = "APPROVING" => caller[d].request \in recovery'
    BY <2>2 DEF IdentityOK, CallOK
  <2>6. caller' \in [Callers -> Call] /\ \A d \in Callers : CallOK(d)'
    BY <2>2, <2>4, <2>5, CallsGoOn
  <2> QED BY <2>2, <2>6 DEF IdentityOK, SubjectsOK, NobodyIsLockedOut, LiveSubjects, Proven
<1> QED BY <1>1, <1>2
(* An identity is written, or its callback is rolled back.                 *)
LEMMA VerificationKeeps ==
  ASSUME IdentityOK, NEW c \in Callers, completeVerification(c)
  PROVE  IdentityOK'
<1>1. PICK i, p : i = caller[c].try /\ p = caller[c].shows
  OBVIOUS
<1>2. caller[c].at = "VERIFYING" /\ caller[c] \in Verifying /\ i \in DOMAIN tries /\ p \in Persons
  BY <1>1, InHand DEF completeVerification, Verifying, IdentityOK, CallOK
<1>3. /\ caller' = [caller EXCEPT ![c] = AtRest]
      /\ UNCHANGED <<account, subject, profile, recovery, shown>>
  BY DEF completeVerification, Frees
<1>4. tries[i].user \in Accounts
  <2>1. tries \in Seq(Attempts) /\ tries[i] \in Attempts
    BY <1>2 DEF IdentityOK
  <2> QED BY <2>1 DEF Attempts
<1>5. CASE UNCHANGED <<person, tries, held>>
  <2>1. caller' \in [Callers -> Call] /\ \A d \in Callers : CallOK(d)'
    BY <1>3, <1>5, QuietGoesOn
  <2> QED BY <1>3, <1>5, <2>1 DEF IdentityOK, SubjectsOK, NobodyIsLockedOut, LiveSubjects, Proven
<1>6. CASE ~UNCHANGED <<person, tries, held>>
  <2>1. PICK u : u = tries[i].user
    OBVIOUS
  <2>2. /\ person' = [person EXCEPT ![u] = p] /\ held' = held \cup {<<p, u>>}
        /\ completeAttempt(i, "VERIFIED")
    BY <1>1, <1>6, <2>1 DEF completeVerification
  <2>3. /\ tries' \in Seq(Attempts) /\ Len(tries') <= MaxTries /\ DOMAIN tries' = DOMAIN tries
    BY <1>2, <2>2, AttemptSettled
  <2>4. person' \in [Accounts -> Persons \cup {Nobody}]
    BY <1>2, <2>2 DEF IdentityOK
  <2>5. \A v \in Accounts : person'[v] # Nobody => <<person'[v], v>> \in held'
    BY <1>2, <1>4, <2>1, <2>2 DEF IdentityOK
  <2>6. \A r \in recovery : Proven(r.requester, r.target)'
    BY <1>3, <2>2 DEF IdentityOK, Proven
  <2>7. caller' \in [Callers -> Call] /\ \A d \in Callers : CallOK(d)'
    BY <1>3, <2>2, <2>3, QuietGoesOn
  <2> QED BY <1>3, <2>3, <2>4, <2>5, <2>6, <2>7 DEF IdentityOK, SubjectsOK, NobodyIsLockedOut, LiveSubjects
<1> QED BY <1>5, <1>6

(* A recovery is asked for, by somebody who has proved who they are.       *)
LEMMA PleaKeeps ==
  ASSUME IdentityOK, NEW c \in Callers, createRecoveryRequest(c)
  PROVE  IdentityOK'
<1>1. PICK i, p, t : i = caller[c].try /\ p = caller[c].shows /\ t = caller[c].target
  OBVIOUS
<1>2. /\ caller[c].at = "CLAIMING" /\ caller[c] \in Claiming /\ i \in DOMAIN tries
      /\ p \in Persons /\ t \in Accounts /\ caller[c].high = TRUE /\ <<p, t>> \in held
  BY <1>1, InHand DEF createRecoveryRequest, Claiming, IdentityOK, CallOK
<1>3. PICK u : u = tries[i].user
  OBVIOUS
<1>4. PICK r : r = [try |-> i, requester |-> u, target |-> t, status |-> "PENDING_REVIEW", by |-> Nobody]
  OBVIOUS
<1>5. /\ completeAttempt(i, "VERIFIED") /\ shown' = shown \cup {<<u, p>>}
      /\ recovery' = recovery \/ recovery' = recovery \cup {r}
      /\ caller' = [caller EXCEPT ![c] = AtRest]
      /\ UNCHANGED <<account, subject, profile, person, held>>
  BY <1>1, <1>2, <1>3, <1>4 DEF createRecoveryRequest, Frees
<1>6. u \in Accounts /\ i \in 1..MaxTries
  <2>1. /\ tries \in Seq(Attempts) /\ tries[i] \in Attempts /\ i \in 1..Len(tries)
        /\ Len(tries) \in Nat /\ Len(tries) <= MaxTries
    BY <1>2 DEF IdentityOK
  <2> QED BY <1>3, <2>1, IdentityAssumption DEF Attempts
<1>7. r \in Pleas /\ r.requester = u /\ r.target = t
  BY <1>2, <1>4, <1>6 DEF Pleas
<1>8. /\ tries' \in Seq(Attempts) /\ Len(tries') <= MaxTries /\ DOMAIN tries' = DOMAIN tries
  BY <1>2, <1>5, AttemptSettled
<1>9. recovery' \in SUBSET Pleas /\ recovery \subseteq recovery'
  BY <1>5, <1>7 DEF IdentityOK
<1>10. \A q \in recovery' : Proven(q.requester, q.target)'
  BY <1>2, <1>5, <1>7 DEF IdentityOK, Proven
<1>11. caller' \in [Callers -> Call] /\ \A d \in Callers : CallOK(d)'
  BY <1>5, <1>8, <1>9, QuietGoesOn
<1> QED BY <1>5, <1>8, <1>9, <1>10, <1>11 DEF IdentityOK, SubjectsOK, NobodyIsLockedOut, LiveSubjects

(* An approval locks its request.                                          *)
LEMMA ApprovalKeeps ==
  ASSUME IdentityOK, NEW c \in Callers, NEW actor \in Staff, NEW r \in recovery,
         approveRecovery(c, actor, r)
  PROVE  IdentityOK'
<1>1. PICK s : s = CHOOSE x \in LiveSubjects(r.requester) : TRUE
  OBVIOUS
<1>2. s \in Subjects
  <2>1. LiveSubjects(r.requester) # {} /\ LiveSubjects(r.requester) \subseteq Subjects
    BY DEF approveRecovery, LiveSubjects
  <2> QED BY <1>1, <2>1
<1>3. PICK k : k = [at |-> "APPROVING", as |-> actor, request |-> r, moves |-> s]
  OBVIOUS
<1>4. /\ caller' = [caller EXCEPT ![c] = k]
      /\ UNCHANGED <<account, subject, profile, person, tries, recovery, shown, held>>
      /\ actor \notin {r.requester, r.target} /\ ~RowsLocked(r)
  BY <1>1, <1>3 DEF approveRecovery, Goes
<1>5. k \in Call /\ k.at = "APPROVING" /\ k.request = r /\ k.as = actor
  BY <1>2, <1>3 DEF Call, Approving, IdentityOK
<1>6. \A d \in Callers : caller[d].at = "APPROVING" => caller[d].request # r /\ caller[d].request \in recovery
  BY <1>4 DEF RowsLocked, IdentityOK, CallOK
<1>7. caller' \in [Callers -> Call] /\ \A d \in Callers : CallOK(d)'
  BY <1>4, <1>5, <1>6, CallsGoOn
<1> QED BY <1>4, <1>7 DEF IdentityOK, SubjectsOK, NobodyIsLockedOut, LiveSubjects, Proven

(* A request is decided: it stays on record, and others are not touched.   *)
LEMMA ApprovalDecided ==
  ASSUME IdentityOK, NEW r \in recovery, NEW outcome \in {"APPROVED", "REJECTED"}, NEW actor \in Staff,
         decideRecoveryRequest(r, outcome, actor), shown \subseteq shown', held \subseteq held'
  PROVE  /\ recovery' \in SUBSET Pleas
         /\ \A q \in recovery' : Proven(q.requester, q.target)'
         /\ \A q \in recovery \ {r} : q \in recovery'
         /\ \E q \in recovery' : /\ q.status = outcome /\ q.by = actor
                                 /\ q.requester = r.requester /\ q.target = r.target
<1>1. PICK q : q = [r EXCEPT !.status = outcome, !.by = actor]
  OBVIOUS
<1>2. r \in Pleas /\ actor \in Accounts
  BY IdentityAssumption DEF IdentityOK
<1>3. /\ q \in Pleas /\ q.status = outcome /\ q.by = actor
      /\ q.requester = r.requester /\ q.target = r.target
  BY <1>1, <1>2 DEF Pleas
<1>4. recovery' = (recovery \ {r}) \cup {q}
  BY <1>1 DEF decideRecoveryRequest
<1>5. Proven(r.requester, r.target) /\ \A x \in recovery : Proven(x.requester, x.target)
  BY DEF IdentityOK
<1>6. \A x \in recovery' : Proven(x.requester, x.target)'
  BY <1>3, <1>4, <1>5 DEF Proven
<1> QED BY <1>3, <1>4, <1>6 DEF IdentityOK

(* Whose request is decided now nobody else is approving.                  *)
LEMMA RecoveryMoves ==
  ASSUME IdentityOK, NEW c \in Callers, recoverAccount(c)
  PROVE  /\ caller[c] \in Approving /\ caller[c].request \in recovery
         /\ caller' = [caller EXCEPT ![c] = AtRest]
         /\ UNCHANGED <<profile, person, tries, shown, held>>
         /\ \/ UNCHANGED <<account, subject, recovery>>
            \/ \E r \in recovery, s \in Subjects, actor \in Staff :
                 /\ r = caller[c].request /\ actor = caller[c].as /\ actor \notin {r.requester, r.target}
                 /\ r.requester \in Accounts /\ r.target \in Accounts
                 /\ subject[s] = [user |-> r.requester, status |-> "ACTIVE"]
                 /\ decideRecoveryRequest(r, "APPROVED", actor)
                 /\ subject' = moveAuthSubject(s, r.requester, r.target)
                 /\ account' = [account EXCEPT ![r.requester] = "DELETED"]
<1>1. caller[c].at = "APPROVING" /\ caller[c] \in Approving
  BY InHand DEF recoverAccount
<1>2. PICK r, s, actor : r = caller[c].request /\ s = caller[c].moves /\ actor = caller[c].as
  OBVIOUS
<1>3. /\ r \in recovery /\ s \in Subjects /\ actor \in Staff
      /\ r.requester \in Accounts /\ r.target \in Accounts /\ actor \notin {r.requester, r.target}
  BY <1>1, <1>2 DEF Approving, Pleas, IdentityOK, CallOK
<1> QED BY <1>1, <1>2, <1>3 DEF recoverAccount, Frees

(* A recovery gives the target a new subject before it takes the old ones. *)
LEMMA RecoveryKeeps ==
  ASSUME IdentityOK, NEW c \in Callers, recoverAccount(c)
  PROVE  IdentityOK'
<1>1. /\ caller[c] \in Approving /\ caller[c].request \in recovery
      /\ caller' = [caller EXCEPT ![c] = AtRest]
      /\ UNCHANGED <<profile, person, tries, shown, held>>
  BY RecoveryMoves
<1>2. CASE UNCHANGED <<account, subject, recovery>>
  <2>1. caller' \in [Callers -> Call] /\ \A d \in Callers : CallOK(d)'
    BY <1>1, <1>2, QuietGoesOn
  <2> QED BY <1>1, <1>2, <2>1 DEF IdentityOK, SubjectsOK, NobodyIsLockedOut, LiveSubjects, Proven
<1>3. ASSUME NEW r \in recovery, NEW s \in Subjects, NEW actor \in Staff,
             r = caller[c].request, actor \notin {r.requester, r.target},
             r.requester \in Accounts, r.target \in Accounts,
             subject[s] = [user |-> r.requester, status |-> "ACTIVE"],
             decideRecoveryRequest(r, "APPROVED", actor),
             subject' = moveAuthSubject(s, r.requester, r.target),
             account' = [account EXCEPT ![r.requester] = "DELETED"]
      PROVE IdentityOK'
  <2>1. PICK from, to : from = r.requester /\ to = r.target
    OBVIOUS
  <2>2. from \in Accounts /\ to \in Accounts /\ to # Nobody
    BY <1>3, <2>1, IdentityAssumption
  <2>3. /\ DOMAIN subject' = Subjects /\ subject'[s] = [user |-> to, status |-> "ACTIVE"]
        /\ \A t \in Subjects \ {s} :
             subject'[t] = IF subject[t] = [user |-> to, status |-> "ACTIVE"]
                           THEN [user |-> to, status |-> "REVOKED"] ELSE subject[t]
        /\ subject' = [t \in Subjects |-> subject'[t]]
    BY <1>3, <2>1 DEF moveAuthSubject
  <2>4. ASSUME NEW t \in Subjects
        PROVE subject'[t] \in Subject /\ (subject'[t].status = "UNKNOWN" <=> subject'[t].user = Nobody)
    <3>1. subject[t] \in Subject /\ (subject[t].status = "UNKNOWN" <=> subject[t].user = Nobody)
      BY DEF IdentityOK, SubjectsOK
    <3>2. [user |-> to, status |-> "ACTIVE"] \in Subject /\ [user |-> to, status |-> "REVOKED"] \in Subject
      BY <2>2 DEF Subject
    <3> QED BY <2>2, <2>3, <3>1, <3>2
  <2>5. subject' \in [Subjects -> Subject] /\ SubjectsOK'
    BY <2>3, <2>4 DEF SubjectsOK
  <2>6. NobodyIsLockedOut'
    <3> SUFFICES ASSUME NEW v \in Accounts, account'[v] = "ACTIVE" PROVE LiveSubjects(v)' # {}
      BY DEF NobodyIsLockedOut
    <3>1. v # from /\ account[v] = "ACTIVE"
      BY <1>3, <2>1, <2>2 DEF IdentityOK
    <3>2. CASE v = to
      BY <2>3, <3>2 DEF LiveSubjects
    <3>3. CASE v # to
      <4>1. PICK t \in Subjects : subject[t] = [user |-> v, status |-> "ACTIVE"]
        BY <3>1 DEF IdentityOK, NobodyIsLockedOut, LiveSubjects
      <4>2. t # s
        BY <1>3, <2>1, <3>1, <4>1
      <4>3. subject'[t] = subject[t]
        BY <2>3, <3>3, <4>1, <4>2
      <4> QED BY <4>1, <4>3 DEF LiveSubjects
    <3> QED BY <3>2, <3>3
  <2>7. /\ recovery' \in SUBSET Pleas /\ \A q \in recovery' : Proven(q.requester, q.target)'
        /\ \A q \in recovery \ {r} : q \in recovery'
    BY <1>1, <1>3, ApprovalDecided
  <2>8. \A d \in Callers \ {c} : caller[d].at = "APPROVING" => caller[d].request \in recovery'
    <3>1. caller[c].at = "APPROVING"
      BY <1>1 DEF Approving
    <3> QED BY <1>3, <2>7, <3>1 DEF IdentityOK, CallOK
  <2>9. AtRest \in Call /\ AtRest.at = "IDLE"
    BY DEF Call, AtRest
  <2>10. caller' \in [Callers -> Call] /\ \A d \in Callers : CallOK(d)'
    BY <1>1, <2>8, <2>9, CallsGoOn
  <2>11. account' \in [Accounts -> {"FREE", "ACTIVE", "DELETED"}]
    BY <1>3, <2>1, <2>2 DEF IdentityOK
  <2> QED BY <1>1, <2>5, <2>6, <2>7, <2>10, <2>11 DEF IdentityOK
<1> QED BY <1>2, <1>3, RecoveryMoves

(* An operator rejects a request that nobody is approving.                 *)
LEMMA RejectionKeeps ==
  ASSUME IdentityOK, NEW actor \in Staff, NEW r \in recovery, rejectRecovery(actor, r)
  PROVE  IdentityOK'
<1>1. /\ decideRecoveryRequest(r, "REJECTED", actor) /\ ~RowsLocked(r)
      /\ UNCHANGED <<account, subject, profile, person, tries, caller, shown, held>>
  BY DEF rejectRecovery
<1>2. /\ recovery' \in SUBSET Pleas /\ \A q \in recovery' : Proven(q.requester, q.target)'
      /\ \A q \in recovery \ {r} : q \in recovery'
  BY <1>1, ApprovalDecided
<1>3. \A c \in Callers : CallOK(c)'
  BY <1>1, <1>2 DEF IdentityOK, CallOK, RowsLocked
<1> QED BY <1>1, <1>2, <1>3 DEF IdentityOK, SubjectsOK, NobodyIsLockedOut, LiveSubjects

(* Every step keeps the invariant of the identities.                       *)
LEMMA IdentityKept == IdentityOK /\ [IdentityNext]_identityVars => IdentityOK'
<1> SUFFICES ASSUME IdentityOK, [IdentityNext]_identityVars PROVE IdentityOK'
  OBVIOUS
<1>1. CASE UNCHANGED identityVars
  BY <1>1 DEF identityVars, IdentityOK, SubjectsOK, NobodyIsLockedOut, LiveSubjects, Proven, CallOK
<1>2. ASSUME NEW s \in Subjects, ensureSession(s) PROVE IdentityOK'
  BY <1>2, RegistrationKeeps
<1>3. ASSUME NEW c \in Callers,
             \/ \E s \in Subjects : canActivate(c, s)
             \/ createProfile(c)
             \/ \E purpose \in Purposes : startSession(c, purpose)
             \/ givesUp(c)
      PROVE IdentityOK'
  BY <1>3, RequestKeeps
<1>4. ASSUME NEW c \in Callers, createAttempt(c) PROVE IdentityOK'
  BY <1>4, AttemptKeeps
<1>5. ASSUME NEW c \in Callers, NEW i \in DOMAIN tries, NEW p \in Persons, NEW high \in BOOLEAN,
             handleCallback(c, i, p, high)
      PROVE IdentityOK'
  BY <1>5, CallbackKeeps
<1>6. ASSUME NEW c \in Callers, NEW i \in DOMAIN tries, NEW outcome \in {"EXPIRED", "REJECTED"},
             refuseCallback(c, i, outcome)
      PROVE IdentityOK'
  BY <1>6, SettlingKeeps DEF refuseCallback
<1>7. ASSUME NEW c \in Callers, completeVerification(c) PROVE IdentityOK'
  BY <1>7, VerificationKeeps
<1>8. ASSUME NEW c \in Callers, createRecoveryRequest(c) PROVE IdentityOK'
  BY <1>8, PleaKeeps
<1>9. ASSUME NEW c \in Callers, NEW actor \in Staff, NEW r \in recovery, approveRecovery(c, actor, r)
      PROVE IdentityOK'
  BY <1>9, ApprovalKeeps
<1>10. ASSUME NEW c \in Callers, recoverAccount(c) PROVE IdentityOK'
  BY <1>10, RecoveryKeeps
<1>11. ASSUME NEW actor \in Staff, NEW r \in recovery, rejectRecovery(actor, r) PROVE IdentityOK'
  BY <1>11, RejectionKeeps
<1> QED BY <1>1, <1>2, <1>3, <1>4, <1>5, <1>6, <1>7, <1>8, <1>9, <1>10, <1>11 DEF IdentityNext

(* A subject changes by a registration or by a recovery only.              *)
LEMMA SubjectsMove ==
  ASSUME IdentityOK, [IdentityNext]_identityVars, NEW s \in Subjects, subject'[s] # subject[s]
  PROVE  \/ subject[s] = Unlinked
         \/ \E c \in Callers : recoverAccount(c)
<1>1. CASE \E t \in Subjects : ensureSession(t)
  BY <1>1 DEF ensureSession, IdentityOK
<1>2. CASE \E c \in Callers : recoverAccount(c)
  BY <1>2
<1>3. CASE ~(\E t \in Subjects : ensureSession(t)) /\ ~(\E c \in Callers : recoverAccount(c))
  <2>1. subject' = subject
    <3>1. ASSUME NEW c \in Callers, NEW i \in DOMAIN tries, NEW p \in Persons, NEW high \in BOOLEAN,
                 handleCallback(c, i, p, high)
          PROVE subject' = subject
      BY <3>1 DEF handleCallback, resolveExistingIdentity, Settles
    <3>2. ASSUME NEW c \in Callers, NEW i \in DOMAIN tries, NEW outcome, refuseCallback(c, i, outcome)
          PROVE subject' = subject
      BY <3>2 DEF refuseCallback, Settles
    <3>3. ASSUME NEW c \in Callers, \/ \E t \in Subjects : canActivate(c, t)
                                    \/ createProfile(c) \/ createAttempt(c) \/ givesUp(c)
                                    \/ \E purpose \in Purposes : startSession(c, purpose)
          PROVE subject' = subject
      BY <3>3 DEF canActivate, createProfile, createAttempt, givesUp, startSession
    <3>4. ASSUME NEW c \in Callers, completeVerification(c) \/ createRecoveryRequest(c)
          PROVE subject' = subject
      BY <3>4 DEF completeVerification, createRecoveryRequest
    <3>5. ASSUME NEW actor, NEW r, rejectRecovery(actor, r) \/ \E c \in Callers : approveRecovery(c, actor, r)
          PROVE subject' = subject
      BY <3>5 DEF rejectRecovery, approveRecovery
    <3>6. UNCHANGED identityVars => subject' = subject
      BY DEF identityVars
    <3> QED BY <1>3, <3>1, <3>2, <3>3, <3>4, <3>5, <3>6 DEF IdentityNext
  <2> QED BY <2>1
<1> QED BY <1>1, <1>2, <1>3

(* It changes hands as the property says.                                  *)
LEMMA HandsAreProven ==
  ASSUME IdentityOK, [IdentityNext]_identityVars, NEW s \in Subjects,
         subject[s].user # Nobody, subject'[s].user # subject[s].user
  PROVE  LET u == subject[s].user
             t == subject'[s].user
         IN /\ \E p \in Persons : <<u, p>> \in shown /\ <<p, t>> \in held
            /\ \E r \in recovery' : r.status = "APPROVED" /\ r.requester = u /\ r.target = t
                                    /\ r.by \notin {u, t}
<1>1. PICK c \in Callers : recoverAccount(c)
  BY SubjectsMove DEF Unlinked
<1>2. PICK r \in recovery, m \in Subjects, actor \in Staff :
        /\ actor \notin {r.requester, r.target}
        /\ subject[m] = [user |-> r.requester, status |-> "ACTIVE"]
        /\ decideRecoveryRequest(r, "APPROVED", actor)
        /\ subject' = moveAuthSubject(m, r.requester, r.target)
        /\ UNCHANGED <<shown, held>>
  BY <1>1, RecoveryMoves
<1>3. PICK u, t : u = r.requester /\ t = r.target
  OBVIOUS
<1>4. subject'[s] = IF s = m THEN [user |-> t, status |-> "ACTIVE"]
                    ELSE IF subject[s] = [user |-> t, status |-> "ACTIVE"]
                         THEN [user |-> t, status |-> "REVOKED"] ELSE subject[s]
  BY <1>2, <1>3 DEF moveAuthSubject
<1>5. s = m
  BY <1>4
<1>6. subject[s].user = u /\ subject'[s].user = t
  BY <1>2, <1>3, <1>4, <1>5
<1>7. \E p \in Persons : <<u, p>> \in shown /\ <<p, t>> \in held
  BY <1>3 DEF IdentityOK, Proven
<1>8. \E q \in recovery' : q.status = "APPROVED" /\ q.by = actor /\ q.requester = u /\ q.target = t
  BY <1>2, <1>3, ApprovalDecided
<1> QED BY <1>2, <1>3, <1>6, <1>7, <1>8

(* What was revoked stays as it is.                                        *)
LEMMA RevokedStays ==
  ASSUME IdentityOK, [IdentityNext]_identityVars, NEW s \in Subjects, subject[s].status = "REVOKED"
  PROVE  subject'[s] = subject[s]
<1> SUFFICES ASSUME subject'[s] # subject[s] PROVE FALSE
  OBVIOUS
<1>1. PICK c \in Callers : recoverAccount(c)
  BY SubjectsMove DEF Unlinked
<1>2. PICK r \in recovery, m \in Subjects :
        /\ subject[m] = [user |-> r.requester, status |-> "ACTIVE"]
        /\ subject' = moveAuthSubject(m, r.requester, r.target)
  BY <1>1, RecoveryMoves
<1>3. s # m /\ subject[s] # [user |-> r.target, status |-> "ACTIVE"]
  BY <1>2
<1> QED BY <1>2, <1>3 DEF moveAuthSubject

(* Whatever registrations, verifications, recoveries and decisions run at  *)
(* once, for any number of accounts, subjects and requests: an active      *)
(* account can be entered, a subject changes hands only to somebody who has*)
(* proved to be the owner, and one that was revoked stays out.             *)
THEOREM AccountsStaySafe ==
  IdentityInit /\ [][IdentityNext]_identityVars => AccountsAreSafe
<1>1. IdentityInit => IdentityOK
  BY IdentityStarts
<1>2. IdentityOK /\ [IdentityNext]_identityVars => IdentityOK'
  BY IdentityKept
<1>3. IdentityOK => IdentityTypeOK /\ NobodyIsLockedOut
  BY TypedIdentity
<1>4. IdentityOK /\ [IdentityNext]_identityVars =>
        [\A s \in Subjects :
           subject[s].user # Nobody /\ subject'[s].user # subject[s].user
           => LET u == subject[s].user
                  t == subject'[s].user
              IN /\ \E p \in Persons : <<u, p>> \in shown /\ <<p, t>> \in held
                 /\ \E r \in recovery' :
                      r.status = "APPROVED" /\ r.requester = u /\ r.target = t
                      /\ r.by \notin {u, t}]_identityVars
  BY HandsAreProven
<1>5. IdentityOK /\ [IdentityNext]_identityVars =>
        [\A s \in Subjects : subject[s].status = "REVOKED" => subject'[s] = subject[s]]_identityVars
  BY RevokedStays
<1> QED BY <1>1, <1>2, <1>3, <1>4, <1>5, PTL DEF AccountsAreSafe, RecoveredAccountWasTheirs, RevokedStaysOut
-----------------------------------------------------------------------------
(* THE DECISION ENGINE                                                     *)
(*                                                                         *)
(* Whatever the solver finds in its time, and if it finds nothing whatever *)
(* the fallback places, fits the room of each day and the ways between the *)
(* jobs; and it fits the calendars, but for jobs that the solver lets begin*)
(* in the minute in which a window opens.  The last check takes those out, *)
(* and no others: that it judges a job by what it has let stand before does*)
(* not matter, for what fits beside all jobs fits beside some.             *)
(*                                                                         *)
(* That the fallback fits is an induction on the turns it takes: a demand  *)
(* has no worker until its place in the order comes, places differ, and a  *)
(* job that is placed beside jobs that fit makes a plan that fits.         *)

(* Places are numbers up to that of the keys, and no two have the same.    *)
LEMMA PlacesDiffer ==
  ASSUME NEW S \in SUBSET Nat, IsFiniteSet(S), NEW key \in [S -> Int], NEW x \in S
  PROVE  /\ Place(key, x) \in 1..Cardinality(S)
         /\ \A y \in S : Place(key, y) = Place(key, x) => y = x
<1> DEFINE Ahead(z) == {y \in S : key[y] < key[z] \/ (key[y] = key[z] /\ y < z)}
<1>1. \A z \in S : /\ Place(key, z) = 1 + Cardinality(Ahead(z))
                   /\ IsFiniteSet(Ahead(z)) /\ Cardinality(Ahead(z)) \in Nat
  <2>1. TAKE z \in S
  <2>2. Ahead(z) \subseteq S /\ DOMAIN key = S
    OBVIOUS
  <2>3. IsFiniteSet(Ahead(z)) /\ Cardinality(Ahead(z)) \in Nat
    BY <2>2, FS_Subset, FS_CardinalityType
  <2> QED BY <2>2, <2>3 DEF Place
<1>2. ASSUME NEW y \in S, NEW z \in S, y \in Ahead(z)
      PROVE  Cardinality(Ahead(y)) < Cardinality(Ahead(z))
  <2>1. Ahead(y) \subseteq Ahead(z)
    <3>1. \A v \in S : key[v] \in Int /\ v \in Nat
      OBVIOUS
    <3>2. ASSUME NEW v \in S, v \in Ahead(y) PROVE v \in Ahead(z)
      BY <1>2, <3>1, <3>2
    <3> QED BY <3>2
  <2>2. y \notin Ahead(y)
    OBVIOUS
  <2>3. Ahead(y) # Ahead(z)
    BY <1>2, <2>2
  <2> HIDE DEF Ahead
  <2> QED BY <1>1, <2>1, <2>3, FS_Subset
<1>3. Cardinality(Ahead(x)) < Cardinality(S)
  <2>1. Ahead(x) \subseteq S /\ x \notin Ahead(x)
    OBVIOUS
  <2> HIDE DEF Ahead
  <2> QED BY <2>1, FS_Subset, FS_CardinalityType
<1>4. \A y \in S : y = x \/ y \in Ahead(x) \/ x \in Ahead(y)
  OBVIOUS
<1>5. Cardinality(S) \in Nat
  BY FS_CardinalityType
<1> HIDE DEF Ahead
<1>6. Place(key, x) \in 1..Cardinality(S)
  BY <1>1, <1>3, <1>5
<1>7. ASSUME NEW y \in S, Place(key, y) = Place(key, x) PROVE y = x
  BY <1>1, <1>2, <1>4, <1>7
<1> QED BY <1>6, <1>7
-----------------------------------------------------------------------------
(* What becomes of a demand: the fallback places it, or the last check lets*)
(* a plan have its way.                                                    *)
Turn(kind, plan, f, d) ==
  IF kind = "assign" THEN placed(f, d)
  ELSE IF stands(plan, f, d) THEN plan[d] ELSE NoWorker

(* The plans that come of the turns, in the order of the places by a key.  *)
IsTurns(kind, plan, key, f, m) ==
  f = [n \in 0..m |->
         IF n = 0 THEN NoPlan
         ELSE [d \in Demands |-> IF d \in DOMAIN key /\ Place(key, d) = n
                                 THEN Turn(kind, plan, f[n - 1], d) ELSE f[n - 1][d]]]

(* All turns can be taken, up to whatever number.                          *)
LEMMA TurnsExist ==
  ASSUME NEW kind, NEW plan, NEW key, NEW m \in Nat
  PROVE  \E f : IsTurns(kind, plan, key, f, m)
<1>1. PICK P : P = {n \in Nat : \E f : IsTurns(kind, plan, key, f, n)}
  OBVIOUS
<1>2. 0 \in P
  <2>1. PICK f : f = [k \in 0..0 |-> NoPlan]
    OBVIOUS
  <2>2. IsTurns(kind, plan, key, f, 0)
    BY <2>1 DEF IsTurns
  <2> QED BY <1>1, <2>2
<1>3. ASSUME NEW n \in Nat, n \in P PROVE n + 1 \in P
  <2>1. PICK f : IsTurns(kind, plan, key, f, n)
    BY <1>1, <1>3
  <2>2. PICK h : h = [d \in Demands |-> IF d \in DOMAIN key /\ Place(key, d) = n + 1
                                       THEN Turn(kind, plan, f[n], d) ELSE f[n][d]]
    OBVIOUS
  <2>3. PICK g : g = [k \in 0..(n + 1) |-> IF k = n + 1 THEN h ELSE f[k]]
    OBVIOUS
  <2>4. \A k \in 0..(n + 1) :
          g[k] = IF k = 0 THEN NoPlan
                 ELSE [d \in Demands |-> IF d \in DOMAIN key /\ Place(key, d) = k
                                         THEN Turn(kind, plan, g[k - 1], d) ELSE g[k - 1][d]]
    <3>1. TAKE k \in 0..(n + 1)
    <3>2. CASE k = n + 1
      <4>1. g[k] = h /\ k # 0 /\ k - 1 = n /\ n \in 0..(n + 1) /\ n # n + 1 /\ g[n] = f[n]
        BY <2>3, <3>2
      <4>2. g[k] = [d \in Demands |-> IF d \in DOMAIN key /\ Place(key, d) = k
                                      THEN Turn(kind, plan, g[k - 1], d) ELSE g[k - 1][d]]
        BY <2>2, <3>2, <4>1
      <4> QED BY <4>1, <4>2
    <3>3. CASE k # n + 1
      <4>1. k \in 0..n /\ g[k] = f[k] /\ (k # 0 => k - 1 \in 0..n /\ g[k - 1] = f[k - 1])
        BY <2>3, <3>3
      <4>2. f[k] = IF k = 0 THEN NoPlan
                   ELSE [d \in Demands |-> IF d \in DOMAIN key /\ Place(key, d) = k
                                           THEN Turn(kind, plan, f[k - 1], d) ELSE f[k - 1][d]]
        BY <2>1, <4>1 DEF IsTurns
      <4> QED BY <4>1, <4>2
    <3> QED BY <3>2, <3>3
  <2>5. g = [k \in 0..(n + 1) |-> g[k]]
    BY <2>3
  <2>6. IsTurns(kind, plan, key, g, n + 1)
    BY <2>4, <2>5 DEF IsTurns
  <2> QED BY <1>1, <2>6
<1> QED BY <1>1, <1>2, <1>3, AllNumbers

(* Each turn is taken on what is there before.                             *)
LEMMA TurnIsTaken ==
  ASSUME NEW kind, NEW plan, NEW key, NEW f, NEW m \in Nat, IsTurns(kind, plan, key, f, m),
         NEW n \in Nat, n + 1 <= m
  PROVE  f[n + 1] = [d \in Demands |-> IF d \in DOMAIN key /\ Place(key, d) = n + 1
                                       THEN Turn(kind, plan, f[n], d) ELSE f[n][d]]
<1>1. PICK k : k = n + 1
  OBVIOUS
<1>2. k \in 0..m /\ k # 0 /\ k - 1 = n
  BY <1>1
<1>3. f[k] = [d \in Demands |-> IF d \in DOMAIN key /\ Place(key, d) = k
                                THEN Turn(kind, plan, f[k - 1], d) ELSE f[k - 1][d]]
  BY <1>2 DEF IsTurns
<1>4. f[k] = [d \in Demands |-> IF d \in DOMAIN key /\ Place(key, d) = k
                                THEN Turn(kind, plan, f[n], d) ELSE f[n][d]]
  BY <1>2, <1>3
<1> QED BY <1>1, <1>4

(* By what the fallback orders the demands, and the last check those of f. *)
StartKey == [d \in Demands |-> Window[d].from]
PlanKey(f) == [d \in Given(f) |-> f[d].from]

(* The fallback takes the demands in turn, in the order of their windows.  *)
LEMMA AssignIsTurns ==
  \E f : /\ IsTurns("assign", NoPlan, StartKey, f, Cardinality(Demands))
         /\ assign = f[Cardinality(Demands)]
<1>1. Cardinality(Demands) \in Nat /\ DOMAIN StartKey = Demands
  BY SolverAssumption, FS_CardinalityType DEF StartKey
<1>2. PICK g : IsTurns("assign", NoPlan, StartKey, g, Cardinality(Demands))
  BY <1>1, TurnsExist
<1>3. PICK f : f = CHOOSE g0 : IsTurns("assign", NoPlan, StartKey, g0, Cardinality(Demands))
  OBVIOUS
<1>4. IsTurns("assign", NoPlan, StartKey, f, Cardinality(Demands))
  BY <1>2, <1>3
<1>5. assign = f[Cardinality(Demands)]
  BY <1>1, <1>3 DEF assign, inTurn, IsTurns, Turn, StartKey
<1> QED BY <1>4, <1>5

(* And so does the last check, in the order of the plan's starts.          *)
LEMMA VerifiedIsTurns ==
  ASSUME NEW p
  PROVE  \E f : /\ IsTurns("verify", p, PlanKey(p), f, Cardinality(Given(p)))
                /\ verified(p) = f[Cardinality(Given(p))]
<1>0. Given(p) \subseteq Demands
  BY DEF Given
<1>1. Cardinality(Given(p)) \in Nat /\ DOMAIN PlanKey(p) = Given(p)
  BY <1>0, SolverAssumption, FS_CardinalityType, FS_Subset DEF PlanKey
<1>2. PICK g : IsTurns("verify", p, PlanKey(p), g, Cardinality(Given(p)))
  BY <1>1, TurnsExist
<1>3. PICK f : f = CHOOSE g0 : IsTurns("verify", p, PlanKey(p), g0, Cardinality(Given(p)))
  OBVIOUS
<1>4. IsTurns("verify", p, PlanKey(p), f, Cardinality(Given(p)))
  BY <1>2, <1>3
<1>5. verified(p) = f[Cardinality(Given(p))]
  BY <1>1, <1>3 DEF verified, inTurn, IsTurns, Turn, PlanKey
<1> QED BY <1>4, <1>5
-----------------------------------------------------------------------------
(* Moments are rounded down, and by less than a minute.                    *)
LEMMA MomentsAreRoundedDown ==
  ASSUME NEW t \in Nat
  PROVE  /\ MinutesSince(t) \in Nat
         /\ Minute * MinutesSince(t) <= t /\ t < Minute * MinutesSince(t) + Minute
<1>1. Minute \in Nat \ {0}
  BY SolverAssumption
<1> QED BY <1>1 DEF MinutesSince

(* Ways are rounded up.                                                    *)
LEMMA WaysAreRoundedUp ==
  ASSUME NEW t \in Nat
  PROVE  /\ TravelMinutes(t) \in Nat /\ Minute * TravelMinutes(t) \in Nat
         /\ t <= Minute * TravelMinutes(t)
<1>1. PICK n \in Nat \ {0} : n = Minute
  BY SolverAssumption
<1>2. PICK u \in Nat : u = t + (n - 1)
  BY <1>1
<1>3. u \div n \in Nat /\ n * (u \div n) \in Nat /\ u < n * (u \div n) + n
  OBVIOUS
<1>4. t <= n * (u \div n)
  BY <1>2, <1>3
<1> QED BY <1>1, <1>2, <1>3, <1>4 DEF TravelMinutes

(* A job has a length.                                                     *)
LEMMA LengthIsNumber ==
  ASSUME NEW d \in Demands
  PROVE  Length(d) \in Nat
<1>1. Minute \in Nat /\ Window[d].minutes \in Nat
  BY SolverAssumption
<1>2. PICK a \in Nat, b \in Nat : a = Minute /\ b = Window[d].minutes
  BY <1>1
<1>3. a * b \in Nat
  OBVIOUS
<1> QED BY <1>2, <1>3 DEF Length

(* Between any two places there is a way, that takes no more minutes than  *)
(* it is given.                                                            *)
LEMMA TravelIsNumber ==
  ASSUME NEW d \in Demands, NEW e \in Demands
  PROVE  /\ Travel[d][e] \in Nat /\ TravelMinutes(Travel[d][e]) \in Nat
         /\ Minute * TravelMinutes(Travel[d][e]) \in Nat
         /\ Travel[d][e] <= Minute * TravelMinutes(Travel[d][e])
<1>1. Travel[d][e] \in Nat
  BY SolverAssumption
<1> QED BY <1>1, WaysAreRoundedUp

(* A visit, and the plans that give some demands one.                      *)
Visits == [provider : Workers, from : Nat, to : Nat]
Tables == [Demands -> Visits \cup {NoWorker}]

(* The rankings are made: of some workers each has a place.                *)
Ranked == \A d \in Demands : \E W \in SUBSET Workers : ranking[d] \in [W -> Nat]

(* The worker of each demand is a candidate who can start then.            *)
JobsFit(f) ==
  \A d \in Given(f) : /\ f[d].provider \in Candidates(d)
                      /\ f[d].from \in Starts(d, f[d].provider)
                      /\ f[d].to = f[d].from + Length(d)

(* The minutes from one job of a worker to the next.                       *)
PairsFit(f) ==
  \A d, e \in Given(f) : d # e /\ f[d].provider = f[e].provider => Ordered(f, d, e)

(* And room for all jobs of the day.                                       *)
Feasible(f) == f \in Tables /\ JobsFit(f) /\ WithinRoom(f) /\ PairsFit(f)

(* A job lies in a declared window, or begins in the minute in which one   *)
(* opens, before it does.                                                  *)
Lies(f, d) ==
  \E i \in feasibleIntervals(d, f[d].provider) : i.from <= f[d].from /\ f[d].to <= i.to
Early(f, d) ==
  \E i \in feasibleIntervals(d, f[d].provider) : i.from - Minute < f[d].from /\ f[d].from < i.from

(* Candidates do the jobs, as long as they take, with the time of the way  *)
(* between, and with room for all jobs of the day.                         *)
LongEnough(f) ==
  \A d \in Given(f) : f[d].provider \in Candidates(d) /\ f[d].to = f[d].from + Length(d)
Apart(f) ==
  \A d, e \in Given(f) : d # e /\ f[d].provider = f[e].provider =>
    \/ f[d].to + Travel[d][e] <= f[e].from
    \/ f[e].to + Travel[e][d] <= f[d].from
Sound(f) == f \in Tables /\ LongEnough(f) /\ WithinRoom(f) /\ Apart(f)

(* What the last check leaves of a plan.                                   *)
Upheld(f) == [d \in Demands |-> IF d \in Given(f) /\ Lies(f, d) THEN f[d] ELSE NoWorker]

(* What core has sent.                                                     *)
ServicesOK ==
  /\ calendar \in [Workers -> Calendars] /\ room \in [Workers -> Nat]
  /\ score \in [Workers -> Nat]

(* Every plan is sound that is proposed, only the solver's jobs may begin  *)
(* before a window opens, and those that do not are answered.              *)
SolverOK ==
  /\ ServicesOK
  /\ status \in {"new", "ranked", "OPTIMAL", "FEASIBLE", "TIMEOUT"}
  /\ status # "new" => Ranked
  /\ status \in {"new", "ranked"} => proposed = NoPlan /\ accepted = NoPlan /\ violations = 0
  /\ Sound(proposed)
  /\ \A d \in Given(proposed) : Lies(proposed, d) \/ (status # "TIMEOUT" /\ Early(proposed, d))
  /\ (accepted = NoPlan /\ violations = 0) \/ accepted = Upheld(proposed)

(* The intervals in which a job may lie are of numbers.                    *)
LEMMA IntervalsAreNumbers ==
  ASSUME ServicesOK, NEW d \in Demands, NEW p \in Workers, NEW i \in feasibleIntervals(d, p)
  PROVE  i.from \in Nat /\ i.to \in Nat
<1>1. PICK w \in calendar[p] : i = [from |-> Max({w.from, Window[d].from}),
                                    to |-> Min({w.to, Window[d].to})]
  BY DEF feasibleIntervals
<1>2. calendar[p] \in Calendars
  BY DEF ServicesOK
<1>3. w \in [from : Nat, to : Nat] /\ Window[d] \in [from : Nat, to : Nat, minutes : Nat \ {0}]
  BY <1>2, SolverAssumption
<1>4. w.from \in Nat /\ w.to \in Nat /\ Window[d].from \in Nat /\ Window[d].to \in Nat
  BY <1>3
<1>5. \A a, b \in Nat : Max({a, b}) \in Nat /\ Min({a, b}) \in Nat
  <2>1. TAKE a, b \in Nat
  <2>2. /\ \E x \in {a, b} : \A y \in {a, b} : x >= y
        /\ \E x \in {a, b} : \A y \in {a, b} : x <= y
    OBVIOUS
  <2>3. Max({a, b}) \in {a, b} /\ Min({a, b}) \in {a, b}
    BY <2>2 DEF Max, Min
  <2> QED BY <2>3
<1>6. PICK a \in Nat, b \in Nat : a = Max({w.from, Window[d].from}) /\ b = Min({w.to, Window[d].to})
  BY <1>4, <1>5
<1> QED BY <1>1, <1>6

(* So are the starts of the solver.  A job that starts then ends in time,  *)
(* and begins at most within the minute before the interval does.          *)
LEMMA StartsAreNumbers ==
  ASSUME ServicesOK, NEW d \in Demands, NEW p \in Workers, NEW s \in Starts(d, p)
  PROVE  /\ s \in Nat
         /\ \E i \in feasibleIntervals(d, p) :
              /\ i.from - Minute < s /\ s + Length(d) <= i.to /\ i.from \in Nat
<1>1. PICK i \in feasibleIntervals(d, p) :
        \E m \in MinutesSince(i.from)..(MinutesSince(i.to) - Window[d].minutes) : s = Minute * m
  BY DEF Starts
<1>2. i.from \in Nat /\ i.to \in Nat
  BY IntervalsAreNumbers
<1>3. PICK n \in Nat, k \in Nat : n = Minute /\ k = Window[d].minutes
  BY SolverAssumption
<1>4. PICK a \in Nat, b \in Nat : /\ a = MinutesSince(i.from) /\ b = MinutesSince(i.to)
                                 /\ i.from < n * a + n /\ n * b <= i.to
  BY <1>2, <1>3, MomentsAreRoundedDown
<1>5. PICK m \in a..(b - k) : s = n * m
  BY <1>1, <1>3, <1>4
<1>6. PICK u \in Nat : m = a + u
  <2>1. m - a \in Nat /\ m = a + (m - a)
    BY <1>5
  <2> QED BY <2>1
<1>7. PICK v \in Nat : b = m + k + v
  <2>1. b - m - k \in Nat /\ b = m + k + (b - m - k)
    BY <1>5
  <2> QED BY <2>1
<1>8. n * m = n * a + n * u /\ n * b = n * m + n * k + n * v
  BY <1>6, <1>7
<1>9. n * a \in Nat /\ n * u \in Nat /\ n * k \in Nat /\ n * v \in Nat
  OBVIOUS
<1>10. s \in Nat /\ i.from - n < s /\ s + n * k <= i.to
  BY <1>2, <1>4, <1>5, <1>8, <1>9
<1> QED BY <1>2, <1>3, <1>10 DEF Length

(* The fallback starts within the interval.                                *)
LEMMA EarliestLie ==
  ASSUME ServicesOK, NEW f, NEW d \in Demands, NEW p \in Workers, NEW s \in earliestStarts(f, d, p)
  PROVE  /\ s \in Nat
         /\ \E i \in feasibleIntervals(d, p) : i.from <= s /\ s + Length(d) <= i.to
<1>1. PICK i \in feasibleIntervals(d, p) : s \in i.from..(i.to - Length(d))
  BY DEF earliestStarts
<1>2. i.from \in Nat /\ i.to \in Nat /\ Length(d) \in Nat
  BY IntervalsAreNumbers, LengthIsNumber
<1> QED BY <1>1, <1>2

(* Only NoWorker is not a visit.                                           *)
LEMMA GivenAreVisits ==
  ASSUME NEW f \in Tables
  PROVE  /\ Given(f) = {d \in Demands : f[d] \in Visits}
         /\ IsFiniteSet(Given(f)) /\ Given(f) \subseteq Demands
         /\ \A d \in Given(f) : /\ f[d] = [provider |-> f[d].provider, from |-> f[d].from, to |-> f[d].to]
                                /\ f[d].provider \in Workers /\ f[d].from \in Nat /\ f[d].to \in Nat
<1>1. NoWorker \notin Visits
  BY SolverAssumption DEF Visits
<1>2. Given(f) = {d \in Demands : f[d] \in Visits}
  BY <1>1 DEF Given, Tables
<1>3. IsFiniteSet(Given(f)) /\ Given(f) \subseteq Demands
  BY <1>2, SolverAssumption, FS_Subset
<1>4. \A v \in Visits : v = [provider |-> v.provider, from |-> v.from, to |-> v.to]
                         /\ v.provider \in Workers /\ v.from \in Nat /\ v.to \in Nat
  BY DEF Visits
<1> QED BY <1>2, <1>3, <1>4

(* Every job of a plan lies in a declared window.                          *)
Exact(f) == Sound(f) /\ \A d \in Given(f) : Lies(f, d)

(* What the fallback adds to a plan fits beside what is there.             *)
LEMMA PlacedFits ==
  ASSUME ServicesOK, Ranked, NEW f, Exact(f), NEW d \in Demands, f[d] = NoWorker,
         NEW g, g = [e \in Demands |-> IF e = d THEN placed(f, d) ELSE f[e]]
  PROVE  Exact(g)
<1> DEFINE used(p) == {e \in Given(f) : f[e].provider = p /\ DayOf(e) = DayOf(d)}
           able == {p \in Candidates(d) : Cardinality(used(p)) < room[p] /\ earliestStarts(f, d, p) # {}}
<1>0. f \in Tables /\ Sound(f)
  BY DEF Exact, Sound
<1>1. CASE able = {}
  <2>1. placed(f, d) = NoWorker
    BY <1>1 DEF placed
  <2>2. g = f
    BY <1>0, <2>1 DEF Tables
  <2> QED BY <2>2
<1>2. CASE able # {}
  <2>1. PICK W \in SUBSET Workers : ranking[d] \in [W -> Nat]
    BY DEF Ranked
  <2>2. Candidates(d) = W
    BY <2>1 DEF Candidates
  <2>3. PICK p : p = CHOOSE q \in able : \A o \in able : ranking[d][q] <= ranking[d][o]
    OBVIOUS
  <2>4. p \in able
    <3>1. PICK R : R = {ranking[d][q] : q \in able}
      OBVIOUS
    <3>2. R \subseteq Nat /\ R # {}
      BY <1>2, <2>1, <2>2, <3>1
    <3>3. PICK x \in R : \A y \in R : x <= y
      BY <3>2, OneIsLeast
    <3>4. \E q \in able : \A o \in able : ranking[d][q] <= ranking[d][o]
      BY <3>1, <3>3
    <3> HIDE DEF able
    <3> QED BY <2>3, <3>4
  <2>5. p \in Workers /\ p \in Candidates(d) /\ Cardinality(used(p)) < room[p] /\ earliestStarts(f, d, p) # {}
    BY <2>2, <2>4
  <2>6. PICK s : s = Min(earliestStarts(f, d, p))
    OBVIOUS
  <2>7. s \in earliestStarts(f, d, p)
    <3>1. earliestStarts(f, d, p) \subseteq Nat
      BY <2>5, EarliestLie
    <3> QED BY <2>5, <2>6, <3>1, MinIsLeast
  <2>8. s \in Nat /\ \E i \in feasibleIntervals(d, p) : i.from <= s /\ s + Length(d) <= i.to
    BY <2>5, <2>7, EarliestLie
  <2>9. placed(f, d) = [provider |-> p, from |-> s, to |-> s + Length(d)]
    <3>1. placed(f, d) = Placement(d, p, s)
      BY <1>2, <2>3, <2>6 DEF placed
    <3> QED BY <3>1 DEF Placement
  <2>10. Length(d) \in Nat
    BY LengthIsNumber
  <2>11. placed(f, d) \in Visits
    BY <2>5, <2>8, <2>9, <2>10 DEF Visits
  <2>12. g \in Tables /\ g[d] = placed(f, d) /\ \A e \in Demands : e # d => g[e] = f[e]
    BY <1>0, <2>11 DEF Tables
  <2>13. d \notin Given(f) /\ Given(g) = Given(f) \cup {d}
    <3>1. NoWorker \notin Visits
      BY SolverAssumption DEF Visits
    <3> QED BY <2>11, <2>12, <3>1 DEF Given
  <2>14. \A e \in Given(f) : e # d /\ g[e] = f[e]
    BY <2>12, <2>13 DEF Given
  <2>15. g[d].provider = p /\ g[d].from = s /\ g[d].to = s + Length(d)
    BY <2>9, <2>12
  <2>16. LongEnough(g)
    BY <1>0, <2>5, <2>13, <2>14, <2>15 DEF LongEnough, Sound
  <2>19. \A e \in Given(g) : Lies(g, e)
    BY <2>8, <2>13, <2>14, <2>15 DEF Lies, Exact
  <2>17. WithinRoom(g)
    <3> DEFINE same(h, e) == {c \in Given(h) : h[c].provider = h[e].provider /\ DayOf(c) = DayOf(e)}
    <3>1. SUFFICES ASSUME NEW e \in Given(g) PROVE Cardinality(same(g, e)) <= room[g[e].provider]
      BY DEF WithinRoom
    <3>2. IsFiniteSet(Given(f)) /\ Given(f) \subseteq Demands
      BY <1>0, GivenAreVisits
    <3>3. CASE g[e].provider = p /\ DayOf(e) = DayOf(d)
      <4>1. same(g, e) = used(p) \cup {d} /\ d \notin used(p)
        BY <2>13, <2>14, <2>15, <3>3
      <4>2. IsFiniteSet(used(p))
        BY <3>2, FS_Subset
      <4>3. PICK U : U = used(p)
        OBVIOUS
      <4>4. Cardinality(U \cup {d}) = Cardinality(U) + 1 /\ Cardinality(U) \in Nat
        BY <4>1, <4>2, <4>3, FS_AddElement, FS_CardinalityType
      <4>5. room[p] \in Nat /\ Cardinality(U) < room[p]
        BY <2>5, <4>3 DEF ServicesOK
      <4>6. Cardinality(same(g, e)) = Cardinality(U) + 1
        BY <4>1, <4>3, <4>4
      <4> QED BY <3>3, <4>4, <4>5, <4>6
    <3>4. CASE ~(g[e].provider = p /\ DayOf(e) = DayOf(d))
      <4>1. e \in Given(f) /\ g[e] = f[e]
        BY <2>13, <2>14, <2>15, <3>4
      <4>2. same(g, e) = same(f, e)
        BY <2>13, <2>14, <2>15, <3>4, <4>1
      <4> QED BY <1>0, <4>1, <4>2 DEF WithinRoom, Sound
    <3> QED BY <3>3, <3>4
  <2>18. Apart(g)
    <3>1. ASSUME NEW e \in Given(f), f[e].provider = p
          PROVE  g[d].to + Travel[d][e] <= g[e].from \/ g[e].to + Travel[e][d] <= g[d].from
      <4>1. \/ s + Length(d) <= f[e].from - Travel[e][d]
            \/ s >= f[e].to + Travel[e][d]
        BY <2>7, <3>1 DEF earliestStarts
      <4>2. e \in Demands /\ f[e].from \in Nat /\ f[e].to \in Nat
        BY <1>0, GivenAreVisits
      <4>3. Travel[e][d] \in Nat /\ Travel[d][e] = Travel[e][d]
        BY <4>2, SolverAssumption
      <4>4. g[e] = f[e]
        BY <2>14
      <4> QED BY <2>8, <2>10, <2>15, <4>1, <4>2, <4>3, <4>4
    <3>2. SUFFICES ASSUME NEW a \in Given(g), NEW b \in Given(g), a # b, g[a].provider = g[b].provider
                   PROVE  g[a].to + Travel[a][b] <= g[b].from \/ g[b].to + Travel[b][a] <= g[a].from
      BY DEF Apart
    <3>3. CASE a # d /\ b # d
      <4>1. a \in Given(f) /\ b \in Given(f) /\ g[a] = f[a] /\ g[b] = f[b]
        BY <2>13, <2>14, <3>3
      <4> QED BY <1>0, <3>2, <4>1 DEF Sound, Apart
    <3>4. CASE a = d
      <4>1. b \in Given(f) /\ f[b].provider = p
        BY <2>13, <2>14, <2>15, <3>2, <3>4
      <4> QED BY <3>1, <3>4, <4>1
    <3>5. CASE b = d
      <4>1. a \in Given(f) /\ f[a].provider = p
        BY <2>13, <2>14, <2>15, <3>2, <3>5
      <4> QED BY <3>1, <3>5, <4>1
    <3> QED BY <3>3, <3>4, <3>5
  <2> QED BY <2>12, <2>16, <2>17, <2>18, <2>19 DEF Exact, Sound
<1> QED BY <1>1, <1>2

(* The plan without jobs fits.                                             *)
LEMMA NoPlanFits == Feasible(NoPlan) /\ Exact(NoPlan) /\ Given(NoPlan) = {}
<1>1. NoPlan \in Tables /\ Given(NoPlan) = {}
  BY DEF NoPlan, Given, Tables
<1> QED BY <1>1 DEF Feasible, JobsFit, WithinRoom, PairsFit, Exact, Sound, LongEnough, Apart

(* The plan of the fallback fits: whenever its turn comes a demand has no  *)
(* worker yet, and what is placed fits beside those before.                *)
LEMMA AssignFits ==
  ASSUME ServicesOK, Ranked
  PROVE  Exact(assign)
<1>1. PICK m \in Nat : m = Cardinality(Demands)
  BY SolverAssumption, FS_CardinalityType
<1>2. PICK f : IsTurns("assign", NoPlan, StartKey, f, m) /\ assign = f[m]
  BY <1>1, AssignIsTurns
<1>3. StartKey \in [Demands -> Int]
  BY SolverAssumption DEF StartKey
<1>4. \A d, e \in Demands : Place(StartKey, d) \in Nat
                             /\ (Place(StartKey, d) = Place(StartKey, e) => d = e)
  BY <1>3, SolverAssumption, PlacesDiffer
<1> DEFINE Late(g, n) == \A d \in Demands : g[d] # NoWorker => Place(StartKey, d) <= n
<1>5. PICK P : P = {n \in Nat : n <= m => Exact(f[n]) /\ Late(f[n], n)}
  OBVIOUS
<1>6. 0 \in P
  <2>1. f[0] = NoPlan
    BY <1>2 DEF IsTurns
  <2>2. Late(f[0], 0)
    BY <2>1 DEF NoPlan
  <2> QED BY <1>5, <2>1, <2>2, NoPlanFits
<1>7. ASSUME NEW n \in Nat, n \in P PROVE n + 1 \in P
  <2>1. SUFFICES ASSUME n + 1 <= m PROVE Exact(f[n + 1]) /\ Late(f[n + 1], n + 1)
    BY <1>5
  <2>2. Exact(f[n]) /\ Late(f[n], n)
    BY <1>5, <1>7, <2>1
  <2>3. n + 1 \in 0..m /\ n + 1 # 0 /\ n + 1 - 1 = n
    BY <2>1
  <2>4. f[n + 1] = [d \in Demands |-> IF d \in DOMAIN StartKey /\ Place(StartKey, d) = n + 1
                                      THEN Turn("assign", NoPlan, f[n], d) ELSE f[n][d]]
    BY <1>2, <2>1, TurnIsTaken
  <2>5. f[n + 1] = [d \in Demands |-> IF Place(StartKey, d) = n + 1 THEN placed(f[n], d) ELSE f[n][d]]
    BY <1>3, <2>4 DEF Turn
  <2>6. Late(f[n + 1], n + 1)
    BY <1>4, <2>2, <2>5
  <2>7. CASE \E d \in Demands : Place(StartKey, d) = n + 1
    <3>1. PICK d \in Demands : Place(StartKey, d) = n + 1
      BY <2>7
    <3>2. \A e \in Demands : Place(StartKey, e) = n + 1 <=> e = d
      BY <1>4, <3>1
    <3>3. f[n + 1] = [e \in Demands |-> IF e = d THEN placed(f[n], d) ELSE f[n][e]]
      BY <2>5, <3>2
    <3>4. f[n][d] = NoWorker
      BY <2>2, <3>1
    <3>5. Exact(f[n + 1])
      BY <2>2, <3>3, <3>4, PlacedFits
    <3> QED BY <2>6, <3>5
  <2>8. CASE ~\E d \in Demands : Place(StartKey, d) = n + 1
    <3>1. f[n + 1] = f[n]
      BY <2>2, <2>5, <2>8 DEF Exact, Sound, Tables
    <3> QED BY <2>2, <2>6, <3>1
  <2> QED BY <2>7, <2>8
<1>8. m \in P
  BY <1>6, <1>7, AllNumbers
<1> QED BY <1>2, <1>5, <1>8
-----------------------------------------------------------------------------
(* A job of a sound plan stands beside any part of the plan if it lies in a*)
(* declared window.                                                        *)
LEMMA LyingStands ==
  ASSUME ServicesOK, Ranked, NEW p, Sound(p), NEW d \in Given(p),
         NEW g, \A e \in Demands : g[e] \in {p[e], NoWorker}, g[d] = NoWorker
  PROVE  stands(p, g, d) <=> Lies(p, d)
<1> DEFINE others == {e \in Given(g) : g[e].provider = p[d].provider}
<1>1. p \in Tables /\ LongEnough(p) /\ WithinRoom(p) /\ Apart(p)
  BY DEF Sound
<1>2. d \in Demands /\ p[d].provider \in Workers /\ p[d].from \in Nat /\ p[d].to \in Nat
  BY <1>1, GivenAreVisits
<1>3. p[d].provider \in Candidates(d) /\ p[d].to = p[d].from + Length(d)
  BY <1>1 DEF LongEnough
<1>4. Length(d) \in Nat
  BY <1>2, LengthIsNumber
<1>5. p[d].to - p[d].from = Length(d)
  BY <1>2, <1>3, <1>4
<1>7. \A e \in others : e \in Given(p) /\ e # d /\ g[e] = p[e] /\ p[e].provider = p[d].provider
  BY DEF Given
<1>8. Cardinality({e \in others : DayOf(e) = DayOf(d)}) < room[p[d].provider]
  <2>1. PICK S : S = {e \in others : DayOf(e) = DayOf(d)}
    OBVIOUS
  <2>2. PICK T : T = {e \in Given(p) : p[e].provider = p[d].provider /\ DayOf(e) = DayOf(d)}
    OBVIOUS
  <2>3. S \subseteq T /\ d \in T /\ d \notin S
    BY <1>7, <2>1, <2>2
  <2>4. IsFiniteSet(Given(p))
    BY <1>1, GivenAreVisits
  <2>5. IsFiniteSet(T) /\ Cardinality(T) \in Nat
    BY <2>2, <2>4, FS_Subset, FS_CardinalityType
  <2>6. Cardinality(S) < Cardinality(T) /\ Cardinality(S) \in Nat
    BY <2>3, <2>5, FS_Subset, FS_CardinalityType
  <2>7. Cardinality(T) <= room[p[d].provider]
    BY <1>1, <2>2 DEF WithinRoom
  <2>8. room[p[d].provider] \in Nat
    BY <1>2 DEF ServicesOK
  <2> QED BY <2>1, <2>5, <2>6, <2>7, <2>8
<1>9. \A e \in others : ~(p[d].from < g[e].to /\ g[e].from < p[d].to)
  <2>1. TAKE e \in others
  <2>2. e \in Demands /\ p[e].from \in Nat /\ p[e].to \in Nat /\ g[e] = p[e]
    BY <1>1, <1>7, GivenAreVisits
  <2>3. p[d].to + Travel[d][e] <= p[e].from \/ p[e].to + Travel[e][d] <= p[d].from
    BY <1>1, <1>7 DEF Apart
  <2>4. Travel[d][e] \in Nat /\ Travel[e][d] \in Nat
    BY <1>2, <2>2, TravelIsNumber
  <2> QED BY <1>2, <2>2, <2>3, <2>4
<1> HIDE DEF others
<1>10. others = {e \in Given(g) : g[e].provider = p[d].provider}
  BY DEF others
<1> QED BY <1>3, <1>5, <1>8, <1>9, <1>10 DEF stands, Lies

(* The last check lets those of a sound plan have their way, and no others.*)
LEMMA LyingIsVerified ==
  ASSUME ServicesOK, Ranked, NEW p, Sound(p)
  PROVE  verified(p) = Upheld(p)
<1>0. p \in Tables
  BY DEF Sound
<1>1. PICK m \in Nat : m = Cardinality(Given(p))
  BY <1>0, GivenAreVisits, FS_CardinalityType
<1>2. PICK f : IsTurns("verify", p, PlanKey(p), f, m) /\ verified(p) = f[m]
  BY <1>0, <1>1, VerifiedIsTurns
<1>3. PlanKey(p) \in [Given(p) -> Int] /\ Given(p) \in SUBSET Nat /\ IsFiniteSet(Given(p))
      /\ Given(p) \subseteq Demands
  <2>1. IsFiniteSet(Given(p)) /\ Given(p) \subseteq Demands /\ \A d \in Given(p) : p[d].from \in Nat
    BY <1>0, GivenAreVisits
  <2>2. PlanKey(p) \in [Given(p) -> Int]
    BY <2>1 DEF PlanKey
  <2>3. Given(p) \in SUBSET Nat
    BY <2>1, SolverAssumption
  <2> QED BY <2>1, <2>2, <2>3
<1>4. \A d \in Given(p) : Place(PlanKey(p), d) \in 1..m
  BY <1>1, <1>3, PlacesDiffer
<1>5. \A d, e \in Given(p) : Place(PlanKey(p), d) = Place(PlanKey(p), e) => d = e
  BY <1>3, PlacesDiffer
<1> DEFINE Part(n) == [d \in Demands |-> IF d \in Given(p) /\ Lies(p, d) /\ Place(PlanKey(p), d) <= n
                                         THEN p[d] ELSE NoWorker]
<1>6. PICK P : P = {n \in Nat : n <= m => f[n] = Part(n)}
  OBVIOUS
<1>7. 0 \in P
  <2>1. f[0] = NoPlan
    BY <1>2 DEF IsTurns
  <2>2. Part(0) = NoPlan
    BY <1>4 DEF NoPlan
  <2> QED BY <1>6, <2>1, <2>2
<1>8. ASSUME NEW n \in Nat, n \in P PROVE n + 1 \in P
  <2>1. SUFFICES ASSUME n + 1 <= m PROVE f[n + 1] = Part(n + 1)
    BY <1>6
  <2>2. f[n] = Part(n)
    BY <1>6, <1>8, <2>1
  <2>3. n + 1 \in 0..m /\ n + 1 # 0 /\ n + 1 - 1 = n
    BY <2>1
  <2>4. f[n + 1] = [d \in Demands |-> IF d \in DOMAIN PlanKey(p) /\ Place(PlanKey(p), d) = n + 1
                                      THEN Turn("verify", p, f[n], d) ELSE f[n][d]]
    <3>1. PICK key : key = PlanKey(p)
      OBVIOUS
    <3>2. IsTurns("verify", p, key, f, m)
      BY <1>2, <3>1
    <3>3. f[n + 1] = [d \in Demands |-> IF d \in DOMAIN key /\ Place(key, d) = n + 1
                                        THEN Turn("verify", p, f[n], d) ELSE f[n][d]]
      BY <2>1, <3>2, TurnIsTaken
    <3> QED BY <3>1, <3>3
  <2>5. ASSUME NEW d \in Demands PROVE f[n + 1][d] = Part(n + 1)[d]
    <3>1. CASE d \in Given(p) /\ Place(PlanKey(p), d) = n + 1
      <4>1. \A e \in Demands : f[n][e] \in {p[e], NoWorker}
        BY <2>2
      <4>2. f[n][d] = NoWorker
        BY <2>2, <3>1
      <4>3. stands(p, f[n], d) <=> Lies(p, d)
        BY <3>1, <4>1, <4>2, LyingStands
      <4>4. f[n + 1][d] = IF Lies(p, d) THEN p[d] ELSE NoWorker
        BY <1>0, <1>3, <2>4, <3>1, <4>3 DEF Turn
      <4> QED BY <3>1, <4>4
    <3>2. CASE ~(d \in Given(p) /\ Place(PlanKey(p), d) = n + 1)
      <4>1. f[n + 1][d] = f[n][d]
        BY <1>3, <2>4, <3>2
      <4>2. d \in Given(p) => (Place(PlanKey(p), d) <= n <=> Place(PlanKey(p), d) <= n + 1)
        BY <1>4, <3>2
      <4> QED BY <2>2, <4>1, <4>2
    <3> QED BY <3>1, <3>2
  <2> QED BY <2>4, <2>5
<1>9. m \in P
  BY <1>7, <1>8, AllNumbers
<1>10. f[m] = Part(m)
  BY <1>6, <1>9
<1>11. Part(m) = Upheld(p)
  BY <1>4 DEF Upheld
<1> QED BY <1>2, <1>10, <1>11

(* What is left of a sound plan is sound, and lies in declared windows.    *)
LEMMA UpheldIsExact ==
  ASSUME ServicesOK, NEW p, Sound(p)
  PROVE  Exact(Upheld(p)) /\ \A d \in Given(p) \ Given(Upheld(p)) : ~Lies(p, d)
<1>1. PICK g : g = Upheld(p)
  OBVIOUS
<1>2. p \in Tables /\ LongEnough(p) /\ WithinRoom(p) /\ Apart(p)
  BY DEF Sound
<1>3. g \in Tables
  BY <1>1, <1>2 DEF Upheld, Tables
<1>4. \A d \in Given(g) : d \in Given(p) /\ Lies(p, d) /\ g[d] = p[d]
  BY <1>1 DEF Upheld, Given
<1>5. LongEnough(g) /\ Apart(g)
  BY <1>2, <1>4 DEF LongEnough, Apart
<1>6. \A d \in Given(g) : Lies(g, d)
  BY <1>4 DEF Lies
<1>7. WithinRoom(g)
  <2>1. SUFFICES ASSUME NEW d \in Given(g)
                 PROVE  Cardinality({e \in Given(g) : g[e].provider = g[d].provider /\ DayOf(e) = DayOf(d)})
                          <= room[g[d].provider]
    BY DEF WithinRoom
  <2>2. PICK S : S = {e \in Given(g) : g[e].provider = g[d].provider /\ DayOf(e) = DayOf(d)}
    OBVIOUS
  <2>3. PICK T : T = {e \in Given(p) : p[e].provider = p[d].provider /\ DayOf(e) = DayOf(d)}
    OBVIOUS
  <2>4. S \subseteq T
    BY <1>4, <2>2, <2>3
  <2>5. IsFiniteSet(T)
    BY <1>2, <2>3, GivenAreVisits, FS_Subset
  <2>6. Cardinality(S) <= Cardinality(T) /\ Cardinality(S) \in Nat /\ Cardinality(T) \in Nat
    BY <2>4, <2>5, FS_Subset, FS_CardinalityType
  <2>7. Cardinality(T) <= room[p[d].provider] /\ room[p[d].provider] \in Nat /\ g[d] = p[d]
    BY <1>2, <1>4, <2>3, GivenAreVisits DEF WithinRoom, ServicesOK
  <2> QED BY <2>2, <2>6, <2>7
<1>8. \A d \in Given(p) : Lies(p, d) => d \in Given(g)
  BY <1>1 DEF Upheld, Given
<1> QED BY <1>1, <1>3, <1>5, <1>6, <1>7, <1>8 DEF Exact, Sound
-----------------------------------------------------------------------------
(* The plans of the solver fit.                                            *)
LEMMA PlansFit ==
  ASSUME ServicesOK, Ranked, NEW f \in Plans
  PROVE  Feasible(f)
<1> DEFINE jobs(d) == UNION {{Placement(d, q, s) : s \in Starts(d, q)} : q \in Candidates(d)}
<1>1. /\ f \in [Demands -> UNION {{NoWorker} \cup jobs(d) : d \in Demands}]
      /\ \A d \in Demands : f[d] \in {NoWorker} \cup jobs(d)
      /\ WithinRoom(f)
      /\ \A pr \in SameWorker(f) : Ordered(f, pr[1], pr[2])
  BY DEF Plans
<1>2. ASSUME NEW d \in Demands, NEW v \in jobs(d)
      PROVE  /\ v \in Visits /\ v.provider \in Candidates(d)
             /\ v.from \in Starts(d, v.provider) /\ v.to = v.from + Length(d)
  <2>1. PICK p \in Candidates(d) : \E s \in Starts(d, p) : v = Placement(d, p, s)
    BY <1>2
  <2>0. PICK s \in Starts(d, p) : v = Placement(d, p, s)
    BY <2>1
  <2>2. PICK W \in SUBSET Workers : ranking[d] \in [W -> Nat]
    BY DEF Ranked
  <2>3. p \in Workers
    BY <2>2 DEF Candidates
  <2>4. s \in Nat /\ Length(d) \in Nat
    BY <2>3, StartsAreNumbers, LengthIsNumber
  <2>5. v = [provider |-> p, from |-> s, to |-> s + Length(d)]
    BY <2>0 DEF Placement
  <2>6. v \in Visits
    BY <2>3, <2>4, <2>5 DEF Visits
  <2>7. v.provider = p /\ v.from = s /\ v.to = s + Length(d)
    BY <2>5
  <2> QED BY <2>0, <2>1, <2>6, <2>7
<1> HIDE DEF jobs
<1>3. f \in Tables
  BY <1>1, <1>2 DEF Tables
<1>4. JobsFit(f)
  BY <1>1, <1>2 DEF JobsFit, Given
<1>5. PairsFit(f)
  <2>1. SUFFICES ASSUME NEW d \in Given(f), NEW e \in Given(f), d # e, f[d].provider = f[e].provider
                 PROVE  Ordered(f, d, e)
    BY DEF PairsFit
  <2>2. PICK pr : pr = <<d, e>>
    OBVIOUS
  <2>3. pr \in SameWorker(f) /\ pr[1] = d /\ pr[2] = e
    BY <2>1, <2>2 DEF SameWorker
  <2> QED BY <1>1, <2>3
<1> QED BY <1>1, <1>3, <1>4, <1>5 DEF Feasible

(* They are sound, and only the minute in which a window opens is at stake.*)
LEMMA FittingIsSound ==
  ASSUME ServicesOK, Ranked, NEW f, Feasible(f)
  PROVE  Sound(f) /\ \A d \in Given(f) : Lies(f, d) \/ Early(f, d)
<1>1. f \in Tables /\ JobsFit(f) /\ WithinRoom(f) /\ PairsFit(f)
  BY DEF Feasible
<1>2. LongEnough(f)
  BY <1>1 DEF JobsFit, LongEnough
<1>3. ASSUME NEW d \in Given(f), NEW e \in Given(f), d # e, f[d].provider = f[e].provider
      PROVE  f[d].to + Travel[d][e] <= f[e].from \/ f[e].to + Travel[e][d] <= f[d].from
  <2>1. Ordered(f, d, e)
    BY <1>1, <1>3 DEF PairsFit
  <2>2. /\ d \in Demands /\ f[d].from \in Nat /\ f[d].to \in Nat
        /\ e \in Demands /\ f[e].from \in Nat /\ f[e].to \in Nat
    BY <1>1, GivenAreVisits
  <2>3. PICK a \in Nat, b \in Nat : a = Minute * TravelMinutes(Travel[d][e])
                                 /\ b = Minute * TravelMinutes(Travel[e][d])
                                 /\ Travel[d][e] \in Nat /\ Travel[d][e] <= a
                                 /\ Travel[e][d] \in Nat /\ Travel[e][d] <= b
    BY <2>2, TravelIsNumber
  <2>4. f[e].from >= f[d].to + a \/ f[d].from >= f[e].to + b
    BY <2>1, <2>3 DEF Ordered
  <2> QED BY <2>2, <2>3, <2>4
<1>4. ASSUME NEW d \in Given(f) PROVE Lies(f, d) \/ Early(f, d)
  <2>1. /\ d \in Demands /\ f[d].provider \in Workers /\ f[d].from \in Starts(d, f[d].provider)
        /\ f[d].to = f[d].from + Length(d)
    BY <1>1, GivenAreVisits DEF JobsFit
  <2>2. PICK i \in feasibleIntervals(d, f[d].provider) :
          /\ i.from - Minute < f[d].from /\ f[d].from + Length(d) <= i.to /\ i.from \in Nat
    BY <2>1, StartsAreNumbers
  <2>3. f[d].from \in Nat
    BY <2>1, StartsAreNumbers
  <2>4. CASE i.from <= f[d].from
    BY <2>1, <2>2, <2>4 DEF Lies
  <2>5. CASE f[d].from < i.from
    BY <2>2, <2>5 DEF Early
  <2> QED BY <2>2, <2>3, <2>4, <2>5
<1>5. Apart(f)
  BY <1>3 DEF Apart
<1> QED BY <1>1, <1>2, <1>4, <1>5 DEF Sound

(* Ranking gives each candidate a place.                                   *)
LEMMA RankingIsRanked ==
  ASSUME ServicesOK, NEW d \in Demands
  PROVE  \E W \in SUBSET Workers : rankDemand(d) \in [W -> Nat]
<1>1. PICK W : W = {q \in Workers : evaluate(d, q)}
  OBVIOUS
<1>2. PICK key : key = [p \in W |-> -score[p]]
  OBVIOUS
<1>3. W \in SUBSET Workers /\ W \in SUBSET Nat /\ IsFiniteSet(W)
  BY <1>1, SolverAssumption, FS_Subset
<1>4. key \in [W -> Int]
  BY <1>2, <1>3 DEF ServicesOK
<1>5. \A p \in W : Place(key, p) \in Nat
  <2>1. TAKE p \in W
  <2>2. Place(key, p) \in 1..Cardinality(W) /\ Cardinality(W) \in Nat
    BY <1>3, <1>4, PlacesDiffer, FS_CardinalityType
  <2> QED BY <2>2
<1>6. rankDemand(d) = [p \in W |-> Place(key, p)]
  BY <1>1, <1>2 DEF rankDemand
<1> QED BY <1>3, <1>5, <1>6

(* The invariant at first.                                                 *)
LEMMA SolverStarts == SolverInit => SolverOK
<1>1. SUFFICES ASSUME SolverInit PROVE SolverOK
  OBVIOUS
<1>2. ServicesOK
  BY <1>1, SolverAssumption DEF SolverInit, ServicesOK
<1> QED BY <1>1, <1>2, NoPlanFits DEF SolverInit, SolverOK, Exact

(* What a plan is worth depends on what core has sent and on the rankings. *)
LEMMA PlansKeepWorth ==
  ASSUME UNCHANGED <<calendar, room, ranking>>, NEW f
  PROVE  /\ Sound(f)' <=> Sound(f)
         /\ \A d : (Lies(f, d)' <=> Lies(f, d)) /\ (Early(f, d)' <=> Early(f, d))
         /\ Upheld(f)' = Upheld(f)
<1>1. \A d, p : feasibleIntervals(d, p)' = feasibleIntervals(d, p)
  BY DEF feasibleIntervals
<1>2. \A d : (Lies(f, d)' <=> Lies(f, d)) /\ (Early(f, d)' <=> Early(f, d))
  BY <1>1 DEF Lies, Early
<1>3. Sound(f)' <=> Sound(f)
  BY DEF Sound, LongEnough, WithinRoom, Apart, Candidates, Given
<1>4. Upheld(f)' = Upheld(f)
  BY <1>2 DEF Upheld, Given
<1> QED BY <1>2, <1>3, <1>4

(* Each step of the engine keeps it.                                       *)
LEMMA SolverStep == SolverOK /\ [SolverNext]_solverVars => SolverOK'
<1> SUFFICES ASSUME SolverOK, [SolverNext]_solverVars PROVE SolverOK'
  OBVIOUS
<1>1. CASE rank
  <2>1. ServicesOK /\ ServicesOK'
    BY <1>1 DEF rank, ServicesOK, SolverOK
  <2>2. Ranked'
    BY <1>1, <2>1, RankingIsRanked DEF rank, Ranked
  <2>3. proposed' = NoPlan /\ accepted' = NoPlan /\ violations' = 0 /\ status' = "ranked"
    BY <1>1 DEF rank, SolverOK
  <2>4. NoPlan \in Tables /\ Given(NoPlan) = {}
    BY NoPlanFits DEF Exact, Sound
  <2>5. Sound(proposed)' /\ Given(proposed)' = {}
    BY <2>3, <2>4 DEF Sound, LongEnough, WithinRoom, Apart, Given
  <2> QED BY <2>1, <2>2, <2>3, <2>5 DEF SolverOK
<1>2. CASE solve
  <2>1. ServicesOK /\ Ranked /\ accepted = NoPlan /\ violations = 0
    BY <1>2 DEF solve, SolverOK
  <2>2. ServicesOK' /\ Ranked' /\ accepted' = NoPlan /\ violations' = 0
    BY <1>2, <2>1 DEF solve, ServicesOK, Ranked
  <2>3. status' \in {"OPTIMAL", "FEASIBLE", "TIMEOUT"}
        /\ ((proposed' \in Plans /\ status' # "TIMEOUT") \/ proposed' = assign)
    BY <1>2 DEF solve
  <2>4. PICK p : p = proposed'
    OBVIOUS
  <2>5. Sound(p) /\ \A d \in Given(p) : Lies(p, d) \/ (status' # "TIMEOUT" /\ Early(p, d))
    <3>1. CASE p \in Plans /\ status' # "TIMEOUT"
      BY <2>1, <3>1, PlansFit, FittingIsSound
    <3>2. CASE p = assign
      BY <2>1, <3>2, AssignFits DEF Exact
    <3> QED BY <2>3, <2>4, <3>1, <3>2
  <2>6. UNCHANGED <<calendar, room, ranking>>
    BY <1>2 DEF solve
  <2>7. Sound(p)' /\ \A d \in Given(p)' : Lies(p, d)' \/ (status' # "TIMEOUT" /\ Early(p, d)')
    BY <2>5, <2>6, PlansKeepWorth DEF Given
  <2>8. /\ Sound(proposed)'
        /\ \A d \in Given(proposed)' : Lies(proposed, d)' \/ (status' # "TIMEOUT" /\ Early(proposed, d)')
    BY <2>4, <2>7 DEF Sound, LongEnough, WithinRoom, Apart, Given, Lies, Early
  <2> QED BY <2>2, <2>3, <2>8 DEF SolverOK
<1>3. CASE verify
  <2>1. ServicesOK /\ Ranked /\ Sound(proposed)
    BY <1>3 DEF verify, SolverOK
  <2>2. UNCHANGED <<calendar, room, score, ranking, status, proposed>> /\ status \notin {"new", "ranked"}
    BY <1>3 DEF verify
  <2>3. accepted' = Upheld(proposed)
    BY <1>3, <2>1, LyingIsVerified DEF verify
  <2> QED BY <2>2, <2>3 DEF SolverOK, ServicesOK, Ranked, Sound, LongEnough, WithinRoom, Apart, Upheld,
                            Given, Candidates, Lies, Early, feasibleIntervals
<1>4. CASE UNCHANGED solverVars
  BY <1>4 DEF solverVars, SolverOK, ServicesOK, Ranked, Sound, LongEnough, WithinRoom, Apart, Upheld,
              Given, Candidates, Lies, Early, feasibleIntervals
<1> QED BY <1>1, <1>2, <1>3, <1>4 DEF SolverNext

(* What is answered can be carried out, and the last check has taken out   *)
(* nothing but jobs of the solver's that would begin in the minute in which*)
(* a window opens, before it does.                                         *)
THEOREM AnswersStand == SolverSpec => []SolverInv
<1>1. SolverOK => AnswerIsFeasible
  <2>1. SUFFICES ASSUME SolverOK PROVE AnswerIsFeasible
    OBVIOUS
  <2>2. Exact(accepted)
    BY <2>1, NoPlanFits, UpheldIsExact DEF SolverOK
  <2>3. WithinRoom(accepted) /\ Apart(accepted)
    BY <2>2 DEF Exact, Sound
  <2>4. ASSUME NEW pr \in SameWorker(accepted)
        PROVE  \/ accepted[pr[1]].to + Travel[pr[1]][pr[2]] <= accepted[pr[2]].from
               \/ accepted[pr[2]].to + Travel[pr[2]][pr[1]] <= accepted[pr[1]].from
    <3>1. PICK d \in Given(accepted), e \in Given(accepted) :
             d = pr[1] /\ e = pr[2] /\ d # e /\ accepted[d].provider = accepted[e].provider
      BY DEF SameWorker
    <3> QED BY <2>3, <3>1 DEF Apart
  <2>5. \A d \in Given(accepted) : Lies(accepted, d)
    BY <2>2 DEF Exact
  <2> QED BY <2>3, <2>4, <2>5 DEF AnswerIsFeasible, Lies
<1>2. SolverOK => OnlyCutShort
  <2>1. SUFFICES ASSUME SolverOK, violations > 0, NEW d \in Given(proposed) \ Given(accepted)
                 PROVE  status # "TIMEOUT" /\ Early(proposed, d)
    BY DEF OnlyCutShort, Early
  <2>2. accepted = Upheld(proposed)
    BY <2>1 DEF SolverOK
  <2>3. ~Lies(proposed, d)
    BY <2>1, <2>2, UpheldIsExact DEF SolverOK
  <2> QED BY <2>1, <2>3 DEF SolverOK
<1>3. SolverSpec => []SolverOK
  BY SolverStarts, SolverStep, PTL DEF SolverSpec
<1> QED BY <1>1, <1>2, <1>3, PTL DEF SolverInv
-----------------------------------------------------------------------------
(* THE OPTIMUM                                                             *)
(*                                                                         *)
(* The objective is a sum over the jobs without one over the pairs of jobs *)
(* of a worker. A sum over a finite set exists and lies between so many    *)
(* times the least and the greatest value, so a plan for more demands has  *)
(* the better objective whenever the bonus of a placement outweighs what a *)
(* plan can gain and lose otherwise.                                       *)

(* Any member of a set.                                                    *)
Picked(s) == CHOOSE x \in s : TRUE

(* The sums of the values h over the sets that are in a family.            *)
SumsOver(h, family, sum) ==
  sum = [s \in family |-> IF s = {} THEN 0 ELSE h[Picked(s)] + sum[s \ {Picked(s)}]]

(* Of a set of n + 1 members, n are left when one is picked.               *)
LEMMA OneLess ==
  ASSUME NEW s, IsFiniteSet(s), s # {}
  PROVE  /\ Picked(s) \in s /\ s \ {Picked(s)} \subseteq s /\ IsFiniteSet(s \ {Picked(s)})
         /\ Cardinality(s) \in Nat /\ Cardinality(s) >= 1
         /\ Cardinality(s \ {Picked(s)}) = Cardinality(s) - 1
<1>1. Picked(s) \in s
  BY DEF Picked
<1>2. PICK x : x = Picked(s)
  OBVIOUS
<1>3. /\ IsFiniteSet(s \ {x}) /\ Cardinality(s) \in Nat /\ Cardinality(s \ {x}) \in Nat
      /\ Cardinality(s \ {x}) = Cardinality(s) - 1
  BY <1>1, <1>2, FS_RemoveElement, FS_CardinalityType
<1> QED BY <1>1, <1>2, <1>3

(* A finite set can be summed over.                                        *)
LEMMA SumsExist ==
  ASSUME NEW S, IsFiniteSet(S), NEW h
  PROVE  \E sum : SumsOver(h, SUBSET S, sum)
<1> DEFINE upto(n) == {t \in SUBSET S : Cardinality(t) <= n}
<1>0. \A t \in SUBSET S : IsFiniteSet(t) /\ Cardinality(t) \in Nat
  BY FS_Subset, FS_CardinalityType
<1>1. PICK P : P = {n \in Nat : \E sum : SumsOver(h, upto(n), sum)}
  OBVIOUS
<1>2. 0 \in P
  <2>1. PICK sum : sum = [t \in upto(0) |-> 0]
    OBVIOUS
  <2>2. \A t \in upto(0) : t = {}
    BY <1>0, FS_EmptySet
  <2>3. SumsOver(h, upto(0), sum)
    BY <2>1, <2>2 DEF SumsOver
  <2> QED BY <1>1, <2>3
<1>3. ASSUME NEW n \in Nat, n \in P PROVE n + 1 \in P
  <2>1. PICK a : SumsOver(h, upto(n), a)
    BY <1>1, <1>3
  <2>2. PICK b : b = [t \in upto(n + 1) |-> IF t = {} THEN 0 ELSE h[Picked(t)] + a[t \ {Picked(t)}]]
    OBVIOUS
  <2>3. ASSUME NEW t \in upto(n) PROVE b[t] = a[t]
    <3>1. t \in upto(n + 1)
      BY <1>0
    <3>2. a[t] = IF t = {} THEN 0 ELSE h[Picked(t)] + a[t \ {Picked(t)}]
      BY <2>1 DEF SumsOver
    <3> HIDE DEF upto
    <3> QED BY <2>2, <3>1, <3>2
  <2>4. ASSUME NEW t \in upto(n + 1), t # {} PROVE b[t \ {Picked(t)}] = a[t \ {Picked(t)}]
    <3>1. IsFiniteSet(t) /\ t \subseteq S /\ Cardinality(t) <= n + 1
      BY <1>0
    <3>2. PICK r : r = t \ {Picked(t)}
      OBVIOUS
    <3>3. r \subseteq t /\ Cardinality(r) = Cardinality(t) - 1 /\ Cardinality(t) \in Nat
      BY <2>4, <3>1, <3>2, OneLess
    <3>4. r \in upto(n)
      BY <3>1, <3>3
    <3> HIDE DEF upto
    <3> QED BY <2>3, <3>2, <3>4
  <2> HIDE DEF upto
  <2>5. \A t \in upto(n + 1) : b[t] = IF t = {} THEN 0 ELSE h[Picked(t)] + b[t \ {Picked(t)}]
    BY <2>2, <2>4
  <2>6. b = [t \in upto(n + 1) |-> b[t]]
    BY <2>2
  <2>7. SumsOver(h, upto(n + 1), b)
    BY <2>5, <2>6 DEF SumsOver
  <2> QED BY <1>1, <2>7
<1>4. Cardinality(S) \in P
  <2>1. Cardinality(S) \in Nat
    BY FS_CardinalityType
  <2>2. Nat \subseteq P
    BY <1>2, <1>3, AllNumbers
  <2> QED BY <2>1, <2>2
<1>5. upto(Cardinality(S)) = SUBSET S
  BY <1>0, FS_Subset
<1> HIDE DEF upto
<1> QED BY <1>1, <1>4, <1>5

(* A sum is at least, and at most, so many times what each value is.       *)
LEMMA SumIsBetween ==
  ASSUME NEW S, IsFiniteSet(S), NEW lo \in Int, NEW hi \in Int, NEW h,
         \A x \in S : h[x] \in Int /\ lo <= h[x] /\ h[x] <= hi,
         NEW sum, SumsOver(h, SUBSET S, sum)
  PROVE  /\ sum[S] \in Int /\ Cardinality(S) \in Nat
         /\ lo * Cardinality(S) <= sum[S] /\ sum[S] <= hi * Cardinality(S)
<1>1. PICK P : P = {n \in Nat : \A t \in SUBSET S : Cardinality(t) = n =>
                                   /\ sum[t] \in Int /\ lo * n <= sum[t] /\ sum[t] <= hi * n}
  OBVIOUS
<1>2. \A t \in SUBSET S :
        /\ IsFiniteSet(t) /\ Cardinality(t) \in Nat
        /\ sum[t] = IF t = {} THEN 0 ELSE h[Picked(t)] + sum[t \ {Picked(t)}]
  BY FS_Subset, FS_CardinalityType DEF SumsOver
<1>3. 0 \in P
  <2>1. \A t \in SUBSET S : Cardinality(t) = 0 => t = {}
    BY <1>2, FS_EmptySet
  <2>2. lo * 0 = 0 /\ hi * 0 = 0
    OBVIOUS
  <2> QED BY <1>1, <1>2, <2>1, <2>2
<1>4. ASSUME NEW n \in Nat, n \in P PROVE n + 1 \in P
  <2>1. SUFFICES ASSUME NEW t \in SUBSET S, Cardinality(t) = n + 1
                 PROVE  /\ sum[t] \in Int /\ lo * (n + 1) <= sum[t] /\ sum[t] <= hi * (n + 1)
    BY <1>1
  <2>2. t # {} /\ IsFiniteSet(t)
    <3>1. IsFiniteSet(t)
      BY <1>2
    <3> QED BY <2>1, <3>1, FS_EmptySet
  <2>3. PICK x \in t, r \in SUBSET S : x = Picked(t) /\ r = t \ {Picked(t)} /\ Cardinality(r) = n
    <3>1. PICK x, r : x = Picked(t) /\ r = t \ {Picked(t)}
      OBVIOUS
    <3>2. x \in t /\ r \subseteq t /\ Cardinality(r) = Cardinality(t) - 1
      BY <2>2, <3>1, OneLess
    <3> QED BY <2>1, <3>1, <3>2
  <2>4. sum[t] = h[x] + sum[r] /\ h[x] \in Int /\ lo <= h[x] /\ h[x] <= hi
    BY <1>2, <2>2, <2>3
  <2>5. sum[r] \in Int /\ lo * n <= sum[r] /\ sum[r] <= hi * n
    BY <1>1, <1>4, <2>3
  <2>6. lo * (n + 1) = lo * n + lo /\ hi * (n + 1) = hi * n + hi /\ lo * n \in Int /\ hi * n \in Int
    OBVIOUS
  <2> QED BY <2>4, <2>5, <2>6
<1>5. Nat \subseteq P
  BY <1>3, <1>4, AllNumbers
<1>6. Cardinality(S) \in Nat /\ S \in SUBSET S
  BY FS_CardinalityType
<1> QED BY <1>1, <1>5, <1>6
-----------------------------------------------------------------------------
(* What the objective pays for a job; the pairs of jobs of a worker, the   *)
(* earlier one first; and what it takes for the way of a pair.             *)
Pay(f, d) ==
  Bonus + score[f[d].provider] - Tie * ranking[d][f[d].provider]
  - Penalty * TravelMinutes(Home[f[d].provider])
PaysOf(f) == [d \in Given(f) |-> Pay(f, d)]
Chains(f) == {pr \in SameWorker(f) : f[pr[1]].from < f[pr[2]].from}
WaysOf(f) == [pr \in Chains(f) |-> Penalty * TravelMinutes(Travel[pr[1]][pr[2]])]

(* The sums of the objective, as it takes them.                            *)
TakesPays(f, sum) ==
  sum = [s \in SUBSET Given(f) |-> IF s = {} THEN 0 ELSE Pay(f, Picked(s)) + sum[s \ {Picked(s)}]]
TakesWays(f, sum) ==
  sum = [s \in SUBSET Chains(f) |->
           IF s = {} THEN 0
           ELSE Penalty * TravelMinutes(Travel[Picked(s)[1]][Picked(s)[2]]) + sum[s \ {Picked(s)}]]

(* They are sums over the jobs and the pairs.                              *)
LEMMA TakenAreSums ==
  ASSUME NEW f, NEW sum
  PROVE  /\ TakesPays(f, sum) <=> SumsOver(PaysOf(f), SUBSET Given(f), sum)
         /\ TakesWays(f, sum) <=> SumsOver(WaysOf(f), SUBSET Chains(f), sum)
<1>1. \A s \in SUBSET Given(f) : s # {} => PaysOf(f)[Picked(s)] = Pay(f, Picked(s))
  <2>1. TAKE s \in SUBSET Given(f)
  <2>2. s # {} => Picked(s) \in Given(f)
    BY DEF Picked
  <2> QED BY <2>2 DEF PaysOf
<1>2. \A s \in SUBSET Chains(f) :
        s # {} => WaysOf(f)[Picked(s)] = Penalty * TravelMinutes(Travel[Picked(s)[1]][Picked(s)[2]])
  <2>1. TAKE s \in SUBSET Chains(f)
  <2>2. s # {} => Picked(s) \in Chains(f)
    BY DEF Picked
  <2> QED BY <2>2 DEF WaysOf
<1>3. [s \in SUBSET Given(f) |-> IF s = {} THEN 0 ELSE Pay(f, Picked(s)) + sum[s \ {Picked(s)}]]
        = [s \in SUBSET Given(f) |-> IF s = {} THEN 0 ELSE PaysOf(f)[Picked(s)] + sum[s \ {Picked(s)}]]
  BY <1>1
<1>4. [s \in SUBSET Chains(f) |->
         IF s = {} THEN 0 ELSE Penalty * TravelMinutes(Travel[Picked(s)[1]][Picked(s)[2]]) + sum[s \ {Picked(s)}]]
        = [s \in SUBSET Chains(f) |-> IF s = {} THEN 0 ELSE WaysOf(f)[Picked(s)] + sum[s \ {Picked(s)}]]
  BY <1>2
<1> QED BY <1>3, <1>4 DEF TakesPays, TakesWays, SumsOver

(* The objective is the one sum without the other.                         *)
LEMMA ObjectiveIsSums ==
  ASSUME NEW f, IsFiniteSet(Given(f)), IsFiniteSet(Chains(f))
  PROVE  \E a, b : /\ SumsOver(PaysOf(f), SUBSET Given(f), a)
                   /\ SumsOver(WaysOf(f), SUBSET Chains(f), b)
                   /\ objective(f) = a[Given(f)] - b[Chains(f)]
<1>1. PICK a : a = CHOOSE sum : TakesPays(f, sum)
  OBVIOUS
<1>2. PICK b : b = CHOOSE sum : TakesWays(f, sum)
  OBVIOUS
<1>3. TakesPays(f, a)
  <2>1. \E sum : TakesPays(f, sum)
    BY SumsExist, TakenAreSums
  <2> QED BY <1>1, <2>1, Zenon
<1>4. TakesWays(f, b)
  <2>1. \E sum : TakesWays(f, sum)
    BY SumsExist, TakenAreSums
  <2> QED BY <1>2, <2>1, Zenon
<1>5. MapThenSumSet(LAMBDA d : Pay(f, d), Given(f)) = a[Given(f)]
  BY <1>1 DEF MapThenSumSet, MapThenFoldSet, TakesPays, Picked
<1>6. MapThenSumSet(LAMBDA pr : Penalty * TravelMinutes(Travel[pr[1]][pr[2]]), Chains(f)) = b[Chains(f)]
  BY <1>2 DEF MapThenSumSet, MapThenFoldSet, TakesWays, Picked
<1>7. objective(f) = a[Given(f)] - b[Chains(f)]
  BY <1>5, <1>6 DEF objective, Pay, Chains
<1> QED BY <1>3, <1>4, <1>7, TakenAreSums
-----------------------------------------------------------------------------
(* How much of the objective can be lost on a job at the most, and how much*)
(* on the ways of a plan.                                                  *)
LostOnJob(home) == Tie * Cardinality(Workers) + Penalty * home
LostOnWays(way) == (Cardinality(Demands) * Cardinality(Demands)) * (Penalty * way)

(* What bounds the scores, the minutes from home and those between.        *)
Bounds(top, home, way) ==
  /\ \A s \in Scores : s <= top
  /\ \A p \in Workers : TravelMinutes(Home[p]) <= home
  /\ \A d, e \in Demands : TravelMinutes(Travel[d][e]) <= way

(* The bonus of one placement is more than all that the rest of the        *)
(* objective can pay and take in a plan.                                   *)
BonusDominates ==
  \E top, home, way \in Nat :
    /\ Bounds(top, home, way)
    /\ Bonus > Cardinality(Demands) * (top + LostOnJob(home)) + LostOnWays(way)

(* Scores are those of the bound, and a candidate's place is a number up to*)
(* that of the workers.                                                    *)
PlacesOK ==
  /\ score \in [Workers -> Scores]
  /\ \A d \in Demands : \A p \in Candidates(d) : ranking[d][p] \in 1..Cardinality(Workers)

(* More of something is at least as much of it.                            *)
LEMMA MoreTimes ==
  ASSUME NEW a \in Nat, NEW b \in Nat, NEW c \in Nat, a <= b
  PROVE  a * c \in Nat /\ b * c \in Nat /\ a * c <= b * c /\ c * a = a * c /\ c * b = b * c
<1>1. PICK r \in Nat : b = a + r
  <2>1. b - a \in Nat /\ b = a + (b - a)
    OBVIOUS
  <2> QED BY <2>1
<1>2. b * c = a * c + r * c /\ a * c \in Nat /\ r * c \in Nat
  BY <1>1
<1> QED BY <1>2

(* There are no more pairs of jobs than pairs of demands.                  *)
LEMMA FewChains ==
  ASSUME NEW f \in Tables
  PROVE  /\ Cardinality(Given(f)) \in Nat /\ Cardinality(Demands) \in Nat
         /\ Cardinality(Given(f)) <= Cardinality(Demands)
         /\ IsFiniteSet(Chains(f)) /\ Cardinality(Chains(f)) \in Nat
         /\ Cardinality(Chains(f)) <= Cardinality(Demands) * Cardinality(Demands)
<1>1. IsFiniteSet(Demands) /\ IsFiniteSet(Given(f)) /\ Given(f) \subseteq Demands
  BY GivenAreVisits, SolverAssumption
<1>2. /\ Cardinality(Given(f)) \in Nat /\ Cardinality(Demands) \in Nat
      /\ Cardinality(Given(f)) <= Cardinality(Demands)
  BY <1>1, FS_CardinalityType, FS_Subset
<1>3. IsFiniteSet(Demands \X Demands)
      /\ Cardinality(Demands \X Demands) = Cardinality(Demands) * Cardinality(Demands)
  BY <1>1, FS_Product
<1>4. Chains(f) \subseteq Demands \X Demands
  BY <1>1 DEF Chains, SameWorker
<1>5. IsFiniteSet(Chains(f)) /\ Cardinality(Chains(f)) <= Cardinality(Demands \X Demands)
  BY <1>3, <1>4, FS_Subset
<1> QED BY <1>2, <1>3, <1>5, FS_CardinalityType

(* A job pays between the bonus without what can be lost on it and the     *)
(* bonus with the best score.                                              *)
LEMMA PayIsBetween ==
  ASSUME ServicesOK, PlacesOK, NEW f, Feasible(f), NEW d \in Given(f),
         NEW top \in Nat, NEW home \in Nat, NEW way \in Nat, Bounds(top, home, way)
  PROVE  /\ Pay(f, d) \in Int
         /\ Bonus - LostOnJob(home) <= Pay(f, d) /\ Pay(f, d) <= Bonus + top
<1>1. d \in Demands /\ f[d].provider \in Workers /\ f[d].provider \in Candidates(d)
  BY GivenAreVisits DEF Feasible, JobsFit
<1>2. PICK p \in Workers : p = f[d].provider /\ p \in Candidates(d)
  BY <1>1
<1>3. PICK v \in Nat : v = Cardinality(Workers)
  BY SolverAssumption, FS_CardinalityType
<1>4. PICK r \in Nat : r = ranking[d][p] /\ r <= v
  <2>1. ranking[d][p] \in 1..Cardinality(Workers)
    BY <1>1, <1>2 DEF PlacesOK
  <2> QED BY <1>3, <2>1
<1>5. PICK s \in Nat : s = score[p] /\ s <= top
  <2>1. score[p] \in Scores
    BY <1>2 DEF PlacesOK
  <2> QED BY <2>1, SolverAssumption DEF Bounds
<1>6. PICK h \in Nat : h = TravelMinutes(Home[p]) /\ h <= home
  <2>1. Home[p] \in Nat
    BY <1>2, SolverAssumption
  <2> QED BY <2>1, WaysAreRoundedUp DEF Bounds
<1>7. Bonus \in Nat /\ Tie \in Nat /\ Penalty \in Nat
  BY SolverAssumption
<1>8. /\ Tie * r \in Nat /\ Tie * v \in Nat /\ Tie * r <= Tie * v
      /\ Penalty * h \in Nat /\ Penalty * home \in Nat /\ Penalty * h <= Penalty * home
  BY <1>4, <1>6, <1>7, MoreTimes
<1>9. Pay(f, d) = Bonus + s - Tie * r - Penalty * h
  BY <1>2, <1>4, <1>5, <1>6 DEF Pay
<1>10. LostOnJob(home) = Tie * v + Penalty * home
  BY <1>3 DEF LostOnJob
<1> QED BY <1>5, <1>7, <1>8, <1>9, <1>10

(* A pair takes no more than the longest way.                              *)
LEMMA WayIsBetween ==
  ASSUME NEW f \in Tables, NEW pr \in Chains(f),
         NEW top \in Nat, NEW home \in Nat, NEW way \in Nat, Bounds(top, home, way)
  PROVE  /\ Penalty * TravelMinutes(Travel[pr[1]][pr[2]]) \in Int
         /\ 0 <= Penalty * TravelMinutes(Travel[pr[1]][pr[2]]) /\ Penalty * TravelMinutes(Travel[pr[1]][pr[2]]) <= Penalty * way
<1>1. PICK d \in Demands, e \in Demands : d = pr[1] /\ e = pr[2]
  BY GivenAreVisits DEF Chains, SameWorker
<1>2. PICK t \in Nat : t = TravelMinutes(Travel[pr[1]][pr[2]]) /\ t <= way
  <2>1. TravelMinutes(Travel[d][e]) \in Nat
    BY TravelIsNumber
  <2> QED BY <1>1, <2>1 DEF Bounds
<1>3. Penalty * t \in Nat /\ Penalty * way \in Nat /\ Penalty * t <= Penalty * way
  BY <1>2, SolverAssumption, MoreTimes
<1> QED BY <1>2, <1>3

(* And a plan for so many demands pays accordingly.                        *)
LEMMA ObjectiveIsBetween ==
  ASSUME ServicesOK, PlacesOK, NEW f, Feasible(f),
         NEW top \in Nat, NEW home \in Nat, NEW way \in Nat, Bounds(top, home, way)
  PROVE  /\ objective(f) \in Int
         /\ (Bonus - LostOnJob(home)) * Cardinality(Given(f)) - LostOnWays(way) <= objective(f)
         /\ objective(f) <= (Bonus + top) * Cardinality(Given(f))
<1>1. f \in Tables /\ IsFiniteSet(Given(f)) /\ IsFiniteSet(Chains(f))
  BY GivenAreVisits, FewChains DEF Feasible
<1>2. PICK a, b : /\ SumsOver(PaysOf(f), SUBSET Given(f), a)
                  /\ SumsOver(WaysOf(f), SUBSET Chains(f), b)
                  /\ objective(f) = a[Given(f)] - b[Chains(f)]
  BY <1>1, ObjectiveIsSums
<1>3. /\ Bonus \in Nat /\ Penalty \in Nat /\ LostOnJob(home) \in Nat /\ Penalty * way \in Nat
      /\ Cardinality(Demands) \in Nat
  BY SolverAssumption, FS_CardinalityType DEF LostOnJob
<1>4. PICK lo \in Int, hi \in Int, far \in Int :
        lo = Bonus - LostOnJob(home) /\ hi = Bonus + top /\ far = Penalty * way /\ far \in Nat
  BY <1>3
<1>5. \A d \in Given(f) : PaysOf(f)[d] \in Int /\ lo <= PaysOf(f)[d] /\ PaysOf(f)[d] <= hi
  BY <1>4, PayIsBetween DEF PaysOf
<1>6. PICK z \in Int : /\ z = 0
                       /\ \A pr \in Chains(f) : /\ WaysOf(f)[pr] \in Int
                                                /\ z <= WaysOf(f)[pr] /\ WaysOf(f)[pr] <= far
  BY <1>1, <1>4, WayIsBetween DEF WaysOf
<1>7. /\ a[Given(f)] \in Int /\ lo * Cardinality(Given(f)) <= a[Given(f)]
      /\ a[Given(f)] <= hi * Cardinality(Given(f))
  BY <1>1, <1>2, <1>5, SumIsBetween
<1>8. /\ b[Chains(f)] \in Int /\ z * Cardinality(Chains(f)) <= b[Chains(f)]
      /\ b[Chains(f)] <= far * Cardinality(Chains(f))
  BY <1>1, <1>2, <1>6, SumIsBetween
<1>9. 0 <= b[Chains(f)] /\ b[Chains(f)] <= LostOnWays(way)
  <2>1. PICK n \in Nat, c \in Nat :
          n = Cardinality(Demands) * Cardinality(Demands) /\ c = Cardinality(Chains(f)) /\ c <= n
    BY <1>1, <1>3, FewChains
  <2>2. c * far <= n * far /\ far * c = c * far /\ z * c = 0 /\ n * far \in Nat /\ c * far \in Nat
    BY <1>6, <2>1, <1>4, MoreTimes
  <2>3. LostOnWays(way) = n * far
    BY <2>1, <1>4 DEF LostOnWays
  <2> QED BY <1>8, <2>1, <2>2, <2>3
<1>10. LostOnWays(way) \in Nat /\ Cardinality(Given(f)) \in Nat
  BY <1>1, <1>3, FewChains DEF LostOnWays
<1>11. PICK x \in Int, y \in Int, k \in Nat, w \in Nat :
         x = a[Given(f)] /\ y = b[Chains(f)] /\ k = Cardinality(Given(f)) /\ w = LostOnWays(way)
  BY <1>7, <1>8, <1>10
<1>12. lo * k \in Int /\ hi * k \in Int /\ lo * k <= x /\ x <= hi * k /\ 0 <= y /\ y <= w
  BY <1>4, <1>7, <1>9, <1>11
<1>13. x - y \in Int /\ lo * k - w <= x - y /\ x - y <= hi * k
  BY <1>12
<1> QED BY <1>2, <1>4, <1>11, <1>13
-----------------------------------------------------------------------------
(* A plan for more demands is better.                                      *)
LEMMA MoreIsBetter ==
  ASSUME ServicesOK, PlacesOK, BonusDominates, NEW f, NEW g, Feasible(f), Feasible(g),
         Cardinality(Given(f)) < Cardinality(Given(g))
  PROVE  objective(f) \in Int /\ objective(g) \in Int /\ objective(f) < objective(g)
<1>1. PICK top \in Nat, home \in Nat, way \in Nat :
        /\ Bounds(top, home, way)
        /\ Bonus > Cardinality(Demands) * (top + LostOnJob(home)) + LostOnWays(way)
  BY DEF BonusDominates
<1>2. /\ Bonus \in Nat /\ LostOnJob(home) \in Nat /\ LostOnWays(way) \in Nat
  <2>1. Cardinality(Demands) \in Nat /\ Cardinality(Workers) \in Nat
    BY SolverAssumption, FS_CardinalityType
  <2> QED BY <2>1, SolverAssumption DEF LostOnJob, LostOnWays
<1>3. PICK n \in Nat, k \in Nat, m \in Nat :
        /\ n = Cardinality(Demands) /\ k = Cardinality(Given(f)) /\ m = Cardinality(Given(g))
        /\ k < m /\ m <= n
  BY FewChains DEF Feasible
<1>4. PICK lost \in Nat, ways \in Nat, bonus \in Nat :
        lost = LostOnJob(home) /\ ways = LostOnWays(way) /\ bonus = Bonus
  BY <1>2
<1>5. objective(f) \in Int /\ objective(f) <= (bonus + top) * k
  BY <1>1, <1>3, <1>4, ObjectiveIsBetween
<1>6. objective(g) \in Int /\ (bonus - lost) * m - ways <= objective(g)
  BY <1>1, <1>3, <1>4, ObjectiveIsBetween
<1>7. bonus > n * (top + lost) + ways
  BY <1>1, <1>3, <1>4
<1>8. (bonus + top) * k < (bonus - lost) * m - ways
  <2>1. PICK j \in Nat : m = k + 1 + j
    <3>1. m - k - 1 \in Nat /\ m = k + 1 + (m - k - 1)
      BY <1>3
    <3> QED BY <3>1
  <2>2. k * top <= n * top /\ m * lost <= n * lost /\ k * top \in Nat /\ m * lost \in Nat
        /\ n * top \in Nat /\ n * lost \in Nat
    BY <1>3, MoreTimes
  <2>3. n * (top + lost) = n * top + n * lost
    OBVIOUS
  <2>4. (bonus + top) * k = bonus * k + k * top
    OBVIOUS
  <2>5. (bonus - lost) * m = bonus * m - m * lost
    OBVIOUS
  <2>6. bonus * m = bonus * k + bonus + bonus * j /\ bonus * j \in Nat /\ bonus * k \in Nat
    BY <2>1
  <2> QED BY <1>7, <2>2, <2>3, <2>4, <2>5, <2>6
<1>9. (bonus + top) * k \in Int /\ (bonus - lost) * m - ways \in Int
  OBVIOUS
<1> QED BY <1>5, <1>6, <1>8, <1>9
-----------------------------------------------------------------------------
(* What fits is a plan of the solver's.                                    *)
LEMMA FittingIsPlan ==
  ASSUME NEW f, Feasible(f)
  PROVE  f \in Plans
<1> DEFINE options == [d \in Demands |->
                         {NoWorker} \cup UNION {{Placement(d, p, s) : s \in Starts(d, p)} :
                                              p \in Candidates(d)}]
<1>1. ASSUME NEW d \in Demands PROVE f[d] \in options[d]
  <2>1. CASE f[d] = NoWorker
    BY <2>1
  <2>2. CASE f[d] # NoWorker
    <3>1. d \in Given(f) /\ f \in Tables
      BY <2>2 DEF Given, Feasible
    <3>2. PICK p, s : p = f[d].provider /\ s = f[d].from
      OBVIOUS
    <3>3. f[d] = [provider |-> p, from |-> s, to |-> f[d].to]
      BY <3>1, <3>2, GivenAreVisits
    <3>4. p \in Candidates(d) /\ s \in Starts(d, p) /\ f[d].to = s + Length(d)
      BY <3>1, <3>2 DEF Feasible, JobsFit
    <3>5. f[d] = Placement(d, p, s)
      BY <3>3, <3>4 DEF Placement
    <3>6. f[d] \in {Placement(d, p, r) : r \in Starts(d, p)}
      BY <3>4, <3>5
    <3> QED BY <3>4, <3>6
  <2> QED BY <2>1, <2>2
<1> HIDE DEF options
<1>2. f = [d \in Demands |-> f[d]]
  BY DEF Feasible, Tables
<1>3. f \in [Demands -> UNION {options[d] : d \in Demands}]
  BY <1>1, <1>2
<1>4. WithinRoom(f)
  BY DEF Feasible
<1>5. \A pr \in SameWorker(f) : Ordered(f, pr[1], pr[2])
  BY DEF Feasible, PairsFit, SameWorker
<1> QED BY <1>1, <1>3, <1>4, <1>5 DEF Plans, options

(* Of some numbers that are bounded one is the greatest.                   *)
LEMMA OneIsGreatest ==
  ASSUME NEW S \in SUBSET Int, S # {}, NEW u \in Int, \A x \in S : x <= u
  PROVE  Max(S) \in S /\ \A y \in S : y <= Max(S)
<1>1. PICK under : under = {u - x : x \in S}
  OBVIOUS
<1>2. under \in SUBSET Nat /\ under # {}
  <2>1. \A x \in S : u - x \in Nat
    OBVIOUS
  <2> QED BY <1>1, <2>1
<1>3. PICK n \in under : \A k \in under : n <= k
  BY <1>2, OneIsLeast
<1>4. PICK x \in S : n = u - x
  BY <1>1, <1>3
<1>5. \A y \in S : x >= y
  <2>1. TAKE y \in S
  <2>2. u - y \in under
    BY <1>1
  <2> QED BY <1>3, <1>4, <2>2
<1>6. PICK m : m = Max(S)
  OBVIOUS
<1>7. m \in S /\ \A y \in S : m >= y
  BY <1>5, <1>6, Zenon DEF Max
<1>8. \A y \in S : y <= m
  BY <1>7
<1> QED BY <1>6, <1>7, <1>8, Zenon

(* A plan with the best objective serves as many as any.                   *)
LEMMA BestServesMost ==
  ASSUME ServicesOK, Ranked, PlacesOK, BonusDominates,
         NEW p \in Plans, objective(p) = Max({objective(f) : f \in Plans}),
         NEW g, Feasible(g)
  PROVE  Cardinality(Given(g)) <= Cardinality(Given(p))
<1>1. SUFFICES ASSUME Cardinality(Given(p)) < Cardinality(Given(g)) PROVE FALSE
  <2>1. Cardinality(Given(g)) \in Nat /\ Cardinality(Given(p)) \in Nat
    BY PlansFit, FewChains DEF Feasible
  <2> QED BY <2>1
<1>2. Feasible(p) /\ g \in Plans
  BY PlansFit, FittingIsPlan
<1>3. objective(p) \in Int /\ objective(g) \in Int /\ objective(p) < objective(g)
  BY <1>1, <1>2, MoreIsBetter
<1>4. PICK values : values = {objective(f) : f \in Plans}
  OBVIOUS
<1>5. PICK u \in Int : \A v \in values : v \in Int /\ v <= u
  <2>1. PICK top \in Nat, home \in Nat, way \in Nat : Bounds(top, home, way)
    BY DEF BonusDominates
  <2>2. PICK n \in Nat : n = Cardinality(Demands)
    BY SolverAssumption, FS_CardinalityType
  <2>3. PICK b \in Nat : b = Bonus + top
    BY SolverAssumption
  <2>4. ASSUME NEW f \in Plans PROVE objective(f) \in Int /\ objective(f) <= n * b
    <3>1. Feasible(f)
      BY PlansFit
    <3>2. PICK k \in Nat : k = Cardinality(Given(f)) /\ k <= n
      BY <2>2, <3>1, FewChains DEF Feasible
    <3>3. objective(f) \in Int /\ objective(f) <= b * k
      BY <2>1, <2>3, <3>1, <3>2, ObjectiveIsBetween
    <3>4. b * k = k * b /\ k * b <= n * b /\ k * b \in Nat /\ n * b \in Nat
      BY <3>2, MoreTimes
    <3> QED BY <3>3, <3>4
  <2> QED BY <1>4, <2>4
<1>6. values \in SUBSET Int /\ values # {} /\ objective(g) \in values
  BY <1>2, <1>4, <1>5
<1>7. objective(g) <= Max(values)
  BY <1>5, <1>6, OneIsGreatest
<1>8. objective(p) = Max(values)
  BY <1>4
<1> QED BY <1>3, <1>7, <1>8

(* What the solver counts is what the best plans serve.                    *)
LEMMA MostIsGreatest ==
  ASSUME ServicesOK, Ranked, NEW most1, most1 = Max({Cardinality(Given(f)) : f \in Plans})
  PROVE  /\ most1 \in Nat /\ \E f \in Plans : Cardinality(Given(f)) = most1
         /\ \A g \in Tables : Feasible(g) => Cardinality(Given(g)) <= most1
<1>1. PICK sizes : sizes = {Cardinality(Given(f)) : f \in Plans}
  OBVIOUS
<1>2. PICK n \in Nat : n = Cardinality(Demands)
  BY SolverAssumption, FS_CardinalityType
<1>3. \A f \in Plans : Cardinality(Given(f)) \in Nat /\ Cardinality(Given(f)) <= n
  BY <1>2, PlansFit, FewChains DEF Feasible
<1>4. sizes \in SUBSET Nat /\ sizes # {} /\ \A x \in sizes : x <= n
  BY <1>1, <1>3, NoPlanFits, FittingIsPlan
<1>5. Max(sizes) \in sizes /\ \A y \in sizes : y <= Max(sizes)
  <2>1. sizes \in SUBSET Int /\ n \in Int
    BY <1>4
  <2> QED BY <1>4, <2>1, OneIsGreatest
<1>6. most1 = Max(sizes)
  BY <1>1
<1> QED BY <1>1, <1>4, <1>5, <1>6, FittingIsPlan
-----------------------------------------------------------------------------
(* What is counted is the most that can be served, and an optimum serves as*)
(* many.                                                                   *)
MostOK ==
  /\ PlacesOK
  /\ status \notin {"new", "ranked"} =>
       most \in Nat /\ \A g \in Tables : Feasible(g) => Cardinality(Given(g)) <= most
  /\ status = "OPTIMAL" => Cardinality(Given(proposed)) = most

(* A candidate's place is a number up to that of the workers.              *)
LEMMA RankingIsShort ==
  ASSUME ServicesOK, NEW d \in Demands, NEW p \in DOMAIN rankDemand(d)
  PROVE  rankDemand(d)[p] \in 1..Cardinality(Workers)
<1>1. PICK W : W = {q \in Workers : evaluate(d, q)}
  OBVIOUS
<1>2. PICK key : key = [q \in W |-> -score[q]]
  OBVIOUS
<1>3. W \in SUBSET Workers /\ W \in SUBSET Nat /\ IsFiniteSet(W)
      /\ Cardinality(W) \in Nat /\ Cardinality(Workers) \in Nat /\ Cardinality(W) <= Cardinality(Workers)
  BY <1>1, SolverAssumption, FS_Subset, FS_CardinalityType
<1>4. key \in [W -> Int]
  BY <1>2, <1>3 DEF ServicesOK
<1>5. rankDemand(d) = [q \in W |-> Place(key, q)]
  BY <1>1, <1>2 DEF rankDemand
<1>6. p \in W /\ rankDemand(d)[p] = Place(key, p)
  BY <1>5
<1>7. Place(key, p) \in 1..Cardinality(W)
  BY <1>3, <1>4, <1>6, PlacesDiffer
<1> QED BY <1>3, <1>6, <1>7

(* The count is right as long as the engine runs.                          *)
LEMMA MostStep ==
  ASSUME BonusDominates, SolverOK, MostOK, [SolverNext]_solverVars
  PROVE  MostOK'
<1>1. CASE rank
  <2>1. ServicesOK /\ status' = "ranked" /\ score' = score /\ ranking' = [d \in Demands |-> rankDemand(d)]
    BY <1>1 DEF rank, SolverOK
  <2>2. \A d \in Demands : \A p \in DOMAIN rankDemand(d) : rankDemand(d)[p] \in 1..Cardinality(Workers)
    BY <2>1, RankingIsShort
  <2>3. PlacesOK'
    BY <2>1, <2>2 DEF MostOK, PlacesOK, Candidates
  <2> QED BY <2>1, <2>3 DEF MostOK
<1>2. CASE solve
  <2>1. ServicesOK /\ Ranked /\ PlacesOK
    BY <1>2 DEF solve, SolverOK, MostOK
  <2>2. PlacesOK'
    BY <1>2, <2>1 DEF solve, PlacesOK, Candidates
  <2>3. PICK m, p : m = most' /\ p = proposed'
    OBVIOUS
  <2>4. /\ m = Max({Cardinality(Given(f)) : f \in Plans})
        /\ status' = "OPTIMAL" => p \in Plans /\ objective(p) = Max({objective(f) : f \in Plans})
    BY <1>2, <2>3 DEF solve
  <2>5. /\ m \in Nat /\ \E f \in Plans : Cardinality(Given(f)) = m
        /\ \A g \in Tables : Feasible(g) => Cardinality(Given(g)) <= m
    BY <2>1, <2>4, MostIsGreatest
  <2>6. status' = "OPTIMAL" => Cardinality(Given(p)) = m
    <3>1. SUFFICES ASSUME status' = "OPTIMAL" PROVE Cardinality(Given(p)) = m
      OBVIOUS
    <3>2. PICK f \in Plans : Cardinality(Given(f)) = m
      BY <2>5
    <3>3. Feasible(f) /\ Feasible(p)
      BY <2>1, <2>4, <3>1, PlansFit
    <3>4. m <= Cardinality(Given(p))
      BY <2>1, <2>4, <3>1, <3>2, <3>3, BestServesMost
    <3>5. Cardinality(Given(p)) <= m /\ Cardinality(Given(p)) \in Nat
      BY <2>5, <3>3, FewChains DEF Feasible
    <3> QED BY <2>5, <3>4, <3>5
  <2>7. \A g \in Tables : Feasible(g)' => Feasible(g)
    BY <1>2 DEF Feasible, JobsFit, WithinRoom, PairsFit, Ordered, Given, Candidates, Starts,
                feasibleIntervals, solve
  <2>8. \A g \in Tables : Feasible(g)' => Cardinality(Given(g)) <= most'
    BY <2>3, <2>5, <2>7
  <2> QED BY <2>2, <2>3, <2>5, <2>6, <2>8 DEF MostOK, Given
<1>3. CASE verify \/ UNCHANGED solverVars
  <2>1. UNCHANGED <<calendar, room, score, ranking, status, proposed, most>>
    BY <1>3 DEF verify, solverVars
  <2>2. PlacesOK'
    BY <2>1 DEF MostOK, PlacesOK, Candidates
  <2>3. \A g \in Tables : Feasible(g)' => Feasible(g)
    BY <2>1 DEF Feasible, JobsFit, WithinRoom, PairsFit, Ordered, Given, Candidates, Starts,
                feasibleIntervals
  <2> QED BY <2>1, <2>2, <2>3 DEF MostOK, Given
<1> QED BY <1>1, <1>2, <1>3 DEF SolverNext

(* Whoever can be served at whole minutes is served by an optimum: it gives*)
(* no fewer demands a worker than any plan of the solver's, when the bonus *)
(* of a placement is more than the rest of the objective can make up for.  *)
THEOREM OptimumIsFull ==
  ASSUME BonusDominates
  PROVE  SolverSpec => []OptimumServesMost
<1>1. SolverInit => MostOK
  BY SolverAssumption DEF SolverInit, MostOK, PlacesOK, Candidates
<1>2. SolverOK /\ MostOK /\ [SolverNext]_solverVars => MostOK'
  BY MostStep
<1>3. MostOK => OptimumServesMost
  BY DEF MostOK, OptimumServesMost
<1> QED BY <1>1, <1>2, <1>3, SolverStarts, SolverStep, PTL DEF SolverSpec
=============================================================================
