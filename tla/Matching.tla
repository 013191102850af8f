------------------------------ MODULE Matching ------------------------------
(***************************************************************************)
(* From a booking request to a booking.  A batch of requests is read, the  *)
(* engine (or the fallback) decides without a transaction, and what it has *)
(* proposed is checked again and written in one.  Other batches, bookings  *)
(* made directly, cancellations and the provider's calendar go on in       *)
(* between.  Time is cut into slots; an interval is from the slot `from` up*)
(* to, but not including, the slot `to`.                                   *)
(***************************************************************************)
EXTENDS Integers, FiniteSetsExt

CONSTANTS
  Requests,    \* ids of booking requests, numbers
  Providers,
  Matchers,    \* bound: API calls that are handled at a time
  Demand,      \* request |-> [from, to, minutes, customer, skilled]
  Distance,    \* provider |-> distance to every address
  Declared,    \* the availability windows at first
  Exceptions,  \* bound: exceptions that providers may add
  Capacities,  \* bound: the values of max_daily_bookings of each provider
  Proposals,   \* bound: what an engine may propose for a request
  Wishes,      \* bound: what may be booked directly
  MaxCancels,  \* bound: cancelled bookings
  MaxEdits,    \* bound: changes of calendars and capacities
  DayLength,   \* slots of a day
  None

ASSUME MatchingAssumption ==
  /\ Requests \subseteq Nat /\ IsFiniteSet(Requests) /\ None \notin Requests /\ DayLength \in Nat \ {0}
  /\ \A p \in Providers : Capacities[p] # {} /\ Capacities[p] \subseteq 1..10 /\ Distance[p] \in Nat
  /\ \A r \in Requests :
       /\ Demand[r].from \in Nat /\ Demand[r].to \in Nat /\ Demand[r].minutes \in Nat \ {0}
       /\ Demand[r].to - Demand[r].from >= Demand[r].minutes
  /\ \A a \in Proposals \cup Wishes :
       a # None /\ a.provider \in Providers /\ a.from \in Nat /\ a.to \in Nat

VARIABLES
  request,    \* status of each booking request
  windows,    \* availability: what providers declare, disjoint for each
  closed,     \* availability_exceptions
  capacity,   \* max_daily_bookings of each provider
  bookings,   \* the committed ones
  run         \* what each matcher is doing

matchingVars == <<request, windows, closed, capacity, bookings, run>>

Idle ==
  [pc |-> "idle", batch |-> {}, done |-> {}, offers |-> <<>>, plan |-> <<>>, hand |-> None,
   placed |-> {}, held |-> {}, shared |-> {}, alone |-> TRUE]

MatchingInit ==
  /\ request = [r \in Requests |-> "NONE"]
  /\ windows = Declared /\ closed = {}
  /\ capacity = [p \in Providers |-> Min(Capacities[p])]
  /\ bookings = {}
  /\ run = [m \in Matchers |-> Idle]
-----------------------------------------------------------------------------
Slots(i) == i.from..(i.to - 1)
Overlap(i, j) == i.provider = j.provider /\ Slots(i) \cap Slots(j) # {}
Day(t) == t \div DayLength

Live == {b \in bookings : ~b.cancelled}
Booking(a, r) ==
  [provider |-> a.provider, from |-> a.from, to |-> a.to, request |-> r, cancelled |-> FALSE]

(* Bookings of p that start on day d, among B.                             *)
Booked(B, p, d) == Cardinality({b \in B : b.provider = p /\ Day(b.from) = d})

(* Where a matcher is before its second transaction.                       *)
Reads == {"idle", "prepare", "decide"}

(* Matchers whose second transaction is open, and of them the one that has *)
(* the lock of the audit log: it keeps it until it commits.                *)
Writing == {m \in Matchers : run[m].pc \notin Reads}
Auditing == {m \in Writing : run[m].done # {}}

(* The request of its batch that m is at; a booking by hand has none.      *)
Asked(m) == IF run[m].batch = {} THEN None ELSE Min(run[m].batch \ run[m].done)

(* Requests whose row m has locked.                                        *)
Locked(m) ==
  IF run[m].pc = "prepare" THEN DOMAIN run[m].offers
  ELSE run[m].done \cup (IF run[m].pc \in {"book", "insert", "record"} THEN {Asked(m)} \ {None} ELSE {})
-----------------------------------------------------------------------------
(* A request is stored when its parser was sure enough, or from the form.  *)
insert(r) ==
  /\ request[r] = "NONE" /\ Auditing = {}
  /\ request' = [request EXCEPT ![r] = "CREATED"]
  /\ UNCHANGED <<windows, closed, capacity, bookings, run>>

(* The time of p that is left for request r: adjacent windows are merged.  *)
Free(p, r) ==
  LET own(S) == UNION {Slots(i) : i \in {j \in S : j.provider = p}}
  IN (own(windows) \ (own(closed) \cup own(Live))) \cap Slots(Demand[r])

StartSlots(free, minutes) == {s \in free : s..(s + minutes - 1) \subseteq free}

(* CANDIDATE_SQL: what the engine is told of each provider.                *)
findCandidates(r) ==
  [p \in {q \in Providers : /\ StartSlots(Free(q, r), Demand[r].minutes) # {}
                            /\ Booked(Live, q, Day(Demand[r].from)) < capacity[q]}
     |-> [free |-> Free(p, r), count |-> Booked(Live, p, Day(Demand[r].from)), max |-> capacity[p]]]

(* One transaction locks each request of the batch, in the order of their  *)
(* ids, and reads its candidates, each in a statement of its own; it lets  *)
(* go of the requests when the last one has been read.                     *)
prepare(m, B) ==
  LET known == run[m].offers
      r == Min(B \ DOMAIN known)
      read == DOMAIN known \cup {r}
  IN /\ \/ run[m].pc = "idle" /\ B # {}
        \/ run[m].pc = "prepare" /\ B = run[m].batch
     /\ request[r] = "CREATED" /\ \A n \in Matchers \ {m} : r \notin Locked(n)
     /\ run' = [run EXCEPT ![m] =
          [Idle EXCEPT !.pc = IF read = B THEN "decide" ELSE "prepare", !.batch = B,
                       !.offers = [q \in read |-> IF q = r THEN findCandidates(r) ELSE known[q]]]]
     /\ UNCHANGED <<request, windows, closed, capacity, bookings>>
-----------------------------------------------------------------------------
Eligible(m, r) == DOMAIN run[m].offers[r] \cap Demand[r].skilled

(* The nearest provider that has room for r beside what plan gives it, and *)
(* there the earliest start.                                               *)
placeGreedily(m, r, plan) ==
  LET given == {q \in DOMAIN plan : plan[q] # None}
      busy(p) == UNION {Slots(plan[q]) : q \in {o \in given : plan[o].provider = p}}
      used(p) == Cardinality({q \in given : /\ plan[q].provider = p
                                            /\ Day(Demand[q].from) = Day(Demand[r].from)})
      offer == run[m].offers[r]
      starts(p) == StartSlots(offer[p].free \ busy(p), Demand[r].minutes)
      able == {p \in Eligible(m, r) : offer[p].count + used(p) < offer[p].max /\ starts(p) # {}}
      p == CHOOSE q \in able : \A o \in able : Distance[q] <= Distance[o]
  IN IF able = {} THEN None
     ELSE [provider |-> p, from |-> Min(starts(p)), to |-> Min(starts(p)) + Demand[r].minutes]

(* The order of the fallback: by the start of the window, then by id.      *)
Earlier(q, r) == Demand[q].from < Demand[r].from \/ (Demand[q].from = Demand[r].from /\ q < r)

Places(m, r) ==
  UNION {{[provider |-> p, from |-> s, to |-> s + Demand[r].minutes] :
            s \in StartSlots(run[m].offers[r][p].free, Demand[r].minutes)} : p \in Eligible(m, r)}

(* Each is placed beside what those before it were given.                  *)
fallback(m) ==
  LET B == run[m].batch
      choices == {None} \cup UNION {Places(m, r) : r \in B}
  IN {plan \in [B -> choices] :
        \A r \in B :
          plan[r] = placeGreedily(m, r, [q \in {o \in B : Earlier(o, r)} |-> plan[q]])}

(* mutation: an unknown length of the job is accepted                      *)
AnyLength(m, r, a) ==
  /\ a # None
  /\ a.provider \in Eligible(m, r)
  /\ Slots(a) \cap run[m].offers[r][a.provider].free # {}

(* The engine is not trusted: the provider must be one of the candidates,  *)
(* the time as long as asked and free as far as was known.                 *)
verifyAssignment(m, r, a) ==
  /\ a # None
  /\ a.provider \in Eligible(m, r)
  /\ a.to - a.from = Demand[r].minutes
  /\ Slots(a) \subseteq run[m].offers[r][a.provider].free

(* The engine proposes whatever it likes; without it, the fallback.        *)
PlansFor(m) == [run[m].batch -> Proposals \cup {None}] \cup fallback(m)

(* m opens its second transaction; `alone`: no other is open with it.      *)
Commences(m, next) ==
  run' = [n \in Matchers |->
            IF n = m THEN [next EXCEPT !.alone = Writing = {}]
            ELSE [run[n] EXCEPT !.alone = @ /\ n \notin Writing]]

(* What stands of the plan depends on what was read, so it is settled here.*)
decide(m) ==
  /\ run[m].pc = "decide"
  /\ \E plan \in PlansFor(m) :
       Commences(m, [run[m] EXCEPT !.pc = "verify", !.offers = <<>>,
                   !.plan = [r \in run[m].batch |->
                               IF verifyAssignment(m, r, plan[r]) THEN plan[r] ELSE None]])
  /\ UNCHANGED <<request, windows, closed, capacity, bookings>>
-----------------------------------------------------------------------------
(* Nothing of the transaction remains.                                     *)
Rollback(m) == run' = [run EXCEPT ![m] = Idle]

(* The capacity is read again.  The count has the bookings that this       *)
(* transaction has inserted, and the batch adds them once more.            *)
acceptAssignment(m, r, a) ==
  LET d == Day(Demand[r].from)
      inBatch == {b \in run[m].placed : b.provider = a.provider /\ Day(Demand[b.request].from) = d}
  IN /\ Booked(Live \cup run[m].placed, a.provider, d) + Cardinality(inBatch) < capacity[a.provider]
     /\ \A b \in run[m].placed : ~Overlap(a, b)

(* The row of the request is locked and, for a proposal that stands, the   *)
(* one of the provider shared.                                             *)
persist(m) ==
  /\ run[m].pc = "verify"
  /\ LET r == Asked(m)
         a == run[m].plan[r]
         shared == run[m].shared \cup (IF a # None THEN {a.provider} ELSE {})
     IN /\ \A n \in Matchers \ {m} : r \notin Locked(n)
        /\ IF request[r] = "MATCHED" THEN Rollback(m)
           ELSE IF a # None /\ acceptAssignment(m, r, a)
           THEN run' = [run EXCEPT ![m].pc = "book", ![m].hand = a, ![m].shared = shared]
           ELSE run' = [run EXCEPT ![m].pc = "record", ![m].hand = None, ![m].shared = shared]
  /\ UNCHANGED <<request, windows, closed, capacity, bookings>>

(* Who books by hand begins here: no capacity, no request.                 *)
create(m) ==
  /\ run[m].pc = "idle"
  /\ \E w \in Wishes : Commences(m, [Idle EXCEPT !.pc = "book", !.hand = w])
  /\ UNCHANGED <<request, windows, closed, capacity, bookings>>

(* mutation: the window is read without a lock                             *)
AvailableUnlocked(m) ==
  /\ run[m].pc = "book"
  /\ run' = [run EXCEPT ![m].pc = "insert"]
  /\ UNCHANGED <<request, windows, closed, capacity, bookings>>

(* isAvailableLocked: one window holds the whole time, and is locked       *)
(* against removal; nothing that is committed, or the transaction's own,   *)
(* blocks it.  A failure undoes the whole batch.                           *)
createWithin(m) ==
  /\ run[m].pc = "book"
  /\ LET a == run[m].hand
         over == {w \in windows : w.provider = a.provider /\ Slots(a) \subseteq Slots(w)}
         own == Asked(m) # None /\ Demand[Asked(m)].customer = a.provider
     IN IF a.to <= a.from \/ own \/ over = {} \/ \E b \in closed \cup Live \cup run[m].placed : Overlap(a, b)
        THEN Rollback(m)
        ELSE run' = [run EXCEPT ![m].pc = "insert", ![m].held = @ \cup over]
  /\ UNCHANGED <<request, windows, closed, capacity, bookings>>

(* mutation: an index in place of the exclusion constraint                 *)
SameSlotOnly(i, j) == i.provider = j.provider /\ i.from = j.from

Excludes(i, j) == Overlap(i, j)

(* The row waits for those of open transactions that it excludes.          *)
Inserted(m) ==
  /\ run[m].pc = "insert"
  /\ LET b == Booking(run[m].hand, Asked(m))
     IN /\ \A n \in Writing \ {m} : \A c \in run[n].placed : ~Excludes(b, c)
        /\ IF \E c \in Live : Excludes(b, c) \/ (b.request # None /\ b.request = c.request)
           THEN Rollback(m)
           ELSE run' = [run EXCEPT ![m].pc = "record", ![m].placed = @ \cup {b}]
  /\ UNCHANGED <<request, windows, closed, capacity, bookings>>

Settled(m) ==
  [r \in Requests |-> IF \E b \in run[m].placed : b.request = r THEN "MATCHED" ELSE request[r]]

(* The run, its results and the audit entry are written.  After the last   *)
(* request of the batch the transaction commits.                           *)
Recorded(m) ==
  /\ run[m].pc = "record" /\ Auditing \subseteq {m}
  /\ IF run[m].batch \ (run[m].done \cup {Asked(m)}) # {}
     THEN /\ run' = [run EXCEPT ![m].pc = "verify", ![m].done = @ \cup {Asked(m)}]
          /\ UNCHANGED <<request, bookings>>
     ELSE /\ bookings' = bookings \cup run[m].placed
          /\ request' = Settled(m)
          /\ run' = [run EXCEPT ![m] = Idle]
  /\ UNCHANGED <<windows, closed, capacity>>

(* A crash, a lost connection, a deadlock of which it is the victim, or a  *)
(* request of the batch that cannot be matched.                            *)
Fails(m) ==
  /\ run[m].pc # "idle" /\ Rollback(m)
  /\ UNCHANGED <<request, windows, closed, capacity, bookings>>
-----------------------------------------------------------------------------
(* A booking is cancelled; its request stays MATCHED.                      *)
cancel(b) ==
  /\ b \in Live /\ Auditing = {}
  /\ Cardinality(bookings \ Live) < MaxCancels
  /\ bookings' = (bookings \ {b}) \cup {[b EXCEPT !.cancelled = TRUE]}
  /\ UNCHANGED <<request, windows, closed, capacity, run>>

Edits ==
  Cardinality(Declared \ windows) + Cardinality(closed)
  + Cardinality({p \in Providers : capacity[p] # Min(Capacities[p])})

remove(w) ==
  /\ w \in windows /\ Auditing = {} /\ Edits < MaxEdits
  /\ \A n \in Writing : w \notin run[n].held
  /\ windows' = windows \ {w}
  /\ UNCHANGED <<request, closed, capacity, bookings, run>>

addException(e) ==
  /\ e \notin closed /\ Edits < MaxEdits
  /\ closed' = closed \cup {e}
  /\ UNCHANGED <<request, windows, capacity, bookings, run>>

update(p, max) ==
  /\ max # capacity[p] /\ Auditing = {}
  /\ max = Min(Capacities[p]) \/ Edits < MaxEdits
  /\ \A n \in Writing : p \notin run[n].shared
  /\ capacity' = [capacity EXCEPT ![p] = max]
  /\ UNCHANGED <<request, windows, closed, bookings, run>>

MatchingNext ==
  \/ \E r \in Requests : insert(r)
  \/ \E m \in Matchers :
       \/ \E B \in SUBSET Requests : prepare(m, B)
       \/ decide(m) \/ persist(m) \/ create(m) \/ createWithin(m) \/ Inserted(m)
       \/ Recorded(m) \/ Fails(m)
  \/ \E b \in bookings : cancel(b)
  \/ \E w \in windows : remove(w)
  \/ \E e \in Exceptions : addException(e)
  \/ \E p \in Providers : \E max \in Capacities[p] : update(p, max)

MatchingSpec == MatchingInit /\ [][MatchingNext]_matchingVars
-----------------------------------------------------------------------------
MatchingTypeOK ==
  /\ request \in [Requests -> {"NONE", "CREATED", "MATCHED"}]
  /\ windows \subseteq Declared /\ closed \subseteq Exceptions
  /\ \A p \in Providers : capacity[p] \in Capacities[p]
  /\ \A b \in bookings : b.provider \in Providers /\ b.from < b.to /\ b.request \in Requests \cup {None}
  /\ \A m \in Matchers :
       /\ run[m].pc \in Reads \cup {"verify", "book", "insert", "record"}
       /\ run[m].held \subseteq windows /\ run[m].shared \subseteq Providers

(* A provider is never promised to two customers at once, although the time*)
(* is found free before the booking is written, and other transactions     *)
(* write at the same time.                                                 *)
NoDoubleBooking == \A b, c \in Live : b # c => ~Overlap(b, c)

(* A request gives one booking, however many batches it is in, and one that*)
(* is not matched gives none.                                              *)
MatchedOnce ==
  \A r \in Requests :
    LET made == {b \in bookings : b.request = r}
    IN Cardinality(made) <= 1 /\ (request[r] = "MATCHED" <=> made # {})

(* Whatever the engine has proposed, a booking that it led to is in the    *)
(* window the customer asked for, as long as asked, with a provider who has*)
(* the skills and is not the customer.                                     *)
BookingFitsRequest ==
  \A b \in {c \in bookings : c.request # None} :
    LET d == Demand[b.request]
    IN /\ d.from <= b.from /\ b.to <= d.to /\ b.to - b.from = d.minutes
       /\ b.provider \in d.skilled /\ b.provider # d.customer

(* The fallback always has a plan, and only one: it gives no provider two  *)
(* jobs at a time, and none beyond a capacity it was told of.              *)
FallbackIsSound ==
  \A m \in {n \in Matchers : run[n].pc = "decide"} : \E plan \in fallback(m) :
    /\ fallback(m) = {plan}
    /\ LET given == {r \in run[m].batch : plan[r] # None}
       IN \A q, r \in given :
            /\ q # r => ~Overlap(plan[q], plan[r])
            /\ LET daily == {o \in given : plan[o].provider = plan[r].provider
                                            /\ Day(Demand[o].from) = Day(Demand[r].from)}
               IN \E o \in daily :
                    Cardinality(daily) <= run[m].offers[o][plan[o].provider].max

Commits(m) == run[m].pc = "record" /\ run'[m] = Idle /\ bookings' # bookings

(* A booking is written into a time that its provider offers when it is    *)
(* written: a window is not taken away between the check and the commit.   *)
FreshAvailability ==
  [][\A b \in bookings' \ bookings : ~b.cancelled =>
       \E w \in windows' : w.provider = b.provider /\ Slots(b) \subseteq Slots(w)]_matchingVars

(* A booking that starts on the day that the window of its request does.   *)
InDay(b) == b.request # None /\ Day(b.from) = Day(Demand[b.request].from)

(* A batch whose transaction met no other does not take a provider beyond  *)
(* the capacity of the day, as it is when the batch commits, not as it was *)
(* when the engine was asked.  (A job that is given a start after midnight *)
(* is counted on the day before: such a batch is excepted.)                *)
CapacityUnlessRaced ==
  [][\A m \in Matchers : Commits(m) /\ run[m].alone /\ (\A b \in run[m].placed : InDay(b)) =>
       \A b \in run[m].placed :
         Booked({c \in bookings' : ~c.cancelled}, b.provider, Day(b.from)) <= capacity'[b.provider]]_matchingVars

(* What a batch leaves behind: one booking for a matched request, as it    *)
(* was asked for, with nobody beyond the capacity of the day, by the       *)
(* engine or by the fallback.                                              *)
BatchesAreSound ==
  /\ [](MatchingTypeOK /\ MatchedOnce /\ BookingFitsRequest /\ FallbackIsSound)
  /\ CapacityUnlessRaced
=============================================================================
