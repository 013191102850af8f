---------------------------- MODULE ClientProofs ----------------------------
(* What the clients of other services and of the API keep to: the circuit  *)
(* breaker, the screens of a visit, and the upload of its evidence.        *)
EXTENDS CircuitBreaker, BookingScreens, Evidence, FiniteSetTheorems, TLAPS

(* THE CIRCUIT BREAKER                                                     *)
(*                                                                         *)
(* A circuit that has opened stays open for longer than any call lasts, so *)
(* that whoever called before it has gone when the time of the probe comes.*)
(* The probe is then alone.  While the circuit is closed, every call since *)
(* the last answer is either under way or among the failures.              *)
WindowOutlastsCalls == tripped => \A c \in Calling : left + call[c].age > Timeout
ProbeIsAlone == \A p \in Probing : tripped /\ Calling = {p}
SpentIsCounted == ~tripped => spent <= failures + Cardinality(Calling)

CircuitInv ==
  /\ BreakerTypeOK /\ DeadServiceIsSpared
  /\ WindowOutlastsCalls /\ ProbeIsAlone /\ SpentIsCounted

-----------------------------------------------------------------------------
(* The calls under way are finitely many, and one more or less is counted  *)
(* as one.                                                                 *)
LEMMA CallingIsFinite ==
  ASSUME BreakerTypeOK
  PROVE  /\ IsFiniteSet(Calling) /\ Cardinality(Calling) \in Nat
         /\ Cardinality(Callers) \in Nat /\ Cardinality(Calling) <= Cardinality(Callers)
BY BreakerAssumption, FS_Subset, FS_CardinalityType DEF Calling

(* With one call less under way, the count is one less.                    *)
LEMMA OneLess ==
  ASSUME BreakerTypeOK, NEW c \in Calling
  PROVE  Cardinality(Calling \ {c}) = Cardinality(Calling) - 1
BY CallingIsFinite, FS_RemoveElement

(* A caller that is not calling is idle.                                   *)
LEMMA NoCallIsCall == NoCall \in [pc : {"idle", "call", "probe"}, age : 0..Timeout]
BY BreakerAssumption DEF NoCall

(* A call that ends is no longer under way; the others go on.              *)
LEMMA EndOfCall ==
  ASSUME BreakerTypeOK, NEW c \in Callers, call' = [call EXCEPT ![c] = NoCall]
  PROVE  /\ Calling' = Calling \ {c} /\ Probing' = Probing \ {c}
         /\ \A d \in Calling' : call'[d] = call[d]
BY DEF BreakerTypeOK, Calling, Probing, NoCall

(* A probe finds nobody on the line.                                       *)
LEMMA ProbeTime ==
  ASSUME CircuitInv, tripped, left = 0
  PROVE  Calling = {}
BY BreakerAssumption DEF CircuitInv, BreakerTypeOK, WindowOutlastsCalls, Calling

(* A call is a probe only when nobody else is calling.                     *)
LEMMA AskKeepsInv ==
  ASSUME CircuitInv, NEW c \in Callers, asks(c)
  PROVE  CircuitInv'
<1> USE BreakerAssumption
<1>t. BreakerTypeOK
  BY DEF CircuitInv
<1>1. CASE tripped
  <2>1. Calling = {}
    BY <1>1, ProbeTime DEF asks
  <2>2. /\ call' = [call EXCEPT ![c] = [pc |-> "probe", age |-> 0]] /\ left' = OpenFor
        /\ UNCHANGED <<up, failures, tripped, spent>>
    BY <1>1 DEF asks
  <2>3. Calling' = {c} /\ Probing' \subseteq {c} /\ call'[c].age = 0
    BY <1>t, <2>1, <2>2 DEF Calling, Probing, BreakerTypeOK
  <2>4. BreakerTypeOK'
    BY <1>t, <2>2 DEF BreakerTypeOK
  <2>5. WindowOutlastsCalls'
    BY <2>2, <2>3 DEF WindowOutlastsCalls
  <2>6. ProbeIsAlone'
    BY <1>1, <2>2, <2>3 DEF ProbeIsAlone
  <2> QED BY <1>1, <2>2, <2>4, <2>5, <2>6 DEF CircuitInv, SpentIsCounted, DeadServiceIsSpared
<1>2. CASE ~tripped
  <2>1. /\ call' = [call EXCEPT ![c] = [pc |-> "call", age |-> 0]] /\ spent' = spent + 1
        /\ UNCHANGED <<up, failures, tripped, left>> /\ c \notin Calling
    BY <1>2 DEF asks, Calling
  <2>2. Calling' = Calling \cup {c} /\ Probing' = Probing
    BY <1>t, <2>1 DEF Calling, Probing, BreakerTypeOK
  <2>3. Probing = {}
    BY <1>2 DEF CircuitInv, ProbeIsAlone
  <2>4. BreakerTypeOK'
    BY <1>t, <2>1 DEF BreakerTypeOK
  <2>5. Cardinality(Calling') = Cardinality(Calling) + 1
    BY <1>t, <2>1, <2>2, CallingIsFinite, FS_AddElement
  <2>6. SpentIsCounted'
    BY <1>t, <1>2, <2>1, <2>5, CallingIsFinite DEF SpentIsCounted, CircuitInv, BreakerTypeOK
  <2>7. Cardinality(Calling') <= Cardinality(Callers)
    <3>1. Calling' \in SUBSET Callers
      BY DEF Calling
    <3> QED BY <3>1, FS_Subset
  <2>8. DeadServiceIsSpared'
    <3>1. spent' <= failures + Cardinality(Calling')
      BY <1>2, <2>1, <2>6 DEF SpentIsCounted
    <3> QED BY <1>t, <3>1, <2>5, <2>7, CallingIsFinite, <2>1 DEF DeadServiceIsSpared, BreakerTypeOK
  <2> QED BY <1>2, <2>1, <2>2, <2>3, <2>4, <2>6, <2>8
    DEF CircuitInv, WindowOutlastsCalls, ProbeIsAlone
<1> QED BY <1>1, <1>2

(* An answer closes the circuit; whoever is still calling is counted.      *)
LEMMA AnswerKeepsInv ==
  ASSUME CircuitInv, NEW c \in Callers, Answered(c)
  PROVE  CircuitInv'
<1> USE BreakerAssumption
<1>t. BreakerTypeOK /\ c \in Calling
  BY DEF CircuitInv, Answered, Calling
<1>1. /\ call' = [call EXCEPT ![c] = NoCall] /\ failures' = 0 /\ tripped' = FALSE /\ left' = 0
      /\ spent' = Cardinality(Calling \ {c}) /\ up' = up
  BY DEF Answered
<1>2. Calling' = Calling \ {c} /\ Probing' = Probing \ {c}
  BY <1>t, <1>1, EndOfCall
<1>3. Probing' = {}
  BY <1>t, <1>2 DEF CircuitInv, ProbeIsAlone, Probing, Calling
<1>4. Cardinality(Calling \ {c}) = Cardinality(Calling) - 1 /\ Cardinality(Calling) \in Nat
      /\ Cardinality(Callers) \in Nat /\ Cardinality(Calling) <= Cardinality(Callers)
  BY <1>t, OneLess, CallingIsFinite
<1>4a. Cardinality(Calling \ {c}) \in Nat
  <2>1. IsFiniteSet(Calling \ {c})
    BY <1>t, CallingIsFinite, FS_RemoveElement
  <2> QED BY <2>1, FS_CardinalityType
<1>5. BreakerTypeOK'
  <2>1. call' \in [Callers -> [pc : {"idle", "call", "probe"}, age : 0..Timeout]]
    BY <1>t, <1>1, NoCallIsCall DEF BreakerTypeOK
  <2>2. up' \in BOOLEAN /\ tripped' \in BOOLEAN
    BY <1>t, <1>1, Zenon DEF BreakerTypeOK
  <2>3. failures' \in 0..(Threshold - 1) /\ left' \in 0..OpenFor /\ spent' \in Nat
    BY <1>1, <1>4a
  <2> QED BY <2>1, <2>2, <2>3 DEF BreakerTypeOK
<1> QED BY <1>1, <1>2, <1>3, <1>4, <1>4a, <1>5
    DEF CircuitInv, WindowOutlastsCalls, ProbeIsAlone, SpentIsCounted, DeadServiceIsSpared

(* A failure is counted, and may open the circuit for longer than the      *)
(* calls that are under way can last.                                      *)
LEMMA FailureKeepsInv ==
  ASSUME CircuitInv, NEW c \in Callers, Failed(c)
  PROVE  CircuitInv'
<1> USE BreakerAssumption
<1>t. BreakerTypeOK /\ c \in Calling /\ call[c] \in [pc : {"idle", "call", "probe"}, age : 0..Timeout]
  BY DEF CircuitInv, Failed, Calling, BreakerTypeOK
<1>1. call' = [call EXCEPT ![c] = NoCall] /\ UNCHANGED <<up, spent>>
  BY DEF Failed
<1>2. /\ Calling' = Calling \ {c} /\ Probing' = Probing \ {c}
      /\ \A d \in Calling' : call'[d] = call[d]
  BY <1>t, <1>1, EndOfCall
<1>3. Cardinality(Calling') = Cardinality(Calling) - 1 /\ Cardinality(Calling) \in Nat
  BY <1>t, <1>2, OneLess, CallingIsFinite
<1>4. DeadServiceIsSpared'
  BY <1>1 DEF CircuitInv, DeadServiceIsSpared
<1>5. CASE call[c].pc = "call" /\ Trips(failures + 1)
  <2>1. tripped' = TRUE /\ left' = OpenFor - call[c].age /\ failures' = 0
    BY <1>5 DEF Failed
  <2>2. BreakerTypeOK'
    BY <1>t, <1>1, <2>1 DEF BreakerTypeOK, NoCall
  <2>3. Probing = {}
    BY <1>t, <1>5 DEF CircuitInv, ProbeIsAlone, Probing, Calling
  <2>4. \A d \in Calling' : call[d].age \in 0..Timeout
    BY <1>t, <1>2 DEF BreakerTypeOK, Calling
  <2>5. WindowOutlastsCalls'
    BY <1>t, <1>2, <2>1, <2>4 DEF WindowOutlastsCalls
  <2> QED BY <1>2, <1>4, <2>1, <2>2, <2>3, <2>5 DEF CircuitInv, ProbeIsAlone, SpentIsCounted
<1>6. CASE ~(call[c].pc = "call" /\ Trips(failures + 1))
  <2>1. /\ failures' = IF call[c].pc = "call" THEN failures + 1 ELSE failures
        /\ UNCHANGED <<tripped, left>>
    BY <1>6 DEF Failed
  <2>2. failures' \in 0..(Threshold - 1)
    BY <1>t, <1>6, <2>1 DEF Trips, BreakerTypeOK
  <2>3. BreakerTypeOK'
    BY <1>t, <1>1, <2>1, <2>2 DEF BreakerTypeOK, NoCall
  <2>4. WindowOutlastsCalls'
    BY <1>2, <2>1 DEF CircuitInv, WindowOutlastsCalls
  <2>5. ProbeIsAlone'
    BY <1>t, <1>2, <2>1 DEF CircuitInv, ProbeIsAlone
  <2>6. ~tripped => call[c].pc = "call"
    BY <1>t DEF CircuitInv, ProbeIsAlone, Probing, Calling
  <2>7. SpentIsCounted'
    BY <1>t, <1>1, <1>3, <2>1, <2>6 DEF CircuitInv, SpentIsCounted, BreakerTypeOK
  <2> QED BY <1>4, <2>3, <2>4, <2>5, <2>7 DEF CircuitInv
<1> QED BY <1>5, <1>6

(* Time passes for the window and for the calls alike.                     *)
LEMMA TickKeepsInv ==
  ASSUME CircuitInv, BreakerTick
  PROVE  CircuitInv'
<1> USE BreakerAssumption
<1>t. BreakerTypeOK
  BY DEF CircuitInv
<1>1. /\ call' = [c \in Callers |-> IF c \in Calling THEN [call[c] EXCEPT !.age = @ + 1] ELSE NoCall]
      /\ left' = (IF left = 0 THEN 0 ELSE left - 1)
      /\ UNCHANGED <<up, failures, tripped, spent>>
      /\ \A c \in Calling : call[c].age < Timeout
  BY DEF BreakerTick
<1>2. \A c \in Callers : call[c] \in [pc : {"idle", "call", "probe"}, age : 0..Timeout]
  BY <1>t DEF BreakerTypeOK
<1>3. /\ \A c \in Calling : c \in Callers /\ call'[c].pc = call[c].pc /\ call'[c].age = call[c].age + 1
      /\ \A c \in Callers \ Calling : call'[c] = NoCall /\ call[c].pc = "idle"
  BY <1>1, <1>2 DEF Calling
<1>4. Calling' = Calling /\ Probing' = Probing
  BY <1>2, <1>3 DEF Calling, Probing, NoCall
<1>5. BreakerTypeOK'
  <2>1. \A c \in Callers : call'[c] \in [pc : {"idle", "call", "probe"}, age : 0..Timeout]
    BY <1>1, <1>2 DEF NoCall, Calling
  <2> QED BY <1>t, <1>1, <2>1 DEF BreakerTypeOK
<1>6. WindowOutlastsCalls'
  <2>1. tripped /\ left = 0 => Calling = {}
    BY ProbeTime
  <2>2. SUFFICES ASSUME tripped, NEW c \in Calling PROVE left' + call'[c].age > Timeout
    BY <1>1, <1>4 DEF WindowOutlastsCalls
  <2>3. left # 0 /\ left + call[c].age > Timeout
    BY <2>1, <2>2 DEF CircuitInv, WindowOutlastsCalls
  <2> QED BY <1>t, <1>1, <1>2, <1>3, <2>2, <2>3 DEF BreakerTypeOK, Calling
<1> QED BY <1>1, <1>4, <1>5, <1>6
    DEF CircuitInv, ProbeIsAlone, SpentIsCounted, DeadServiceIsSpared

(* The circuit breaker of the clients of the AI service lets one call at a *)
(* time try a service that is down, and spends no more calls on it than the*)
(* threshold and the calls under way allow.                                *)
THEOREM CircuitSpares == BreakerSpec => []BreakerInv
<1> USE BreakerAssumption
<1>1. BreakerInit => CircuitInv
  <2> SUFFICES ASSUME BreakerInit PROVE CircuitInv
    OBVIOUS
  <2>1. BreakerTypeOK
    <3>1. up \in BOOLEAN /\ tripped \in BOOLEAN
      BY Zenon DEF BreakerInit
    <3>2. failures \in 0..(Threshold - 1) /\ left \in 0..OpenFor /\ spent \in Nat
      BY DEF BreakerInit
    <3> QED BY <3>1, <3>2, NoCallIsCall DEF BreakerInit, BreakerTypeOK
  <2>3. Calling = {} /\ Probing = {}
    BY DEF BreakerInit, NoCall, Calling, Probing
  <2>2. Cardinality(Callers) \in Nat /\ Cardinality({}) = 0
    BY FS_CardinalityType, FS_EmptySet
  <2> QED BY <2>1, <2>2, <2>3 DEF BreakerInit, CircuitInv, WindowOutlastsCalls, ProbeIsAlone, SpentIsCounted,
                            DeadServiceIsSpared
<1>2. CircuitInv /\ [BreakerNext]_breakerVars => CircuitInv'
  <2> SUFFICES ASSUME CircuitInv, [BreakerNext]_breakerVars PROVE CircuitInv'
    OBVIOUS
  <2>1. ASSUME NEW c \in Callers, asks(c) \/ Answered(c) \/ Failed(c) PROVE CircuitInv'
    BY <2>1, AskKeepsInv, AnswerKeepsInv, FailureKeepsInv
  <2>2. CASE ServiceChanges \/ UNCHANGED breakerVars
    <3>1. up' \in BOOLEAN /\ UNCHANGED <<failures, tripped, left, call, spent>>
      BY <2>2 DEF ServiceChanges, breakerVars, CircuitInv, BreakerTypeOK
    <3> QED BY <3>1 DEF CircuitInv, BreakerTypeOK, DeadServiceIsSpared, WindowOutlastsCalls,
                        ProbeIsAlone, SpentIsCounted, Calling, Probing
  <2>3. CASE BreakerTick
    BY <2>3, TickKeepsInv
  <2> QED BY <2>1, <2>2, <2>3 DEF BreakerNext
<1>3. CircuitInv => BreakerInv
  <2> SUFFICES ASSUME CircuitInv PROVE OneProbe
    BY DEF CircuitInv, BreakerInv
  <2>1. CASE Probing = {}
    BY <2>1, FS_EmptySet DEF OneProbe
  <2>2. ASSUME NEW p \in Probing PROVE OneProbe
    <3>1. Probing = {p}
      BY <2>2 DEF CircuitInv, ProbeIsAlone, Calling, Probing
    <3>2. Cardinality({p}) = 1
      BY FS_Singleton
    <3> QED BY <3>1, <3>2 DEF OneProbe
  <2> QED BY <2>1, <2>2
<1> QED BY <1>1, <1>2, <1>3, PTL DEF BreakerSpec
-----------------------------------------------------------------------------
(* THE SCREENS OF A VISIT                                                  *)
(*                                                                         *)
(* A key asks for what it was made for, and has had its effect once it is  *)
(* on record, never before.  Only the card of the disputes asks for one.   *)
KeyActsOnce(c, k) ==
  k # NoKey =>
    /\ k \in Key /\ k.asks \in {k.to, "none"}
    /\ c # "dispute" => k.to # "DISPUTED"
    /\ k.acts <= 1 /\ (k.acts > 0 => k.done)

(* A request that was given up and carries the key of its card is the one  *)
(* that the key stands for, and the server knows nothing of the key yet.   *)
Cards == CardsOf("CUSTOMER") \cup CardsOf("PROVIDER")

LateKnowsKey(l) ==
  /\ l \in [user : Parties, card : Cards, to : Targets, live : BOOLEAN]
  /\ l.card \in CardsOf(l.user)
  /\ l.card # "dispute" => l.to # "DISPUTED"
  /\ l.live => /\ key[l.user][l.card] # NoKey
               /\ key[l.user][l.card].to = l.to /\ ~key[l.user][l.card].done

(* The keys of the cards, as far as EXCEPT needs their shape.              *)
KeysShaped ==
  /\ key = [u \in Parties |-> key[u]]
  /\ \A u \in Parties : key[u] = [c \in CardsOf(u) |-> key[u][c]]

VisitOK ==
  /\ visit \in BOOKING_STATUSES /\ disputed \in BOOLEAN /\ reviewed \in BOOLEAN
  /\ view \in [Parties -> BOOKING_STATUSES]

TurnsInv ==
  /\ VisitOK /\ KeysShaped
  /\ \A u \in Parties : \A c \in CardsOf(u) : KeyActsOnce(c, key[u][c])
  /\ \A l \in late : LateKnowsKey(l)
-----------------------------------------------------------------------------
(* Whatever a screen that is up to date offers is accepted: the tables of  *)
(* the screens and of the API agree in every status.                       *)
LEMMA TablesAgree ==
  ASSUME visit \in BOOKING_STATUSES, disputed \in BOOLEAN, reviewed \in BOOLEAN
  PROVE  FreshOfferIsAccepted
<1>1. visit \in ADDRESS_VISIBLE <=> visit \in PROVIDER_ADDRESS_STATUSES
  BY DEF ADDRESS_VISIBLE, PROVIDER_ADDRESS_STATUSES
<1>2. ASSUME NEW u \in Parties, NEW o \in Offers(u, visit, disputed)
      PROVE  Outcomes(u, o[1], o[2]) # {} \/ (o[1] = "review" /\ reviewed)
  <2>1. CASE o = <<"dispute", "DISPUTED">> /\ visit \in DISPUTABLE /\ ~disputed
    BY <2>1, <1>2 DEF Outcomes, open, DISPUTABLE, DISPUTABLE_STATUSES, TransitionAllowed, Parties
  <2>2. CASE u = "CUSTOMER" /\ o \in customerActions(visit)
    <3>1. CASE o = <<"pay", "SCHEDULED">> /\ visit = "CONFIRMED"
      BY <3>1 DEF Outcomes, authorizeForBooking
    <3>2. CASE o = <<"cancel", "CANCELLED">> /\ visit \in BeforeService
      BY <3>2, <2>2 DEF Outcomes, transition, TransitionAllowed, BeforeService
    <3>3. CASE o = <<"confirm", "CUSTOMER_CONFIRMED">> /\ visit = "CHECKED_OUT"
      BY <3>3, <2>2 DEF Outcomes, transition, TransitionAllowed
    <3>4. CASE o = <<"review", "REVIEW">> /\ visit \in {"COMPLETED", "SETTLED"}
      BY <3>4 DEF Outcomes, create
    <3> QED BY <2>2, <3>1, <3>2, <3>3, <3>4 DEF customerActions
  <2>3. CASE u = "PROVIDER" /\ o \in providerActions(visit)
    <3>1. CASE o = <<"accept", "CONFIRMED">> /\ visit = "PROVIDER_PENDING"
      BY <3>1, <2>3 DEF Outcomes, transition, TransitionAllowed
    <3>2. CASE o = <<"decline", "CANCELLED">> /\ visit = "PROVIDER_PENDING"
      BY <3>2, <2>3 DEF Outcomes, transition, TransitionAllowed, BeforeService
    <3>3. CASE o = <<"next", NEXT_STEP[visit]>> /\ visit \in DOMAIN NEXT_STEP
      <4>1. TransitionAllowed(visit, NEXT_STEP[visit], "PROVIDER")
        BY <3>3 DEF TransitionAllowed, NEXT_STEP
      <4> QED BY <4>1, <3>3, <2>3 DEF Outcomes, transition
    <3>4. CASE o = <<"cancel", "CANCELLED">> /\ visit \in CANCELLABLE_BY_PARTY
      BY <3>4, <2>3 DEF Outcomes, transition, TransitionAllowed, BeforeService, CANCELLABLE_BY_PARTY
    <3> QED BY <2>3, <3>1, <3>2, <3>3, <3>4 DEF providerActions
  <2> QED BY <1>2, <2>1, <2>2, <2>3 DEF Offers, Parties
<1> QED BY <1>1, <1>2 DEF FreshOfferIsAccepted

(* Whatever a command of a party does to the visit, a screen that is up to *)
(* date offers to one of them.                                             *)
InTurn(v) ==
  \E u \in Parties : \E o \in Offers(u, visit, disputed) :
    v = IF o[2] = "CUSTOMER_CONFIRMED" THEN "COMPLETED" ELSE o[2]

(* An offer that is made is in turn.                                       *)
LEMMA OfferedInTurn ==
  ASSUME NEW u \in Parties, NEW c, NEW to, <<c, to>> \in Offers(u, visit, disputed)
  PROVE  InTurn(IF to = "CUSTOMER_CONFIRMED" THEN "COMPLETED" ELSE to)
<1>1. <<c, to>>[2] = to
  OBVIOUS
<1> QED BY <1>1, Zenon DEF InTurn

(* The transitions that a party may make are offered to one of the         *)
(* parties.                                                                *)
LEMMA TransitionInTurn ==
  ASSUME visit \in BOOKING_STATUSES, NEW u \in Parties, NEW to, to # "DISPUTED",
         NEW now \in transition(u, to), now[1] # visit
  PROVE  InTurn(now[1])
<1>1. /\ TransitionAllowed(visit, to, u)
      /\ now[1] = IF to = "CUSTOMER_CONFIRMED" THEN "COMPLETED" ELSE to
  BY DEF transition, Now
<1>2. "CUSTOMER" \in Parties /\ "PROVIDER" \in Parties
  BY DEF Parties
<1>3. CASE to = "CANCELLED" /\ visit \in BeforeService
  <2>1. <<"cancel", "CANCELLED">> \in Offers("CUSTOMER", visit, disputed)
    BY <1>3 DEF Offers, customerActions
  <2> QED BY <1>1, <1>2, <1>3, <2>1, OfferedInTurn
<1>4. CASE to = "CUSTOMER_CONFIRMED" /\ visit = "CHECKED_OUT"
  <2>1. <<"confirm", "CUSTOMER_CONFIRMED">> \in Offers("CUSTOMER", visit, disputed)
    BY <1>4 DEF Offers, customerActions
  <2> QED BY <1>1, <1>2, <1>4, <2>1, OfferedInTurn
<1>5. CASE to = "CONFIRMED" /\ visit = "PROVIDER_PENDING"
  <2>1. <<"accept", "CONFIRMED">> \in Offers("PROVIDER", visit, disputed)
    BY <1>5 DEF Offers, providerActions
  <2> QED BY <1>1, <1>2, <1>5, <2>1, OfferedInTurn
<1>6. CASE visit \in DOMAIN NEXT_STEP /\ to = NEXT_STEP[visit]
  <2>1. <<"next", to>> \in Offers("PROVIDER", visit, disputed)
    BY <1>6 DEF Offers, providerActions
  <2> QED BY <1>1, <1>2, <1>6, <2>1, OfferedInTurn
<1>7. \/ to = "CANCELLED" /\ visit \in BeforeService
      \/ to = "CUSTOMER_CONFIRMED" /\ visit = "CHECKED_OUT"
      \/ to = "CONFIRMED" /\ visit = "PROVIDER_PENDING"
      \/ visit \in DOMAIN NEXT_STEP /\ to = NEXT_STEP[visit]
  BY <1>1 DEF TransitionAllowed, Parties, NEXT_STEP
<1> QED BY <1>3, <1>4, <1>5, <1>6, <1>7

(* Every effect of a command is a status of a visit, and in turn.          *)
LEMMA OutcomesInTurn ==
  ASSUME VisitOK, NEW u \in Parties, NEW c \in CardsOf(u), NEW to \in Targets,
         c # "dispute" => to # "DISPUTED",
         NEW now \in Outcomes(u, c, to)
  PROVE  /\ now \in BOOKING_STATUSES \X BOOLEAN \X BOOLEAN
         /\ now[1] # visit => InTurn(now[1])
<1>1. "CUSTOMER" \in Parties
  BY DEF Parties
<1>2. CASE c = "pay"
  <2>1. visit = "CONFIRMED" /\ now = <<"SCHEDULED", disputed, reviewed>>
    BY <1>2 DEF Outcomes, authorizeForBooking
  <2>2. <<"pay", "SCHEDULED">> \in Offers("CUSTOMER", visit, disputed)
    BY <2>1 DEF Offers, customerActions
  <2>3. InTurn("SCHEDULED")
    BY <1>1, <2>2, OfferedInTurn
  <2> QED BY <2>1, <2>3 DEF VisitOK, BOOKING_STATUSES
<1>3. CASE c = "review"
  <2>1. now = <<visit, disputed, TRUE>>
    BY <1>3 DEF Outcomes, create
  <2> QED BY <2>1 DEF VisitOK
<1>4. CASE c = "dispute"
  <2>1. now \in open(u)
    BY <1>4 DEF Outcomes
  <2>2. CASE now = <<visit, TRUE, reviewed>>
    BY <2>2 DEF VisitOK
  <2>3. CASE now = <<"DISPUTED", TRUE, reviewed>> /\ ~disputed /\ TransitionAllowed(visit, "DISPUTED", u)
    <3>1. visit \in DISPUTABLE
      BY <2>3 DEF TransitionAllowed, DISPUTABLE, Parties
    <3>2. <<"dispute", "DISPUTED">> \in Offers(u, visit, disputed)
      BY <2>3, <3>1 DEF Offers
    <3>3. InTurn("DISPUTED")
      BY <3>2, OfferedInTurn
    <3> QED BY <2>3, <3>3 DEF VisitOK, BOOKING_STATUSES
  <2> QED BY <2>1, <2>2, <2>3 DEF open
<1>5. CASE c \notin {"pay", "review", "dispute"}
  <2>1. now \in transition(u, to) /\ to # "DISPUTED"
    BY <1>5 DEF Outcomes
  <2>2. now[1] # visit => InTurn(now[1])
    BY <2>1, TransitionInTurn DEF VisitOK
  <2>3. now \in BOOKING_STATUSES \X BOOLEAN \X BOOLEAN
    <3>1. CASE now = Now
      BY <3>1 DEF Now, VisitOK
    <3>2. CASE /\ TransitionAllowed(visit, to, u)
               /\ now = <<IF to = "CUSTOMER_CONFIRMED" THEN "COMPLETED" ELSE to, disputed, reviewed>>
      <4>1. to # "REVIEW"
        BY <3>2 DEF TransitionAllowed
      <4>2. to \in BOOKING_STATUSES
        BY <4>1 DEF Targets
      <4> QED BY <3>2, <4>2 DEF VisitOK, BOOKING_STATUSES
    <3> QED BY <2>1, <3>1, <3>2 DEF transition
  <2> QED BY <2>2, <2>3
<1> QED BY <1>2, <1>3, <1>4, <1>5
-----------------------------------------------------------------------------
(* What a screen offers is a command of one of its cards.                  *)
LEMMA OfferIsCommand ==
  ASSUME NEW u \in Parties, NEW v \in BOOKING_STATUSES, NEW b \in BOOLEAN, NEW o \in Offers(u, v, b)
  PROVE  o[1] \in CardsOf(u) /\ o[2] \in Targets /\ (o[1] # "dispute" => o[2] # "DISPUTED")
<1>1. CASE o = <<"dispute", "DISPUTED">>
  BY <1>1 DEF CardsOf, Targets, BOOKING_STATUSES
<1>2. CASE u = "CUSTOMER" /\ o \in customerActions(v)
  BY <1>2 DEF customerActions, CardsOf, Targets, BOOKING_STATUSES
<1>3. CASE u = "PROVIDER" /\ o \in providerActions(v)
  BY <1>3 DEF providerActions, CardsOf, Targets, BOOKING_STATUSES, NEXT_STEP
<1> QED BY <1>1, <1>2, <1>3 DEF Offers, Parties

(* A press keeps the key of the same command and takes a new one for       *)
(* another.                                                                *)
LEMMA CurrentKey ==
  ASSUME NEW c, NEW k, KeyActsOnce(c, k), NEW to \in Targets, c # "dispute" => to # "DISPUTED"
  PROVE  /\ KeyActsOnce(c, current(k, to)) /\ current(k, to) # NoKey
         /\ current(k, to).asks = to
         /\ k # NoKey /\ current(k, to).to = k.to => current(k, to).done = k.done
<1>1. CASE k # NoKey /\ k.to = to
  <2>1. k \in Key /\ current(k, to) = [k EXCEPT !.asks = to]
    BY <1>1 DEF current, KeyActsOnce
  <2>2. current(k, to) \in Key
    BY <2>1 DEF Key
  <2> QED BY <1>1, <2>1, <2>2, ScreensAssumption DEF KeyActsOnce, Key
<1>2. CASE ~(k # NoKey /\ k.to = to)
  <2>1. current(k, to) = [to |-> to, asks |-> to, done |-> FALSE, acts |-> 0]
    BY <1>2 DEF current
  <2>2. current(k, to) \in Key
    BY <2>1 DEF Key
  <2>3. current(k, to).to = to /\ current(k, to).asks = to /\ current(k, to).acts = 0
    BY <2>1
  <2>4. KeyActsOnce(c, current(k, to))
    BY <2>2, <2>3 DEF KeyActsOnce
  <2> QED BY <1>2, <2>2, <2>3, <2>4, ScreensAssumption
<1> QED BY <1>1, <1>2

(* A card that keeps its key keeps it as it is; the others forget it.      *)
LEMMA KeptKey ==
  ASSUME NEW u, NEW c, NEW k, NEW v
  PROVE  Kept(u, c, k, v) \in {k, NoKey}
BY DEF Kept

(* One card changes its key.                                               *)
Changes(u, c, x) == key' = [key EXCEPT ![u][c] = x]

(* Only the card whose key changes has another key.                        *)
LEMMA OneCard ==
  ASSUME TurnsInv, NEW u \in Parties, NEW c \in CardsOf(u), NEW x, KeyActsOnce(c, x),
         Changes(u, c, x)
  PROVE  /\ KeysShaped' /\ key'[u][c] = x
         /\ \A v \in Parties : \A d \in CardsOf(v) :
              /\ KeyActsOnce(d, key'[v][d])
              /\ (v # u \/ d # c) => key'[v][d] = key[v][d]
<1>1. KeysShaped /\ key' = [key EXCEPT ![u][c] = x]
  BY DEF TurnsInv, Changes
<1>2. /\ key' = [v \in Parties |-> key'[v]]
      /\ key'[u] = [key[u] EXCEPT ![c] = x]
      /\ \A v \in Parties : v # u => key'[v] = key[v]
  BY <1>1 DEF KeysShaped
<1>3. /\ key'[u] = [d \in CardsOf(u) |-> key'[u][d]] /\ key'[u][c] = x
      /\ \A d \in CardsOf(u) : d # c => key'[u][d] = key[u][d]
  BY <1>1, <1>2 DEF KeysShaped
<1>4. KeysShaped'
  BY <1>1, <1>2, <1>3 DEF KeysShaped
<1>5. ASSUME NEW v \in Parties, NEW d \in CardsOf(v)
      PROVE  KeyActsOnce(d, key'[v][d]) /\ ((v # u \/ d # c) => key'[v][d] = key[v][d])
  BY <1>2, <1>3 DEF TurnsInv
<1> QED BY <1>3, <1>4, <1>5

(* Requests under way follow the keys of their cards.                      *)
LEMMA AdriftFollows ==
  ASSUME TurnsInv, late' = Adrift(key'),
         \A u \in Parties : \A c \in CardsOf(u) :
           key'[u][c] # NoKey /\ key[u][c] # NoKey /\ key'[u][c].to = key[u][c].to /\ ~key[u][c].done
             => ~key'[u][c].done
  PROVE  \A l \in late' : LateKnowsKey(l)'
<1> SUFFICES ASSUME NEW l \in late,
                    NEW m, m = [l EXCEPT !.live = l.live /\ key'[l.user][l.card] # NoKey
                                                  /\ key'[l.user][l.card].to = l.to]
             PROVE  LateKnowsKey(m)'
  BY DEF Adrift
<1>1. LateKnowsKey(l) /\ l.user \in Parties /\ l.card \in CardsOf(l.user)
  BY DEF TurnsInv, LateKnowsKey
<1>2. /\ m.user = l.user /\ m.card = l.card /\ m.to = l.to
      /\ m.live = (l.live /\ key'[l.user][l.card] # NoKey /\ key'[l.user][l.card].to = l.to)
      /\ m \in [user : Parties, card : Cards, to : Targets, live : BOOLEAN]
  BY <1>1 DEF LateKnowsKey
<1> QED BY <1>1, <1>2 DEF LateKnowsKey

-----------------------------------------------------------------------------
(* A press changes the key of its card, and what is still under way with   *)
(* the old key is on its own.                                              *)
LEMMA PressKeepsInv ==
  ASSUME TurnsInv, NEW u \in Parties, NEW c \in CardsOf(u), Presses(u, c)
  PROVE  TurnsInv'
<1>1. PICK o \in Offers(u, view[u], disputed) :
        o[1] = c /\ key' = [key EXCEPT ![u][c] = current(@, o[2])]
  BY DEF Presses
<1>2. UNCHANGED <<visit, disputed, reviewed, view>> /\ late' = Adrift(key')
  BY DEF Presses
<1>3. o[2] \in Targets /\ (c # "dispute" => o[2] # "DISPUTED")
  BY <1>1, OfferIsCommand DEF TurnsInv, VisitOK
<1>4. PICK k, x : k = key[u][c] /\ x = current(k, o[2])
  OBVIOUS
<1>5. KeyActsOnce(c, x) /\ (k # NoKey /\ x.to = k.to => x.done = k.done)
  BY <1>3, <1>4, CurrentKey DEF TurnsInv
<1>6. Changes(u, c, x)
  BY <1>1, <1>4 DEF TurnsInv, KeysShaped, Changes
<1>7. /\ KeysShaped' /\ key'[u][c] = x
      /\ \A v \in Parties : \A d \in CardsOf(v) :
           KeyActsOnce(d, key'[v][d]) /\ ((v # u \/ d # c) => key'[v][d] = key[v][d])
  BY <1>5, <1>6, OneCard
<1>8. \A l \in late' : LateKnowsKey(l)'
  <2>1. ASSUME NEW v \in Parties, NEW d \in CardsOf(v), key[v][d] # NoKey, key'[v][d].to = key[v][d].to,
               ~key[v][d].done
        PROVE  ~key'[v][d].done
    BY <1>4, <1>5, <1>7, <2>1
  <2> QED BY <1>2, <2>1, AdriftFollows
<1> QED BY <1>2, <1>7, <1>8 DEF TurnsInv, VisitOK

(* A refresh drops keys, and changes none.                                 *)
LEMMA RefreshKeepsInv ==
  ASSUME TurnsInv, NEW u \in Parties, Refreshes(u)
  PROVE  TurnsInv'
<1>1. /\ view' = [view EXCEPT ![u] = visit] /\ late' = Adrift(key')
      /\ UNCHANGED <<visit, disputed, reviewed>>
      /\ key' = [key EXCEPT ![u] = [c \in CardsOf(u) |->
                    IF Waiting(key[u][c]) THEN key[u][c] ELSE Kept(u, c, key[u][c], visit)]]
  BY DEF Refreshes
<1>2. KeysShaped'
  BY <1>1 DEF TurnsInv, KeysShaped
<1>3. ASSUME NEW v \in Parties, NEW c \in CardsOf(v)
      PROVE  key'[v][c] \in {key[v][c], NoKey} /\ KeyActsOnce(c, key'[v][c])
  <2>1. key'[v][c] \in {key[v][c], NoKey}
    BY <1>1, KeptKey DEF TurnsInv, KeysShaped
  <2> QED BY <2>1 DEF TurnsInv, KeyActsOnce
<1>4. \A l \in late' : LateKnowsKey(l)'
  BY <1>1, <1>3, AdriftFollows
<1> QED BY <1>1, <1>2, <1>3, <1>4 DEF TurnsInv, VisitOK

(* A key that has been served, or that is kept after an error.             *)
LEMMA ServedKey ==
  ASSUME NEW u, NEW c, NEW k, KeyActsOnce(c, k), k # NoKey, NEW d \in BOOLEAN, NEW a \in {0, 1},
         a > 0 \/ k.done => d, a > 0 => ~k.done
  PROVE  /\ KeyActsOnce(c, KeyAfterError(u, c, k, d, a))
         /\ KeyAfterError(u, c, k, d, a) # NoKey =>
              /\ KeyAfterError(u, c, k, d, a).to = k.to
              /\ KeyAfterError(u, c, k, d, a).done = d
              /\ KeyAfterError(u, c, k, d, a).asks = "none"
<1> DEFINE x == [k EXCEPT !.asks = "none", !.done = d, !.acts = @ + a]
<1>1. KeyAfterError(u, c, k, d, a) \in {x, NoKey}
  BY KeptKey DEF KeyAfterError
<1>2. k \in Key /\ k.acts \in {0, 1} /\ (k.acts = 1 => k.done)
  BY DEF KeyActsOnce, Key
<1>3. /\ x \in Key /\ x.to = k.to /\ x.done = d /\ x.asks = "none"
      /\ x.acts <= 1 /\ (x.acts > 0 => d)
  <2>1. x.to = k.to /\ x.done = d /\ x.asks = "none" /\ x.acts = k.acts + a
    BY <1>2 DEF Key
  <2>2. k.acts + a \in {0, 1} /\ (k.acts + a > 0 => d)
    BY <1>2
  <2>3. x \in Key
    <3>0. \A y \in Key, n \in 0..2 : [y EXCEPT !.asks = "none", !.acts = n] \in Key
      BY DEF Key
    <3>0a. k.acts + a \in 0..2
      BY <2>2
    <3>1. [k EXCEPT !.asks = "none", !.acts = k.acts + a] \in Key
      BY <1>2, <3>0, <3>0a, Zenon
    <3>2. \A y \in Key : [y EXCEPT !.done = TRUE] \in Key /\ [y EXCEPT !.done = FALSE] \in Key
      BY DEF Key
    <3>3. x = [[k EXCEPT !.asks = "none", !.acts = k.acts + a] EXCEPT !.done = d]
      BY <1>2 DEF Key
    <3>4. d = TRUE \/ d = FALSE
      OBVIOUS
    <3> QED BY <3>1, <3>2, <3>3, <3>4, Zenon
  <2> QED BY <2>1, <2>2, <2>3
<1>4. KeyActsOnce(c, x) /\ KeyActsOnce(c, NoKey)
  BY <1>3 DEF KeyActsOnce
<1> QED BY <1>1, <1>3, <1>4

(* A request that the server refuses has no effect.                        *)
LEMMA RefusalKeepsInv ==
  ASSUME TurnsInv, NEW u \in Parties, NEW c \in CardsOf(u), Waiting(key[u][c]),
         key' = [key EXCEPT ![u][c] = KeyAfterError(u, c, key[u][c], key[u][c].done, 0)],
         late' = Adrift(key'), UNCHANGED <<visit, disputed, reviewed, view>>
  PROVE  TurnsInv'
<1>0. PICK k, x : k = key[u][c] /\ x = KeyAfterError(u, c, k, k.done, 0)
  OBVIOUS
<1>1. KeyActsOnce(c, k) /\ k # NoKey /\ k.done \in BOOLEAN
  BY <1>0 DEF TurnsInv, Waiting, KeyActsOnce, Key
<1>2. KeyActsOnce(c, x) /\ (x # NoKey => x.done = k.done)
  BY <1>0, <1>1, ServedKey
<1>2a. Changes(u, c, x)
  BY <1>0 DEF Changes
<1>3. /\ KeysShaped' /\ key'[u][c] = x
      /\ \A v \in Parties : \A d \in CardsOf(v) :
           KeyActsOnce(d, key'[v][d]) /\ ((v # u \/ d # c) => key'[v][d] = key[v][d])
  BY <1>2, <1>2a, OneCard
<1>4. \A l \in late' : LateKnowsKey(l)'
  <2>1. ASSUME NEW v \in Parties, NEW d \in CardsOf(v), key'[v][d] # NoKey, ~key[v][d].done
        PROVE  ~key'[v][d].done
    BY <1>0, <1>2, <1>3, <2>1
  <2> QED BY <2>1, AdriftFollows
<1> QED BY <1>3, <1>4 DEF TurnsInv, VisitOK

(* A command that had its effect before has none.                          *)
LEMMA EffectIsOnce ==
  ASSUME TurnsInv, NEW u \in Parties, NEW c \in CardsOf(u), Waiting(key[u][c]),
         NEW now \in Results(u, c, key[u][c])
  PROVE  /\ key[u][c].done => now = Now
         /\ Effect(now) \in {0, 1} /\ (Effect(now) > 0 => ~key[u][c].done)
         /\ now \in BOOKING_STATUSES \X BOOLEAN \X BOOLEAN
         /\ now[1] # visit => InTurn(now[1])
<1>1. /\ VisitOK /\ key[u][c] \in Key /\ key[u][c].asks = key[u][c].to /\ key[u][c].to \in Targets
      /\ c # "dispute" => key[u][c].to # "DISPUTED"
  BY DEF TurnsInv, KeyActsOnce, Waiting, Key
<1>2. CASE key[u][c].done
  <2>1. now = Now
    BY <1>2 DEF Results
  <2> QED BY <1>1, <1>2, <2>1 DEF Effect, Now, VisitOK
<1>3. CASE ~key[u][c].done
  <2>1. now \in Outcomes(u, c, key[u][c].to)
    BY <1>1, <1>3 DEF Results
  <2>2. PICK to \in Targets : to = key[u][c].to
    BY <1>1
  <2>3. now \in BOOKING_STATUSES \X BOOLEAN \X BOOLEAN /\ (now[1] # visit => InTurn(now[1]))
    BY <1>1, <2>1, <2>2, OutcomesInTurn
  <2> QED BY <1>3, <2>3 DEF Effect
<1> QED BY <1>2, <1>3

(* The visit after a command is a visit.                                   *)
LEMMA VisitSettles ==
  ASSUME VisitOK, NEW now \in BOOKING_STATUSES \X BOOLEAN \X BOOLEAN, Settles(now),
         view' \in [Parties -> BOOKING_STATUSES]
  PROVE  VisitOK'
BY DEF VisitOK, Settles

(* The other requests with a key that is known now lose it.                *)
LEMMA KnownKeyIsDropped ==
  ASSUME TurnsInv, NEW u \in Parties, NEW c \in CardsOf(u),
         late' = {l \in late : ~(l.live /\ l.user = u /\ l.card = c)},
         \A v \in Parties : \A d \in CardsOf(v) : (v # u \/ d # c) => key'[v][d] = key[v][d]
  PROVE  \A l \in late' : LateKnowsKey(l)'
<1> SUFFICES ASSUME NEW l \in late, ~(l.live /\ l.user = u /\ l.card = c) PROVE LateKnowsKey(l)'
  OBVIOUS
<1>1. LateKnowsKey(l)
  BY DEF TurnsInv
<1> QED BY <1>1 DEF LateKnowsKey

(* An answer, or the loss of one, leaves a key that has acted on record.   *)
LEMMA ServeKeepsInv ==
  ASSUME TurnsInv, NEW u \in Parties, NEW c \in CardsOf(u), Serves(u, c)
  PROVE  TurnsInv'
<1>0. PICK k : k = key[u][c]
  OBVIOUS
<1>k. KeyActsOnce(c, k) /\ k # NoKey /\ k.done \in BOOLEAN /\ Waiting(key[u][c])
  BY <1>0 DEF Serves, TurnsInv, Waiting, KeyActsOnce, Key
<1>1. CASE /\ Results(u, c, k) = {}
           /\ key' = [key EXCEPT ![u][c] = KeyAfterError(u, c, k, k.done, 0)]
           /\ late' = Adrift(key')
           /\ UNCHANGED <<visit, disputed, reviewed, view, detours>>
  BY <1>0, <1>k, <1>1, RefusalKeepsInv
<1>2. ASSUME NEW now \in Results(u, c, k), Settles(now),
             late' = {l \in late : ~(l.live /\ l.user = u /\ l.card = c)},
             NEW x, KeyActsOnce(c, x), Changes(u, c, x),
             view' \in {view, [view EXCEPT ![u] = now[1]]}
      PROVE  TurnsInv'
  <2>1. now \in BOOKING_STATUSES \X BOOLEAN \X BOOLEAN
    BY <1>0, <1>k, <1>2, EffectIsOnce
  <2>2. view' \in [Parties -> BOOKING_STATUSES]
    BY <1>2, <2>1 DEF TurnsInv, VisitOK
  <2>3. VisitOK'
    BY <1>2, <2>1, <2>2, VisitSettles DEF TurnsInv
  <2>4. /\ KeysShaped' /\ key'[u][c] = x
        /\ \A v \in Parties : \A d \in CardsOf(v) :
             KeyActsOnce(d, key'[v][d]) /\ ((v # u \/ d # c) => key'[v][d] = key[v][d])
    BY <1>2, OneCard
  <2>5. \A l \in late' : LateKnowsKey(l)'
    BY <1>2, <2>4, KnownKeyIsDropped
  <2> QED BY <2>3, <2>4, <2>5 DEF TurnsInv
<1>3. ASSUME NEW now \in Results(u, c, k), Settles(now),
             late' = {l \in late : ~(l.live /\ l.user = u /\ l.card = c)},
             key' = [key EXCEPT ![u][c] = NoKey], view' \in {view, [view EXCEPT ![u] = now[1]]}
      PROVE  TurnsInv'
  <2>1. KeyActsOnce(c, NoKey) /\ Changes(u, c, NoKey)
    BY <1>3 DEF KeyActsOnce, Changes
  <2> QED BY <1>2, <1>3, <2>1
<1>4. ASSUME NEW now \in Results(u, c, k), Settles(now),
             late' = {l \in late : ~(l.live /\ l.user = u /\ l.card = c)},
             key' = [key EXCEPT ![u][c] = KeyAfterError(u, c, k, TRUE, Effect(now))],
             UNCHANGED view
      PROVE  TurnsInv'
  <2>0. Effect(now) \in {0, 1}
    BY <1>0, <1>k, <1>4, EffectIsOnce
  <2>1. PICK a, x : a = Effect(now) /\ x = KeyAfterError(u, c, k, TRUE, a)
    OBVIOUS
  <2>2. a > 0 => ~k.done
    BY <1>0, <1>k, <1>4, <2>1, EffectIsOnce
  <2>3. KeyActsOnce(c, x)
    BY <1>k, <2>0, <2>1, <2>2, ServedKey
  <2>4. Changes(u, c, x)
    BY <1>4, <2>1 DEF Changes
  <2> QED BY <1>2, <1>4, <2>3, <2>4
<1> QED BY <1>0, <1>1, <1>3, <1>4 DEF Serves

(* A request that is given up may still arrive with the key of its card.   *)
LEMMA GiveUpKeepsInv ==
  ASSUME TurnsInv, NEW u \in Parties, NEW c \in CardsOf(u), GivesUp(u, c)
  PROVE  TurnsInv'
<1>0. PICK k, x : k = key[u][c] /\ x = Kept(u, c, [k EXCEPT !.asks = "none"], view[u])
  OBVIOUS
<1>1. /\ Changes(u, c, x) /\ UNCHANGED <<visit, disputed, reviewed, view>> /\ Waiting(k)
      /\ late' = Adrift(key') \cup (IF k.done THEN {} ELSE
            {[user |-> u, card |-> c, to |-> k.asks, live |-> key'[u][c] # NoKey]})
  BY <1>0 DEF GivesUp, Changes, TurnsInv, KeysShaped
<1>2. /\ KeyActsOnce(c, k) /\ k # NoKey /\ k \in Key /\ k.asks = k.to /\ k.to \in Targets
      /\ c # "dispute" => k.to # "DISPUTED"
  BY <1>0, <1>1 DEF TurnsInv, KeyActsOnce, Waiting, Key
<1>3. x \in {[k EXCEPT !.asks = "none"], NoKey}
  BY <1>0, KeptKey
<1>4. KeyActsOnce(c, x) /\ (x # NoKey => x.to = k.to /\ x.done = k.done)
  <2>1. /\ [k EXCEPT !.asks = "none"] \in Key
        /\ [k EXCEPT !.asks = "none"].to = k.to /\ [k EXCEPT !.asks = "none"].done = k.done
        /\ [k EXCEPT !.asks = "none"].asks = "none" /\ [k EXCEPT !.asks = "none"].acts = k.acts
    BY <1>2 DEF Key
  <2> QED BY <1>2, <1>3, <2>1 DEF KeyActsOnce
<1>5. /\ KeysShaped' /\ key'[u][c] = x
      /\ \A v \in Parties : \A d \in CardsOf(v) :
           KeyActsOnce(d, key'[v][d]) /\ ((v # u \/ d # c) => key'[v][d] = key[v][d])
  BY <1>1, <1>4, OneCard
<1>6. \A l \in Adrift(key') : LateKnowsKey(l)'
  <2> SUFFICES ASSUME NEW l \in late,
                      NEW m, m = [l EXCEPT !.live = l.live /\ key'[l.user][l.card] # NoKey
                                                    /\ key'[l.user][l.card].to = l.to]
               PROVE  LateKnowsKey(m)'
    BY DEF Adrift
  <2>1. LateKnowsKey(l) /\ l.user \in Parties /\ l.card \in CardsOf(l.user)
    BY DEF TurnsInv, LateKnowsKey
  <2>2. /\ m.user = l.user /\ m.card = l.card /\ m.to = l.to
        /\ m.live = (l.live /\ key'[l.user][l.card] # NoKey /\ key'[l.user][l.card].to = l.to)
        /\ m \in [user : Parties, card : Cards, to : Targets, live : BOOLEAN]
    BY <2>1 DEF LateKnowsKey
  <2> QED BY <1>0, <1>4, <1>5, <2>1, <2>2 DEF LateKnowsKey
<1>7. ASSUME NEW l, l = [user |-> u, card |-> c, to |-> k.asks, live |-> key'[u][c] # NoKey], ~k.done
      PROVE  LateKnowsKey(l)'
  <2>1. c \in Cards
    BY DEF Cards, Parties
  <2>2. /\ l.user = u /\ l.card = c /\ l.to = k.to /\ l.live = (x # NoKey)
        /\ l \in [user : Parties, card : Cards, to : Targets, live : BOOLEAN]
    BY <1>2, <1>5, <1>7, <2>1
  <2> QED BY <1>2, <1>4, <1>5, <1>7, <2>2 DEF LateKnowsKey
<1>8. \A l \in late' : LateKnowsKey(l)'
  BY <1>1, <1>6, <1>7
<1> QED BY <1>1, <1>5, <1>8 DEF TurnsInv, VisitOK

(* A key whose command has arrived.                                        *)
Recorded(k, a) == [k EXCEPT !.done = TRUE, !.acts = @ + a]

(* A key that is put on record stays the key of its command.               *)
LEMMA RecordedKey ==
  ASSUME NEW k \in Key, NEW a \in {0, 1}, k.acts = 0
  PROVE  /\ Recorded(k, a) \in Key /\ Recorded(k, a).to = k.to
         /\ Recorded(k, a).asks = k.asks /\ Recorded(k, a).done /\ Recorded(k, a).acts = a
<1>1. \A y \in Key, n \in 0..2 : [y EXCEPT !.done = TRUE, !.acts = n] \in Key
  BY DEF Key
<1>2. k.acts + a = a /\ a \in 0..2
  OBVIOUS
<1>3. [k EXCEPT !.done = TRUE, !.acts = a] \in Key
  BY <1>1, <1>2, Zenon
<1>4. Recorded(k, a) = [k EXCEPT !.done = TRUE, !.acts = a]
  BY <1>2 DEF Recorded
<1> QED BY <1>3, <1>4 DEF Key

(* A late request changes the key of its own card alone.                   *)
LEMMA ArrivalChanges ==
  ASSUME TurnsInv, NEW u \in Parties, NEW c \in CardsOf(u), NEW now,
         key' = [key EXCEPT ![u][c].done = TRUE, ![u][c].acts = @ + Effect(now)]
  PROVE  Changes(u, c, Recorded(key[u][c], Effect(now)))
BY DEF TurnsInv, KeysShaped, Changes, Recorded

(* A late request acts with a key that the server has not seen.            *)
LEMMA ArrivalKeepsInv ==
  ASSUME TurnsInv, NEW l \in late, Arrives(l)
  PROVE  TurnsInv'
<1>0. PICK u, c : u = l.user /\ c = l.card
  OBVIOUS
<1>1. /\ LateKnowsKey(l) /\ u \in Parties /\ c \in CardsOf(u) /\ l.to \in Targets
      /\ c # "dispute" => l.to # "DISPUTED"
      /\ late' = late \ {l} /\ view' = view
  BY <1>0 DEF TurnsInv, LateKnowsKey, Arrives
<1>2. CASE UNCHANGED <<visit, disputed, reviewed, key>>
  BY <1>1, <1>2 DEF TurnsInv, VisitOK, KeysShaped, LateKnowsKey
<1>3. ASSUME NEW now \in Outcomes(u, c, l.to), Settles(now),
             key' = IF l.live THEN [key EXCEPT ![u][c].done = TRUE, ![u][c].acts = @ + Effect(now)] ELSE key
      PROVE  TurnsInv'
  <2>1. now \in BOOKING_STATUSES \X BOOLEAN \X BOOLEAN
    <3>1. PICK to \in Targets : to = l.to
      BY <1>1
    <3> QED BY <1>1, <1>3, <3>1, OutcomesInTurn DEF TurnsInv
  <2>2. VisitOK'
    BY <1>1, <1>3, <2>1, VisitSettles DEF TurnsInv, VisitOK
  <2>3. CASE ~l.live
    BY <1>1, <1>3, <2>2, <2>3 DEF TurnsInv, KeysShaped, LateKnowsKey
  <2>4. CASE l.live
    <3>0. PICK k, a, x : k = key[u][c] /\ a = Effect(now) /\ x = Recorded(k, a)
      OBVIOUS
    <3>1. /\ k # NoKey /\ k.to = l.to /\ ~k.done /\ k \in Key /\ KeyActsOnce(c, k) /\ k.acts = 0
      BY <1>0, <1>1, <2>4, <3>0 DEF TurnsInv, LateKnowsKey, KeyActsOnce, Key
    <3>2. a \in {0, 1}
      BY <3>0 DEF Effect
    <3>3. KeyActsOnce(c, x)
      <4>1. x.to = k.to /\ x.asks = k.asks /\ x.done /\ x.acts = a /\ x \in Key
        BY <3>0, <3>1, <3>2, RecordedKey
      <4> QED BY <3>1, <3>2, <4>1 DEF KeyActsOnce
    <3>4. Changes(u, c, x)
      BY <1>1, <1>3, <2>4, <3>0, ArrivalChanges
    <3>5. /\ KeysShaped' /\ key'[u][c] = x
          /\ \A v \in Parties : \A d \in CardsOf(v) :
               KeyActsOnce(d, key'[v][d]) /\ ((v # u \/ d # c) => key'[v][d] = key[v][d])
      BY <1>1, <3>3, <3>4, OneCard
    <3>6. ASSUME NEW m \in late' PROVE LateKnowsKey(m)'
      <4>1. m \in late /\ m # l /\ LateKnowsKey(m)
        BY <1>1, <3>6 DEF TurnsInv
      <4>2. CASE m.live /\ m.user = u /\ m.card = c
        <5>1. m.to = l.to
          BY <1>0, <3>0, <3>1, <4>1, <4>2 DEF LateKnowsKey
        <5>2. m = l
          BY <1>0, <1>1, <2>4, <4>1, <4>2, <5>1 DEF LateKnowsKey
        <5> QED BY <4>1, <5>2
      <4>3. CASE ~(m.live /\ m.user = u /\ m.card = c)
        BY <3>5, <4>1, <4>3 DEF LateKnowsKey
      <4> QED BY <4>2, <4>3
    <3> QED BY <2>2, <3>5, <3>6 DEF TurnsInv
  <2> QED BY <2>3, <2>4
<1> QED BY <1>0, <1>2, <1>3 DEF Arrives

(* What others do to a visit touches no key.                               *)
LEMMA ElsewhereKeepsInv ==
  ASSUME TurnsInv, Elsewhere
  PROVE  TurnsInv'
<1>1. UNCHANGED <<reviewed, view, key, late>>
  BY DEF Elsewhere, Releases, HoldsForSafety, Resumes, resolve
<1>2. visit' \in BOOKING_STATUSES /\ disputed' \in BOOLEAN
  <2>1. CASE Releases \/ HoldsForSafety \/ Resumes
    BY <2>1 DEF Releases, HoldsForSafety, Resumes, TurnsInv, VisitOK, BOOKING_STATUSES
  <2>2. CASE resolve
    BY <2>2 DEF resolve, TurnsInv, VisitOK, BOOKING_STATUSES
  <2> QED BY <2>1, <2>2 DEF Elsewhere
<1> QED BY <1>1, <1>2 DEF TurnsInv, VisitOK, KeysShaped, LateKnowsKey

(* Every step keeps the invariant of the keys.                             *)
LEMMA TurnsStep == TurnsInv /\ [ScreensNext]_screenVars => TurnsInv'
<1> SUFFICES ASSUME TurnsInv, [ScreensNext]_screenVars PROVE TurnsInv'
  OBVIOUS
<1>1. ASSUME NEW u \in Parties, Refreshes(u) PROVE TurnsInv'
  BY <1>1, RefreshKeepsInv
<1>2. ASSUME NEW u \in Parties, NEW c \in CardsOf(u), Presses(u, c) \/ Serves(u, c) \/ GivesUp(u, c)
      PROVE  TurnsInv'
  BY <1>2, PressKeepsInv, ServeKeepsInv, GiveUpKeepsInv
<1>3. ASSUME NEW l \in late, Arrives(l) PROVE TurnsInv'
  BY <1>3, ArrivalKeepsInv
<1>4. CASE Elsewhere
  BY <1>4, ElsewhereKeepsInv
<1>5. CASE UNCHANGED screenVars
  BY <1>5 DEF screenVars, TurnsInv, VisitOK, KeysShaped, LateKnowsKey
<1> QED BY <1>1, <1>2, <1>3, <1>4, <1>5 DEF ScreensNext

(* A screen that opens has no keys.                                        *)
LEMMA TurnsInit == ScreensInit => TurnsInv
<1> SUFFICES ASSUME ScreensInit PROVE TurnsInv
  OBVIOUS
<1>1. VisitOK /\ KeysShaped
  BY DEF ScreensInit, VisitOK, KeysShaped, BOOKING_STATUSES
<1>2. \A u \in Parties : \A c \in CardsOf(u) : KeyActsOnce(c, key[u][c])
  BY DEF ScreensInit, KeyActsOnce
<1> QED BY <1>1, <1>2 DEF ScreensInit, TurnsInv

(* In every state of the screens and of the visit, what the screens offer  *)
(* is accepted.                                                            *)
THEOREM OffersAreAccepted == ScreensSpec => []ScreensInv
<1>1. TurnsInv => ScreensInv
  <2> SUFFICES ASSUME TurnsInv PROVE ScreensInv
    OBVIOUS
  <2>1. FreshOfferIsAccepted
    BY TablesAgree DEF TurnsInv, VisitOK
  <2>2. ScreensTypeOK
    BY DEF TurnsInv, VisitOK, KeyActsOnce, LateKnowsKey, ScreensTypeOK
  <2> QED BY <2>1, <2>2 DEF ScreensInv
<1> QED BY <1>1, TurnsInit, TurnsStep, PTL DEF ScreensSpec

(* What a screen offers that is up to date is accepted, and however late or*)
(* often a command arrives, and whatever was decided in between: it acts   *)
(* once, and only where it is its turn.                                    *)
THEOREM CommandsTakeTurns == ScreensSpec => CommandsActInTurn
<1> DEFINE Once == \A u \in Parties : \A c \in CardsOf(u) :
                     Waiting(key[u][c]) /\ key[u][c].acts > 0 /\ ~Waiting(key'[u][c]) => UNCHANGED Now
           Turn == visit' # visit => InTurn(visit') \/ Elsewhere
<1>1. ASSUME TurnsInv, [ScreensNext]_screenVars PROVE Once /\ Turn
  <2>1. ASSUME NEW u \in Parties, Refreshes(u) PROVE UNCHANGED Now /\ visit' = visit
    BY <2>1 DEF Refreshes, Now
  <2>2. ASSUME NEW u \in Parties, NEW c \in CardsOf(u), Presses(u, c) \/ GivesUp(u, c)
        PROVE  UNCHANGED Now /\ visit' = visit
    BY <2>2 DEF Presses, GivesUp, Now
  <2>3. CASE UNCHANGED screenVars
    BY <2>3 DEF screenVars, Now
  <2>4. ASSUME NEW u \in Parties, NEW c \in CardsOf(u), Serves(u, c) PROVE Once /\ Turn
    <3>1. KeyActsOnce(c, key[u][c]) /\ Waiting(key[u][c])
      BY <1>1, <2>4 DEF TurnsInv, Serves
    <3>2. CASE UNCHANGED <<visit, disputed, reviewed>>
      BY <3>2 DEF Now
    <3>3. ASSUME NEW now \in Results(u, c, key[u][c]), Settles(now) PROVE Once /\ Turn
      <4>1. Turn
        BY <1>1, <3>1, <3>3, EffectIsOnce DEF Settles
      <4>2. key[u][c].acts > 0 => UNCHANGED Now
        <5>1. key[u][c].acts > 0 => now = Now
          BY <1>1, <3>1, <3>3, EffectIsOnce DEF KeyActsOnce, Waiting
        <5> QED BY <3>3, <5>1 DEF Settles, Now
      <4>3. ASSUME NEW v \in Parties, NEW d \in CardsOf(v), v # u \/ d # c PROVE key'[v][d] = key[v][d]
        <5>1. PICK x : key' = [key EXCEPT ![u][c] = x]
          BY <2>4 DEF Serves
        <5> QED BY <1>1, <4>3, <5>1 DEF TurnsInv, KeysShaped
      <4> QED BY <4>1, <4>2, <4>3
    <3> QED BY <2>4, <3>2, <3>3 DEF Serves
  <2>5. ASSUME NEW l \in late, Arrives(l) PROVE Once /\ Turn
    <3>1. LateKnowsKey(l) /\ l.user \in Parties /\ l.card \in CardsOf(l.user)
      BY <1>1 DEF TurnsInv, LateKnowsKey
    <3>2. Turn
      <4>1. CASE UNCHANGED <<visit, disputed, reviewed>>
        BY <4>1
      <4>2. ASSUME NEW now \in Outcomes(l.user, l.card, l.to), Settles(now) PROVE Turn
        <5>1. PICK u, c, to : u = l.user /\ c = l.card /\ to = l.to
          OBVIOUS
        <5>2. /\ u \in Parties /\ c \in CardsOf(u) /\ to \in Targets
              /\ c # "dispute" => to # "DISPUTED"
              /\ now \in Outcomes(u, c, to) /\ VisitOK
          BY <1>1, <3>1, <4>2, <5>1 DEF TurnsInv, LateKnowsKey
        <5>3. now[1] # visit => InTurn(now[1])
          BY <5>2, OutcomesInTurn
        <5> QED BY <4>2, <5>3 DEF Settles
      <4> QED BY <2>5, <4>1, <4>2 DEF Arrives
    <3>3. ASSUME NEW v \in Parties, NEW d \in CardsOf(v), Waiting(key[v][d]) PROVE Waiting(key'[v][d])
      <4>1. CASE key' = key
        BY <3>3, <4>1
      <4>2. ASSUME NEW now, l.live,
                   key' = [key EXCEPT ![l.user][l.card].done = TRUE,
                                      ![l.user][l.card].acts = @ + Effect(now)]
            PROVE  Waiting(key'[v][d])
        <5>1. key[v][d] # NoKey /\ key[v][d] \in Key /\ key[v][d].asks # "none"
          BY <1>1, <3>3 DEF Waiting, TurnsInv, KeyActsOnce
        <5>1a. PICK u, c, a, x : u = l.user /\ c = l.card /\ a = Effect(now) /\ x = Recorded(key[u][c], a)
          OBVIOUS
        <5>1b. Changes(u, c, x) /\ u \in Parties /\ c \in CardsOf(u)
          BY <1>1, <3>1, <4>2, <5>1a, ArrivalChanges
        <5>1c. key'[u][c] = x /\ ((v # u \/ d # c) => key'[v][d] = key[v][d])
          BY <1>1, <3>3, <5>1b DEF TurnsInv, KeysShaped, Changes
        <5>2. CASE v # u \/ d # c
          BY <3>3, <5>1c, <5>2
        <5>3. CASE v = u /\ d = c
          <6>1. key[u][c] \in Key /\ key[u][c].acts = 0 /\ a \in {0, 1}
            BY <1>1, <3>1, <4>2, <5>1, <5>1a, <5>3 DEF TurnsInv, KeyActsOnce, LateKnowsKey, Key, Effect
          <6>2. x \in Key /\ x.asks = key[u][c].asks
            BY <5>1a, <6>1, RecordedKey
          <6> QED BY <5>1, <5>1c, <5>3, <6>2, ScreensAssumption DEF Waiting
        <5> QED BY <5>2, <5>3
      <4> QED BY <2>5, <4>1, <4>2 DEF Arrives
    <3> QED BY <3>2, <3>3
  <2>6. CASE Elsewhere
    BY <2>6 DEF Elsewhere, Releases, HoldsForSafety, Resumes, resolve
  <2> QED BY <1>1, <2>1, <2>2, <2>3, <2>4, <2>5, <2>6 DEF ScreensNext
<1>2. Once <=> (\A u \in Parties : \A c \in CardsOf(u) :
                  Waiting(key[u][c]) /\ key[u][c].acts > 0 /\ ~Waiting(key'[u][c]) => UNCHANGED Now)
  OBVIOUS
<1>3. Turn <=> (visit' # visit =>
                  \/ \E u \in Parties : \E o \in Offers(u, visit, disputed) :
                       visit' = IF o[2] = "CUSTOMER_CONFIRMED" THEN "COMPLETED" ELSE o[2]
                  \/ Elsewhere)
  BY DEF InTurn
<1> HIDE DEF Once, Turn
<1>4. ScreensSpec => OnceForOnePress /\ LateCommandsActInTurn
  BY <1>1, <1>2, <1>3, TurnsInit, TurnsStep, PTL DEF ScreensSpec, OnceForOnePress, LateCommandsActInTurn
<1> QED BY <1>4, OffersAreAccepted DEF CommandsActInTurn
-----------------------------------------------------------------------------
(* THE EVIDENCE                                                            *)
(*                                                                         *)
(* A registration stands for one photo: what the client goes on with, what *)
(* is on its way and what the storage holds under it never differ.  That   *)
(* is why an upload that comes after the confirmation changes nothing.     *)
OnePhotoEach ==
  /\ \A d \in Documents : pending.doc = d => object[d] \in {NoPhoto, pending.photo}
  /\ \A r \in delayed : /\ object[r.doc] \in {NoPhoto, r.photo}
                        /\ pending.doc = r.doc => pending.photo = r.photo
                        /\ \A q \in delayed : q.doc = r.doc => q.photo = r.photo

(* What has no row yet is not used by anybody.                             *)
FreshIsUntouched ==
  \A d \in Documents : document[d].status = "none" =>
     /\ object[d] = NoPhoto /\ pending.doc # d /\ d \notin urlValid
     /\ \A r \in delayed : r.doc # d

(* The steps after the registration are about the photo that was picked.   *)
StageTellsPending ==
  /\ stage \in {"upload", "confirm"} => pending.doc # 0 /\ pending.photo = picked
  /\ pending.doc # 0 => pending.photo \in Photos

(* A row is confirmed once, and with what the storage held.                *)
ConfirmedOnce(d) ==
  IF document[d].status = "AVAILABLE"
  THEN document[d].sha256 = object[d] /\ object[d] # NoPhoto /\ document[d].events <= 1
  ELSE document[d].sha256 = NoPhoto /\ document[d].events = 0

DelayedOK == delayed \subseteq [step : {"upload", "confirm"}, doc : Documents, photo : Photos]

DoneIsRecorded == stage = "done" => \E d \in Documents : document[d].sha256 = picked

UploadInv ==
  /\ EvidenceTypeOK /\ DelayedOK
  /\ OnePhotoEach /\ FreshIsUntouched /\ StageTellsPending
  /\ (\A d \in Documents : ConfirmedOnce(d)) /\ DoneIsRecorded

-----------------------------------------------------------------------------
(* No registration is a registration without a document.                   *)
LEMMA NoPendingIsPending ==
  /\ NoPending \in [doc : Documents \cup {0}, photo : Photos \cup {NoPhoto}, uploaded : BOOLEAN]
  /\ NoPending.doc = 0 /\ 0 \notin Documents
BY EvidenceAssumption DEF NoPending, Documents

(* A client that only moves on, or drops what it goes on with, leaves what *)
(* the server knows as it is.                                              *)
LEMMA ClientMoves ==
  ASSUME UploadInv, UNCHANGED <<document, object>>,
         urlValid' \subseteq urlValid, delayed' = delayed, UNCHANGED client,
         pending' \in {pending, NoPending}, picked' \in Photos,
         stage' \in {"idle", "register", "upload", "confirm", "failed"},
         stage' \in {"upload", "confirm"} => pending'.doc # 0 /\ pending'.photo = picked'
  PROVE  UploadInv'
<1> USE NoPendingIsPending
<1>1. EvidenceTypeOK' /\ DelayedOK'
  BY DEF UploadInv, EvidenceTypeOK, DelayedOK, Documents
<1>2. OnePhotoEach'
  BY DEF UploadInv, OnePhotoEach, Documents, DelayedOK
<1>3. FreshIsUntouched'
  BY DEF UploadInv, FreshIsUntouched, Documents
<1>4. StageTellsPending'
  BY DEF UploadInv, StageTellsPending
<1>5. \A d \in Documents : ConfirmedOnce(d)'
  BY DEF UploadInv, ConfirmedOnce, Documents
<1> QED BY <1>1, <1>2, <1>3, <1>4, <1>5 DEF UploadInv, DoneIsRecorded, Documents

(* A step that fails.                                                      *)
LEMMA FailureMoves ==
  ASSUME UploadInv, NEW error, Fails(error), UNCHANGED <<document, object, urlValid, delayed>>
  PROVE  UploadInv'
<1>1. /\ stage' = "failed" /\ pending' \in {pending, NoPending} /\ UNCHANGED <<client, picked>>
  BY DEF Fails, needsFreshRegistration
<1> QED BY <1>1, ClientMoves DEF UploadInv, EvidenceTypeOK

(* A submission goes on with the registration of the same photo, or begins *)
(* anew.                                                                   *)
LEMMA SubmitKeepsInv ==
  ASSUME UploadInv, onSubmit
  PROVE  UploadInv'
<1> USE NoPendingIsPending
<1>1. /\ pending' = IF fileKey(pending) THEN pending ELSE NoPending
      /\ stage' = IF pending' = NoPending THEN "register"
                  ELSE IF client = "web" /\ pending.uploaded THEN "confirm" ELSE "upload"
      /\ UNCHANGED <<client, picked, document, object, urlValid, delayed>>
  BY DEF onSubmit, server
<1>2. stage' \in {"upload", "confirm"} => pending'.doc # 0 /\ pending'.photo = picked'
  BY <1>1 DEF fileKey
<1> QED BY <1>1, <1>2, ClientMoves DEF UploadInv, EvidenceTypeOK

(* Another photo may be picked between two tries.                          *)
LEMMA PickKeepsInv ==
  ASSUME UploadInv, NEW f \in Photos, Picks(f)
  PROVE  UploadInv'
<1>1. /\ pending' \in {pending, NoPending} /\ picked' = f /\ stage' = stage
      /\ stage \in {"idle", "failed"}
      /\ UNCHANGED <<client, document, object, urlValid, delayed>>
  BY DEF Picks, server
<1> QED BY <1>1, ClientMoves

(* An upload URL expires.                                                  *)
LEMMA ExpiryKeepsInv ==
  ASSUME UploadInv, NEW d \in Documents, UrlExpires(d)
  PROVE  UploadInv'
<1>1. /\ urlValid' \subseteq urlValid
      /\ UNCHANGED <<client, picked, stage, pending, document, object, delayed>>
  BY DEF UrlExpires
<1>2. EvidenceTypeOK' /\ DelayedOK'
  BY <1>1 DEF UploadInv, EvidenceTypeOK, DelayedOK, Documents
<1>3. OnePhotoEach' /\ FreshIsUntouched' /\ StageTellsPending'
  BY <1>1 DEF UploadInv, OnePhotoEach, FreshIsUntouched, StageTellsPending, Documents
<1>4. (\A e \in Documents : ConfirmedOnce(e))' /\ DoneIsRecorded'
  BY <1>1 DEF UploadInv, ConfirmedOnce, DoneIsRecorded, Documents
<1> QED BY <1>2, <1>3, <1>4 DEF UploadInv

(* A new row, whose number the client may or may not learn.                *)
LEMMA RegistrationKeepsInv ==
  ASSUME UploadInv, registerDocument
  PROVE  UploadInv'
<1> USE NoPendingIsPending
<1>1. PICK d \in Documents :
        /\ document[d].status = "none"
        /\ document' = [document EXCEPT ![d].status = "PENDING_UPLOAD"]
        /\ urlValid' = urlValid \cup {d}
        /\ AnswerOr("upload", [doc |-> d, photo |-> picked, uploaded |-> FALSE])
  BY DEF registerDocument
<1>2. UNCHANGED <<client, picked, object, delayed>>
  BY <1>1 DEF registerDocument, AnswerOr, Fails
<1>3. \/ stage' = "upload" /\ pending' = [doc |-> d, photo |-> picked, uploaded |-> FALSE]
      \/ stage' = "failed" /\ pending' \in {pending, NoPending}
  BY <1>1 DEF AnswerOr, Fails, needsFreshRegistration
<1>4. /\ document[d] \in [status : {"none", "PENDING_UPLOAD", "AVAILABLE"},
                          sha256 : Photos \cup {NoPhoto}, events : Nat]
      /\ document'[d] = [document[d] EXCEPT !.status = "PENDING_UPLOAD"]
      /\ \A e \in Documents \ {d} : document'[e] = document[e]
      /\ document' \in [Documents -> [status : {"none", "PENDING_UPLOAD", "AVAILABLE"},
                                      sha256 : Photos \cup {NoPhoto}, events : Nat]]
  BY <1>1 DEF UploadInv, EvidenceTypeOK
<1>5. /\ object[d] = NoPhoto /\ pending.doc # d /\ \A r \in delayed : r.doc # d
      /\ document[d].sha256 = NoPhoto /\ document[d].events = 0
  BY <1>1 DEF UploadInv, FreshIsUntouched, ConfirmedOnce
<1>6. EvidenceTypeOK' /\ DelayedOK'
  <2>1. [doc |-> d, photo |-> picked, uploaded |-> FALSE]
          \in [doc : Documents \cup {0}, photo : Photos \cup {NoPhoto}, uploaded : BOOLEAN]
    BY DEF UploadInv, EvidenceTypeOK
  <2> QED BY <1>2, <1>3, <1>4, <2>1 DEF UploadInv, EvidenceTypeOK, DelayedOK, Documents
<1>7. OnePhotoEach'
  BY <1>2, <1>3, <1>5 DEF UploadInv, OnePhotoEach, Documents, DelayedOK
<1>8. FreshIsUntouched'
  BY <1>1, <1>2, <1>3, <1>4 DEF UploadInv, FreshIsUntouched, Documents
<1>9. StageTellsPending'
  BY <1>2, <1>3 DEF UploadInv, StageTellsPending, EvidenceTypeOK
<1>10. (\A e \in Documents : ConfirmedOnce(e))'
  <2> SUFFICES ASSUME NEW e \in Documents PROVE ConfirmedOnce(e)'
    BY DEF Documents
  <2>1. CASE e = d
    BY <2>1, <1>2, <1>4, <1>5 DEF ConfirmedOnce
  <2>2. CASE e # d
    BY <2>2, <1>2, <1>4 DEF UploadInv, ConfirmedOnce
  <2> QED BY <2>1, <2>2
<1>11. DoneIsRecorded'
  BY <1>3 DEF DoneIsRecorded
<1> QED BY <1>6, <1>7, <1>8, <1>9, <1>10, <1>11 DEF UploadInv

(* The storage takes the photo that the registration stands for.           *)
LEMMA UploadChangesOneObject ==
  ASSUME UploadInv, NEW d \in Documents, NEW f \in Photos, d \in urlValid,
         object' = [object EXCEPT ![d] = f], object[d] \in {NoPhoto, f},
         pending.doc = d => pending.photo = f,
         \A r \in delayed : r.doc = d => r.photo = f,
         delayed' \subseteq delayed, UNCHANGED <<client, document, urlValid, picked>>,
         pending' \in {pending, NoPending}
           \/ (pending.doc # 0 /\ pending' = [pending EXCEPT !.uploaded = TRUE]),
         stage' \in {"idle", "register", "upload", "confirm", "failed", "done"},
         stage' \in {"upload", "confirm"} => pending'.doc # 0 /\ pending'.photo = picked',
         stage' = "done" => stage = "done"
  PROVE  UploadInv'
<1> USE NoPendingIsPending
<1>1. object' \in [Documents -> Photos \cup {NoPhoto}] /\ object'[d] = f
      /\ \A e \in Documents \ {d} : object'[e] = object[e]
  BY DEF UploadInv, EvidenceTypeOK
<1>2. /\ pending' \in [doc : Documents \cup {0}, photo : Photos \cup {NoPhoto}, uploaded : BOOLEAN]
      /\ pending'.doc # 0 => pending'.doc = pending.doc /\ pending'.photo = pending.photo
  BY DEF UploadInv, EvidenceTypeOK
<1>3. EvidenceTypeOK' /\ DelayedOK'
  BY <1>1, <1>2 DEF UploadInv, EvidenceTypeOK, DelayedOK, Documents
<1>4. OnePhotoEach'
  BY <1>1, <1>2 DEF UploadInv, OnePhotoEach, Documents, DelayedOK
<1>5. FreshIsUntouched'
  BY <1>1, <1>2 DEF UploadInv, FreshIsUntouched, Documents
<1>6. StageTellsPending'
  BY <1>2 DEF UploadInv, StageTellsPending
<1>7. f # NoPhoto
  BY EvidenceAssumption
<1>8. (\A e \in Documents : ConfirmedOnce(e))'
  <2> SUFFICES ASSUME NEW e \in Documents PROVE ConfirmedOnce(e)'
    BY DEF Documents
  <2> QED BY <1>1, <1>7 DEF UploadInv, ConfirmedOnce
<1> QED BY <1>3, <1>4, <1>5, <1>6, <1>8 DEF UploadInv, DoneIsRecorded, Documents

(* An upload stores the photo that was picked, or fails.                   *)
LEMMA PutKeepsInv ==
  ASSUME UploadInv, put
  PROVE  UploadInv'
<1> USE NoPendingIsPending
<1>1. CASE pending.doc \notin urlValid /\ Fails("UPLOAD_FAILED") /\ UNCHANGED <<object, slips>>
  BY <1>1, FailureMoves DEF put
<1>2. CASE /\ pending.doc \in urlValid
           /\ object' = [object EXCEPT ![pending.doc] = picked]
           /\ AnswerOr("confirm", [pending EXCEPT !.uploaded = TRUE])
  <2>1. /\ pending.doc \in Documents /\ pending.photo = picked /\ picked \in Photos
        /\ stage = "upload" /\ UNCHANGED <<document, urlValid, delayed>>
    BY DEF put, UploadInv, StageTellsPending, EvidenceTypeOK
  <2>2. /\ UNCHANGED <<client, picked>>
        /\ \/ stage' = "confirm" /\ pending' = [pending EXCEPT !.uploaded = TRUE]
           \/ stage' = "failed" /\ pending' \in {pending, NoPending}
    BY <1>2 DEF AnswerOr, Fails, needsFreshRegistration
  <2>3. /\ object[pending.doc] \in {NoPhoto, picked}
        /\ \A r \in delayed : r.doc = pending.doc => r.photo = picked
    BY <2>1 DEF UploadInv, OnePhotoEach
  <2>4. stage' = "confirm" => pending'.doc # 0 /\ pending'.photo = picked'
    BY <2>1, <2>2 DEF UploadInv, EvidenceTypeOK
  <2> QED BY <1>2, <2>1, <2>2, <2>3, <2>4, UploadChangesOneObject
<1> QED BY <1>1, <1>2 DEF put

(* A confirmation that is accepted.                                        *)
LEMMA ConfirmationRecords ==
  ASSUME UploadInv, NEW d \in Documents, NEW f \in Photos,
         Verdict(d, f) = "AVAILABLE", Available(d),
         delayed' \subseteq delayed, UNCHANGED <<client, object, urlValid, picked>>,
         pending' \in {pending, NoPending},
         \/ stage' = stage
         \/ stage' = "failed"
         \/ stage' = "done" /\ f = picked,
         stage' \in {"upload", "confirm"} => pending' = pending
  PROVE  UploadInv'
<1> USE NoPendingIsPending
<1>1. /\ document[d].status # "AVAILABLE" /\ object[d] # NoPhoto /\ object[d] = f
  BY DEF Verdict
<1>2. /\ document[d] \in [status : {"none", "PENDING_UPLOAD", "AVAILABLE"},
                          sha256 : Photos \cup {NoPhoto}, events : Nat]
      /\ document[d].events = 0
  BY <1>1 DEF UploadInv, EvidenceTypeOK, ConfirmedOnce
<1>3. /\ document'[d] = [status |-> "AVAILABLE", sha256 |-> f, events |-> 1]
      /\ \A e \in Documents \ {d} : document'[e] = document[e]
      /\ document' \in [Documents -> [status : {"none", "PENDING_UPLOAD", "AVAILABLE"},
                                      sha256 : Photos \cup {NoPhoto}, events : Nat]]
  BY <1>1, <1>2 DEF Available, UploadInv, EvidenceTypeOK
<1>4. EvidenceTypeOK' /\ DelayedOK'
  BY <1>3 DEF UploadInv, EvidenceTypeOK, DelayedOK, Documents
<1>5. OnePhotoEach'
  BY DEF UploadInv, OnePhotoEach, Documents, DelayedOK
<1>6. FreshIsUntouched'
  BY <1>3 DEF UploadInv, FreshIsUntouched, Documents
<1>7. StageTellsPending'
  BY DEF UploadInv, StageTellsPending
<1>8. (\A e \in Documents : ConfirmedOnce(e))'
  <2> SUFFICES ASSUME NEW e \in Documents PROVE ConfirmedOnce(e)'
    BY DEF Documents
  <2>1. CASE e = d
    BY <2>1, <1>1, <1>3 DEF ConfirmedOnce
  <2>2. CASE e # d
    BY <2>2, <1>3 DEF UploadInv, ConfirmedOnce
  <2> QED BY <2>1, <2>2
<1>9. DoneIsRecorded'
  <2> SUFFICES ASSUME stage' = "done" PROVE \E e \in Documents : document'[e].sha256 = picked
    BY DEF DoneIsRecorded, Documents
  <2>1. CASE f = picked
    BY <2>1, <1>3
  <2>2. CASE f # picked
    <3>1. PICK e \in Documents : document[e].sha256 = picked
      BY <2>2 DEF UploadInv, DoneIsRecorded
    <3>2. e # d
      BY <3>1, <1>1, EvidenceAssumption DEF UploadInv, ConfirmedOnce, EvidenceTypeOK
    <3> QED BY <3>1, <3>2, <1>3
  <2> QED BY <2>1, <2>2
<1> QED BY <1>4, <1>5, <1>6, <1>7, <1>8, <1>9 DEF UploadInv

(* A confirmation is recorded, or refused.                                 *)
LEMMA ConfirmKeepsInv ==
  ASSUME UploadInv, confirmUpload
  PROVE  UploadInv'
<1>1. /\ stage = "confirm" /\ pending.doc \in Documents /\ picked \in Photos
      /\ UNCHANGED <<object, urlValid, delayed>>
  BY DEF confirmUpload, UploadInv, StageTellsPending, EvidenceTypeOK
<1>2. CASE /\ Verdict(pending.doc, picked) = "AVAILABLE" /\ Available(pending.doc)
           /\ AnswerOr("done", NoPending)
  <2>1. /\ UNCHANGED <<client, picked>>
        /\ \/ stage' = "done" /\ pending' = NoPending
           \/ stage' = "failed" /\ pending' \in {pending, NoPending}
    BY <1>2 DEF AnswerOr, Fails, needsFreshRegistration
  <2> QED BY <1>1, <1>2, <2>1, ConfirmationRecords
<1>3. CASE Fails(Verdict(pending.doc, picked)) /\ UNCHANGED <<document, slips>>
  BY <1>1, <1>3, FailureMoves
<1> QED BY <1>2, <1>3 DEF confirmUpload

(* A request that is given up carries the photo of its registration.       *)
LEMMA DelayKeepsInv ==
  ASSUME UploadInv, Delays
  PROVE  UploadInv'
<1> USE NoPendingIsPending
<1> DEFINE r == [step |-> stage, doc |-> pending.doc, photo |-> picked]
<1>1. /\ stage \in {"upload", "confirm"} /\ pending.doc \in Documents /\ pending.photo = picked
      /\ picked \in Photos
  BY DEF Delays, UploadInv, StageTellsPending, EvidenceTypeOK
<1>2. /\ stage' = "failed" /\ pending' \in {pending, NoPending} /\ UNCHANGED <<client, picked>>
      /\ delayed' = delayed \cup {r} /\ UNCHANGED <<document, object, urlValid>>
  BY DEF Delays, Fails, needsFreshRegistration
<1>3. r \in [step : {"upload", "confirm"}, doc : Documents, photo : Photos]
      /\ r.doc = pending.doc /\ r.photo = picked
  BY <1>1
<1> HIDE DEF r
<1>4. EvidenceTypeOK' /\ DelayedOK'
  BY <1>2, <1>3 DEF UploadInv, EvidenceTypeOK, DelayedOK, Documents
<1>5. OnePhotoEach'
  BY <1>1, <1>2, <1>3 DEF UploadInv, OnePhotoEach, Documents, DelayedOK
<1>6. FreshIsUntouched'
  BY <1>1, <1>2, <1>3 DEF UploadInv, FreshIsUntouched, Documents
<1>7. StageTellsPending' /\ DoneIsRecorded'
  BY <1>2 DEF UploadInv, StageTellsPending, DoneIsRecorded
<1>8. (\A e \in Documents : ConfirmedOnce(e))'
  BY <1>2 DEF UploadInv, ConfirmedOnce, Documents
<1> QED BY <1>4, <1>5, <1>6, <1>7, <1>8 DEF UploadInv

(* A late request finds the object and the row of its own photo.           *)
LEMMA LateArrivalKeepsInv ==
  ASSUME UploadInv, NEW r \in delayed, ArrivesLate(r)
  PROVE  UploadInv'
<1>1. /\ r.doc \in Documents /\ r.photo \in Photos /\ delayed' = delayed \ {r}
      /\ UNCHANGED <<client, picked, stage, pending, urlValid>>
      /\ r.step \in {"upload", "confirm"}
  BY DEF ArrivesLate, UploadInv, DelayedOK
<1>2. CASE r.step = "upload" /\ r.doc \in urlValid
  <2>1. PICK d \in Documents, f \in Photos : d = r.doc /\ f = r.photo
    BY <1>1
  <2>2. object' = [object EXCEPT ![d] = f] /\ document' = document /\ d \in urlValid
    BY <1>2, <2>1 DEF ArrivesLate
  <2>3. /\ object[d] \in {NoPhoto, f} /\ (pending.doc = d => pending.photo = f)
        /\ \A q \in delayed : q.doc = d => q.photo = f
    BY <2>1 DEF UploadInv, OnePhotoEach
  <2>4. /\ stage \in {"idle", "register", "upload", "confirm", "failed", "done"}
        /\ stage \in {"upload", "confirm"} => pending.doc # 0 /\ pending.photo = picked
    BY DEF UploadInv, EvidenceTypeOK, StageTellsPending
  <2>5. /\ delayed' \subseteq delayed /\ UNCHANGED <<client, document, urlValid, picked>>
        /\ pending' = pending /\ stage' = stage /\ picked' = picked
    BY <1>1, <2>2
  <2>6. /\ \/ pending' \in {pending, NoPending}
           \/ pending.doc # 0 /\ pending' = [pending EXCEPT !.uploaded = TRUE]
        /\ stage' \in {"idle", "register", "upload", "confirm", "failed", "done"}
        /\ stage' \in {"upload", "confirm"} => pending'.doc # 0 /\ pending'.photo = picked'
        /\ stage' = "done" => stage = "done"
    BY <2>4, <2>5
  <2> QED BY <2>1, <2>2, <2>3, <2>5, <2>6, UploadChangesOneObject, Zenon
<1>3. CASE r.step = "confirm" /\ Verdict(r.doc, r.photo) = "AVAILABLE"
  <2>1. Available(r.doc) /\ UNCHANGED object
    BY <1>3 DEF ArrivesLate
  <2> QED BY <1>1, <1>3, <2>1, ConfirmationRecords
<1>4. CASE /\ ~(r.step = "upload" /\ r.doc \in urlValid)
           /\ ~(r.step = "confirm" /\ Verdict(r.doc, r.photo) = "AVAILABLE")
  <2>1. UNCHANGED <<document, object>>
    BY <1>4 DEF ArrivesLate
  <2>2. EvidenceTypeOK' /\ DelayedOK'
    BY <1>1, <2>1 DEF UploadInv, EvidenceTypeOK, DelayedOK, Documents
  <2>3. OnePhotoEach' /\ FreshIsUntouched' /\ StageTellsPending'
    BY <1>1, <2>1 DEF UploadInv, OnePhotoEach, FreshIsUntouched, StageTellsPending, Documents
  <2>4. (\A e \in Documents : ConfirmedOnce(e))' /\ DoneIsRecorded'
    BY <1>1, <2>1 DEF UploadInv, ConfirmedOnce, DoneIsRecorded, Documents
  <2> QED BY <2>2, <2>3, <2>4 DEF UploadInv
<1> QED BY <1>2, <1>3, <1>4

(* What is on record of a visit is the photo that was taken, and it was    *)
(* announced once, whatever was sent again, late or under an old URL.      *)
THEOREM EvidenceIsKept == EvidenceSpec => []EvidenceInv
<1>1. EvidenceInit => UploadInv
  <2> SUFFICES ASSUME EvidenceInit PROVE UploadInv
    OBVIOUS
  <2>1. EvidenceTypeOK
    BY NoPendingIsPending DEF EvidenceInit, EvidenceTypeOK, Unregistered
  <2>2. OnePhotoEach /\ FreshIsUntouched /\ StageTellsPending /\ DoneIsRecorded /\ DelayedOK
    BY NoPendingIsPending DEF EvidenceInit, OnePhotoEach, FreshIsUntouched, StageTellsPending,
       DoneIsRecorded, DelayedOK
  <2>3. \A d \in Documents : ConfirmedOnce(d)
    BY DEF EvidenceInit, ConfirmedOnce, Unregistered
  <2> QED BY <2>1, <2>2, <2>3 DEF UploadInv
<1>2. UploadInv /\ [EvidenceNext]_evidenceVars => UploadInv'
  <2> SUFFICES ASSUME UploadInv, [EvidenceNext]_evidenceVars PROVE UploadInv'
    OBVIOUS
  <2>1. CASE Proceeds
    BY <2>1, SubmitKeepsInv, RegistrationKeepsInv, PutKeepsInv, ConfirmKeepsInv DEF Proceeds
  <2>2. CASE Delays
    BY <2>2, DelayKeepsInv
  <2>3. ASSUME NEW f \in Photos, Picks(f) PROVE UploadInv'
    BY <2>3, PickKeepsInv
  <2>4. ASSUME NEW d \in Documents, UrlExpires(d) PROVE UploadInv'
    BY <2>4, ExpiryKeepsInv
  <2>5. ASSUME NEW r \in delayed, ArrivesLate(r) PROVE UploadInv'
    BY <2>5, LateArrivalKeepsInv
  <2>6. CASE UNCHANGED evidenceVars
    <3>1. UNCHANGED <<client, picked, stage, pending, document, object, urlValid, delayed>>
      BY <2>6 DEF evidenceVars
    <3>2. EvidenceTypeOK' /\ DelayedOK'
      BY <3>1 DEF UploadInv, EvidenceTypeOK, DelayedOK, Documents
    <3>3. OnePhotoEach' /\ FreshIsUntouched' /\ StageTellsPending'
      BY <3>1 DEF UploadInv, OnePhotoEach, FreshIsUntouched, StageTellsPending, Documents
    <3>4. (\A e \in Documents : ConfirmedOnce(e))' /\ DoneIsRecorded'
      BY <3>1 DEF UploadInv, ConfirmedOnce, DoneIsRecorded, Documents
    <3> QED BY <3>2, <3>3, <3>4 DEF UploadInv
  <2> QED BY <2>1, <2>2, <2>3, <2>4, <2>5, <2>6 DEF EvidenceNext
<1>3. UploadInv => EvidenceInv
  <2> SUFFICES ASSUME UploadInv PROVE EvidenceInv
    OBVIOUS
  <2>1. EvidenceStands
    BY DEF UploadInv, EvidenceStands, ConfirmedOnce, DoneIsRecorded
  <2>2. AnnouncedOnce
    BY DEF UploadInv, AnnouncedOnce, ConfirmedOnce
  <2> QED BY <2>1, <2>2 DEF UploadInv, EvidenceInv
<1> QED BY <1>1, <1>2, <1>3, PTL DEF EvidenceSpec
=============================================================================
