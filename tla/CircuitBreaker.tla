--------------------------- MODULE CircuitBreaker ---------------------------
(***************************************************************************)
(* The circuit breaker before the AI service, the same in the matching and *)
(* in the anomaly client: concurrent calls share a counter of failures and *)
(* the time until which the service is left alone.  A call reads the clock *)
(* once, when it begins.  Times are kept relative to now.                  *)
(***************************************************************************)
EXTENDS Naturals, FiniteSets

CONSTANTS
  Callers,    \* bound: requests that are handled at a time
  Threshold,  \* failures in a row that open the circuit
  OpenFor,    \* how long it stays open
  Timeout     \* of a call

ASSUME BreakerAssumption ==
  /\ IsFiniteSet(Callers)
  /\ Threshold \in Nat \ {0} /\ Timeout \in Nat /\ OpenFor \in Nat
  /\ OpenFor > 2 * Timeout

VARIABLES
  up,        \* does the service answer?
  failures,  \* consecutiveFailures
  tripped,   \* is openUntil set?
  left,      \* time until openUntil, 0 when it is over
  call,      \* what each caller waits for
  spent      \* calls begun since the last answer, apart from probes

breakerVars == <<up, failures, tripped, left, call, spent>>

NoCall == [pc |-> "idle", age |-> 0]
Calling == {c \in Callers : call[c].pc # "idle"}
Probing == {c \in Callers : call[c].pc = "probe"}

BreakerInit ==
  /\ up = TRUE /\ failures = 0 /\ tripped = FALSE /\ left = 0
  /\ call = [c \in Callers |-> NoCall] /\ spent = 0
-----------------------------------------------------------------------------
(* A call that meets the open circuit is refused and changes nothing.  The *)
(* first after its time is a probe and moves the window before it waits.   *)
asks(c) ==
  /\ call[c].pc = "idle" /\ left = 0
  /\ IF tripped
     THEN /\ call' = [call EXCEPT ![c] = [pc |-> "probe", age |-> 0]]
          /\ left' = OpenFor
          /\ UNCHANGED spent
     ELSE /\ call' = [call EXCEPT ![c] = [pc |-> "call", age |-> 0]]
          /\ spent' = spent + 1
          /\ UNCHANGED left
  /\ UNCHANGED <<up, failures, tripped>>

(* mutation: an answer ends the window, but leaves the circuit half open   *)
StaysHalfOpen(c) ==
  /\ call[c].pc # "idle" /\ up
  /\ call' = [call EXCEPT ![c] = NoCall]
  /\ failures' = 0 /\ left' = 0
  /\ spent' = Cardinality(Calling \ {c})
  /\ UNCHANGED <<up, tripped>>

(* Any answer, a refusal for the contract included, closes the circuit.    *)
Answered(c) ==
  /\ call[c].pc # "idle" /\ up
  /\ call' = [call EXCEPT ![c] = NoCall]
  /\ failures' = 0 /\ tripped' = FALSE /\ left' = 0
  /\ spent' = Cardinality(Calling \ {c})
  /\ UNCHANGED up

(* mutation: the circuit opens at one failure more                         *)
TripsLate(n) == n > Threshold

Trips(n) == n >= Threshold

(* A timeout or a broken connection.  The window counts from the time that *)
(* the call has read.                                                      *)
Failed(c) ==
  /\ call[c].pc # "idle"
  /\ call' = [call EXCEPT ![c] = NoCall]
  /\ IF call[c].pc = "call" /\ Trips(failures + 1)
     THEN /\ tripped' = TRUE /\ left' = OpenFor - call[c].age /\ failures' = 0
     ELSE /\ failures' = IF call[c].pc = "call" THEN failures + 1 ELSE failures
          /\ UNCHANGED <<tripped, left>>
  /\ UNCHANGED <<up, spent>>

ServiceChanges ==
  /\ up' = ~up
  /\ UNCHANGED <<failures, tripped, left, call, spent>>

(* No call outlives its timeout.                                           *)
BreakerTick ==
  /\ \A c \in Calling : call[c].age < Timeout
  /\ Calling # {} \/ left > 0
  /\ call' = [c \in Callers |-> IF c \in Calling THEN [call[c] EXCEPT !.age = @ + 1] ELSE NoCall]
  /\ left' = IF left = 0 THEN 0 ELSE left - 1
  /\ UNCHANGED <<up, failures, tripped, spent>>

BreakerNext ==
  \/ \E c \in Callers : asks(c) \/ Answered(c) \/ Failed(c)
  \/ ServiceChanges \/ BreakerTick

(* Requests come in, answers arrive and time passes.                       *)
BreakerSpec ==
  /\ BreakerInit /\ [][BreakerNext]_breakerVars
  /\ \A c \in Callers : WF_breakerVars(asks(c)) /\ WF_breakerVars(Answered(c))
  /\ WF_breakerVars(BreakerTick)
-----------------------------------------------------------------------------
BreakerTypeOK ==
  /\ up \in BOOLEAN /\ tripped \in BOOLEAN
  /\ failures \in 0..(Threshold - 1) /\ left \in 0..OpenFor /\ spent \in Nat
  /\ call \in [Callers -> [pc : {"idle", "call", "probe"}, age : 0..Timeout]]

(* One call at a time tries whether the service is back, however many wait *)
(* for it and however long the probe hangs; and the calls from before the  *)
(* circuit opened have all ended when the probe begins.                    *)
OneProbe == Cardinality(Probing) <= 1

(* A service that answers nothing is asked in vain by as many calls as the *)
(* threshold and the calls under way allow, however long it is down.       *)
DeadServiceIsSpared == spent <= Threshold - 1 + Cardinality(Callers)

(* Once the service answers again and no call fails any more, the circuit  *)
(* closes for good, as long as requests come in and time goes on.          *)
RecoversForGood ==
  /\ <>[]up
  /\ <>[][\A c \in Callers : ~Failed(c)]_breakerVars
  => <>[]~tripped

(* The circuit spares a service that is down, and lets one call at a time  *)
(* find out.                                                               *)
BreakerInv == BreakerTypeOK /\ OneProbe /\ DeadServiceIsSpared
=============================================================================
