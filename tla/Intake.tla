------------------------------- MODULE Intake -------------------------------
(***************************************************************************)
(* A request for a service, written as text or filled in as a form.  The   *)
(* text goes to the language service, whose answer is not trusted; until it*)
(* comes, the customer may archive the address and the catalogue may drop  *)
(* the service.  Times are minutes since the midnight of the service date. *)
(***************************************************************************)
EXTENDS Integers

CONSTANTS
  Answers,        \* bound: what the language service may send
  Forms,          \* bound: what customers may fill in
  Rates,          \* bound: what the service costs, in kurus
  MinConfidence,  \* in hundredths, for a request to be stored
  NoRecord

(* A form is validated where it comes in, and nobody doubts what it says.  *)
ASSUME IntakeAssumption ==
  /\ MinConfidence \in 0..100 /\ Rates \subseteq Nat
  /\ Answers \subseteq [parsed : BOOLEAN, confidence : Int, minutes : Int, start : Int, end : Int]
  /\ Forms \subseteq [from : Int, to : Int, minutes : 30..1440, confidence : {100}]

VARIABLES
  owned,     \* is the address the customer's, and not archived?
  offered,   \* are the service and its category active?
  pricing,   \* pricing_model of the service
  rate,      \* its hourly_rate_minor, or its base_price_minor when the price is fixed
  asking,    \* is an answer awaited?
  stored     \* the request in the database
intakeVars == <<owned, offered, pricing, rate, asking, stored>>

IntakeInit ==
  /\ owned = TRUE /\ offered = TRUE /\ pricing \in {"HOURLY", "FIXED"} /\ rate \in Rates
  /\ asking = FALSE /\ stored = NoRecord
-----------------------------------------------------------------------------
Hour(m) == m % 60 = 0 /\ m \in 0..1440

(* toRequest, toTimeWindow: what is out of range is no request, or one that*)
(* has no window.                                                          *)
Understood(a) == a.minutes \in 30..1440
Windowed(a) == a.start >= 0 /\ a.end <= 1440 /\ a.end > a.start

(* mutation: the window stays as short as it was said to be                *)
AsSaid(a) == [from |-> a.start, to |-> a.end, minutes |-> a.minutes, confidence |-> a.confidence]

(* A window that is too short for the job is made longer, beyond midnight  *)
(* if need be.                                                             *)
resolveWindow(a) ==
  [from |-> a.start,
   to |-> IF a.end - a.start < a.minutes THEN a.start + a.minutes ELSE a.end,
   minutes |-> a.minutes, confidence |-> a.confidence]

(* Only an answer that is complete and sure enough becomes a request.  With*)
(* any other the customer is asked, and with none fills in the form.       *)
Sure(a) ==
  /\ a.parsed /\ a.confidence \in 0..100 /\ Understood(a)
  /\ a.confidence >= MinConfidence
  /\ Windowed(a) /\ Hour(a.start) /\ Hour(a.end)

createFromText ==
  /\ stored = NoRecord /\ ~asking /\ owned
  /\ asking' = TRUE
  /\ UNCHANGED <<owned, offered, pricing, rate, stored>>

(* The address has been checked before the text was sent, and is not again.*)
Parsed(a) ==
  /\ asking
  /\ asking' = FALSE
  /\ stored' = IF Sure(a) /\ offered THEN resolveWindow(a) ELSE stored
  /\ UNCHANGED <<owned, offered, pricing, rate>>

(* A timeout, a broken connection or an answer outside the contract.       *)
Unavailable ==
  /\ asking
  /\ asking' = FALSE
  /\ UNCHANGED <<owned, offered, pricing, rate, stored>>

createFromForm(f) ==
  /\ stored = NoRecord /\ ~asking /\ owned /\ offered
  /\ f.to > f.from /\ f.to - f.from >= f.minutes
  /\ stored' = f
  /\ UNCHANGED <<owned, offered, pricing, rate, asking>>

archiveAddress ==
  /\ owned /\ owned' = FALSE
  /\ UNCHANGED <<offered, pricing, rate, asking, stored>>

Deactivated ==
  /\ offered /\ offered' = FALSE
  /\ UNCHANGED <<owned, pricing, rate, asking, stored>>

IntakeNext ==
  \/ createFromText \/ Unavailable \/ archiveAddress \/ Deactivated
  \/ \E a \in Answers : Parsed(a)
  \/ \E f \in Forms : createFromForm(f)

IntakeSpec == IntakeInit /\ [][IntakeNext]_intakeVars
-----------------------------------------------------------------------------
(* In kurus, by the minute and rounded up, or fixed.                       *)
priceFor(minutes) == IF pricing = "FIXED" THEN rate ELSE (rate * minutes + 59) \div 60

(* A stored request is one that matching does not refuse for its doubts and*)
(* whose window, as it was said or as it had to be made, holds the job.    *)
StoredIsMatchable ==
  stored # NoRecord =>
    /\ stored.confidence >= MinConfidence
    /\ stored.minutes > 0 /\ stored.to - stored.from >= stored.minutes

(* A job that is paid by the hour costs no less than its time, and no job  *)
(* gets cheaper when it is split into two bookings.                        *)
PriceCoversTime ==
  stored # NoRecord =>
    /\ pricing = "HOURLY" => 60 * priceFor(stored.minutes) >= rate * stored.minutes
    /\ \A part \in 1..(stored.minutes - 1) :
         priceFor(part) + priceFor(stored.minutes - part) >= priceFor(stored.minutes)

(* Whatever the service answers, what is stored can be matched, and its    *)
(* price is fair to the length of the job.                                 *)
IntakeInv == StoredIsMatchable /\ PriceCoversTime
=============================================================================
