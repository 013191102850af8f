--------------------------- MODULE BookingScreens ---------------------------
(***************************************************************************)
(* One visit as its two parties see it: the screens of the web and of the  *)
(* mobile application, which mirror the transition map, and the commands   *)
(* of the API behind them.  A screen shows the status it has read last; a  *)
(* command may be delayed or arrive although its sender has given it up,   *)
(* its answer may be lost, and who repeats a command sends its key again.  *)
(***************************************************************************)
EXTENDS BookingStates, Naturals, FiniteSets

CONSTANTS
  MaxDetours,  \* bound: cancellations, disputes, reviews, safety holds, and
               \* requests and answers that the network loses or delays
  NoKey

Parties == {"CUSTOMER", "PROVIDER"}
CardsOf(u) ==
  IF u = "CUSTOMER" THEN {"pay", "confirm", "review", "cancel", "dispute"}
  ELSE {"accept", "decline", "next", "cancel", "dispute"}
Whims == {"review", "decline", "cancel", "dispute"}

VARIABLES
  visit,     \* bookings.status
  disputed,  \* is a dispute open?
  reviewed,  \* has the customer reviewed the visit?
  view,      \* the status each screen shows
  key,       \* the idempotency key each card holds, with the server's record of it
  late,      \* requests given up by their senders that may still arrive
  detours    \* how many there have been

screenVars == <<visit, disputed, reviewed, view, key, late, detours>>

(* A key stands for one command: the body it was made for, the body of the *)
(* request that waits for its answer, whether the server has recorded one, *)
(* and how often the command has had an effect (history).                  *)
Targets == BOOKING_STATUSES \cup {"REVIEW"}
Key == [to : Targets, asks : Targets \cup {"none"}, done : BOOLEAN, acts : 0..2]

ASSUME ScreensAssumption == MaxDetours \in Nat /\ NoKey \notin Key

ScreensInit ==
  /\ visit = "PROVIDER_PENDING" /\ disputed = FALSE /\ reviewed = FALSE
  /\ view = [u \in Parties |-> visit]
  /\ key = [u \in Parties |-> [c \in CardsOf(u) |-> NoKey]]
  /\ late = {} /\ detours = 0
-----------------------------------------------------------------------------
(* The screens.                                                            *)
NEXT_STEP == [SCHEDULED |-> "PROVIDER_ARRIVING", PROVIDER_ARRIVING |-> "CHECKED_IN",
              CHECKED_IN |-> "IN_PROGRESS", IN_PROGRESS |-> "CHECKED_OUT"]

DISPUTABLE == {"CHECKED_OUT", "CUSTOMER_CONFIRMED", "COMPLETED"}

customerActions(v) ==
  {<<"pay", "SCHEDULED">> : x \in {v} \cap {"CONFIRMED"}}
    \cup {<<"cancel", "CANCELLED">> : x \in {v} \cap BeforeService}
    \cup {<<"confirm", "CUSTOMER_CONFIRMED">> : x \in {v} \cap {"CHECKED_OUT"}}
    \cup {<<"review", "REVIEW">> : x \in {v} \cap {"COMPLETED", "SETTLED"}}

CANCELLABLE_BY_PARTY == {"CONFIRMED", "PAYMENT_AUTHORIZED", "SCHEDULED", "PROVIDER_ARRIVING"}

(* A refusal of the visit is its cancellation.                             *)
providerActions(v) ==
  {<<"accept", "CONFIRMED">> : x \in {v} \cap {"PROVIDER_PENDING"}}
    \cup {<<"decline", "CANCELLED">> : x \in {v} \cap {"PROVIDER_PENDING"}}
    \cup {<<"next", NEXT_STEP[x]>> : x \in {v} \cap DOMAIN NEXT_STEP}
    \cup {<<"cancel", "CANCELLED">> : x \in {v} \cap CANCELLABLE_BY_PARTY}

(* The cards on a screen that shows the status v, and whether a dispute is *)
(* open; and whether the provider is shown the address.                    *)
Offers(u, v, open) ==
  (IF u = "CUSTOMER" THEN customerActions(v) ELSE providerActions(v))
    \cup {<<"dispute", "DISPUTED">> : x \in {v} \cap (IF open THEN {} ELSE DISPUTABLE)}
ADDRESS_VISIBLE == {"SCHEDULED", "PROVIDER_ARRIVING", "CHECKED_IN", "IN_PROGRESS", "CHECKED_OUT"}

(* A card that has gone takes its key with it, but the card of the disputes*)
(* stays as long as it has one to list.                                    *)
Kept(u, c, k, v) ==
  IF (\E o \in Offers(u, v, FALSE) : o[1] = c) \/ (c = "dispute" /\ k # NoKey /\ k.acts > 0)
  THEN k ELSE NoKey
-----------------------------------------------------------------------------
(* The API.                                                                *)
PROVIDER_ADDRESS_STATUSES ==
  {"SCHEDULED", "PROVIDER_ARRIVING", "CHECKED_IN", "IN_PROGRESS", "CHECKED_OUT"}

DISPUTABLE_STATUSES ==
  {"CHECKED_IN", "IN_PROGRESS", "CHECKED_OUT", "CUSTOMER_CONFIRMED", "COMPLETED",
   "SAFETY_HOLD", "DISPUTED"}

AFTER_CUSTOMER_CONFIRMATION == {"COMPLETED", "SETTLED"}

(* A command leads to one of the outcomes: none of them when it is refused.*)
Now == <<visit, disputed, reviewed>>

(* To be where one wants to go is a success.  The customer's confirmation  *)
(* goes on to COMPLETED at once.                                           *)
transition(u, to) ==
  IF visit = to \/ (to = "CUSTOMER_CONFIRMED" /\ visit \in AFTER_CUSTOMER_CONFIRMATION)
  THEN {Now}
  ELSE IF ~TransitionAllowed(visit, to, u) THEN {}
  ELSE {<<IF to = "CUSTOMER_CONFIRMED" THEN "COMPLETED" ELSE to, disputed, reviewed>>}

(* A dispute stops the visit, unless it is stopped already.                *)
open(u) ==
  IF visit \notin DISPUTABLE_STATUSES \/ disputed THEN {}
  ELSE IF visit \in {"DISPUTED", "SAFETY_HOLD"} THEN {<<visit, TRUE, reviewed>>}
  ELSE IF TransitionAllowed(visit, "DISPUTED", u) THEN {<<"DISPUTED", TRUE, reviewed>>} ELSE {}

authorizeForBooking == IF visit = "CONFIRMED" THEN {<<"SCHEDULED", disputed, reviewed>>} ELSE {}

create ==
  IF visit \in {"COMPLETED", "SETTLED"} /\ ~reviewed THEN {<<visit, disputed, TRUE>>} ELSE {}

(* The endpoint behind each card.                                          *)
Outcomes(u, c, to) ==
  CASE c = "pay" -> authorizeForBooking
    [] c = "review" -> create
    [] c = "dispute" -> open(u)
    [] OTHER -> transition(u, to)
-----------------------------------------------------------------------------
(* mutation: a card keeps its key although it now asks for something else  *)
SameKey(k, to) ==
  IF k = NoKey THEN [to |-> to, asks |-> to, done |-> FALSE, acts |-> 0] ELSE [k EXCEPT !.asks = to]

(* The key of a command is that of the attempt before, unless the body has *)
(* changed.                                                                *)
current(k, to) ==
  IF k # NoKey /\ k.to = to THEN [k EXCEPT !.asks = to]
  ELSE [to |-> to, asks |-> to, done |-> FALSE, acts |-> 0]

Waiting(k) == k # NoKey /\ k.asks # "none"

(* What becomes of the requests under way when cards change their keys.    *)
Adrift(keys) ==
  {[l EXCEPT !.live = l.live /\ keys[l.user][l.card] # NoKey /\ keys[l.user][l.card].to = l.to] :
     l \in late}

(* The user presses a button of the screen, one at a time (a bound).       *)
Presses(u, c) ==
  /\ \A d \in CardsOf(u) : ~Waiting(key[u][d])
  /\ \E o \in Offers(u, view[u], disputed) :
       /\ o[1] = c
       /\ key' = [key EXCEPT ![u][c] = current(@, o[2])]
       /\ detours' = IF c \in Whims /\ key[u][c] = NoKey THEN detours + 1 ELSE detours
  /\ detours' <= MaxDetours
  /\ late' = Adrift(key')
  /\ UNCHANGED <<visit, disputed, reviewed, view>>

(* A screen is read again: when it is opened, after a command, or by hand. *)
Refreshes(u) ==
  /\ view[u] # visit
  /\ view' = [view EXCEPT ![u] = visit]
  /\ key' = [key EXCEPT ![u] = [c \in CardsOf(u) |->
               IF Waiting(key[u][c]) THEN key[u][c] ELSE Kept(u, c, key[u][c], visit)]]
  /\ late' = Adrift(key')
  /\ UNCHANGED <<visit, disputed, reviewed, detours>>

Settles(now) == visit' = now[1] /\ disputed' = now[2] /\ reviewed' = now[3]

Effect(now) == IF now = Now THEN 0 ELSE 1

(* mutation: a card forgets its key when its command fails                 *)
ForgetsKey(u, c, k, d, a) ==
  Kept(u, c, [k EXCEPT !.asks = "none", !.done = FALSE, !.acts = @ + a], view[u])

(* After an error the card keeps its key for the next attempt.  A key that *)
(* the server does not know and will not hear of is as good as a new one.  *)
KeyAfterError(u, c, k, d, a) ==
  IF ~d /\ [user |-> u, card |-> c, to |-> k.to, live |-> TRUE] \notin late THEN NoKey
  ELSE Kept(u, c, [k EXCEPT !.asks = "none", !.done = d, !.acts = @ + a], view[u])

(* What the server makes of a request: it repeats what it has recorded for *)
(* the key, refuses the key for another body, or executes the command.     *)
Results(u, c, k) ==
  IF ~k.done THEN Outcomes(u, c, k.asks) ELSE IF k.asks = k.to THEN {Now} ELSE {}

(* The server answers.  The answer may be lost; a success lets the card    *)
(* drop its key, and its screen shows the answer or is read again later.   *)
(* Other requests with a key that is known now have no effect any more.    *)
Serves(u, c) ==
  /\ Waiting(key[u][c])
  /\ LET k == key[u][c] IN
     \/ /\ Results(u, c, k) = {}
        /\ key' = [key EXCEPT ![u][c] = KeyAfterError(u, c, k, k.done, 0)]
        /\ late' = Adrift(key')
        /\ UNCHANGED <<visit, disputed, reviewed, view, detours>>
     \/ \E now \in Results(u, c, k) :
          /\ Settles(now)
          /\ late' = {l \in late : ~(l.live /\ l.user = u /\ l.card = c)}
          /\ \/ /\ key' = [key EXCEPT ![u][c] = NoKey]
                /\ view' \in {view, [view EXCEPT ![u] = now[1]]}
                /\ UNCHANGED detours
             \/ /\ detours < MaxDetours /\ detours' = detours + 1
                /\ key' = [key EXCEPT ![u][c] = KeyAfterError(u, c, k, TRUE, Effect(now))]
                /\ UNCHANGED view

(* A request is given up and still on its way.                             *)
GivesUp(u, c) ==
  /\ Waiting(key[u][c]) /\ detours < MaxDetours
  /\ detours' = detours + 1
  /\ key' = [key EXCEPT ![u][c] = Kept(u, c, [@ EXCEPT !.asks = "none"], view[u])]
  /\ late' = LET k == key[u][c] IN
       Adrift(key') \cup (IF k.done THEN {} ELSE
         {[user |-> u, card |-> c, to |-> k.asks, live |-> key'[u][c] # NoKey]})
  /\ UNCHANGED <<visit, disputed, reviewed, view>>

(* A request that was given up arrives after all; nobody reads its answer. *)
Arrives(l) ==
  /\ late' = late \ {l}
  /\ \/ Outcomes(l.user, l.card, l.to) = {} /\ UNCHANGED <<visit, disputed, reviewed, key>>
     \/ \E now \in Outcomes(l.user, l.card, l.to) :
          /\ Settles(now)
          /\ key' = IF l.live THEN [key EXCEPT ![l.user][l.card].done = TRUE,
                                               ![l.user][l.card].acts = @ + Effect(now)]
                    ELSE key
  /\ UNCHANGED <<view, detours>>
-----------------------------------------------------------------------------
(* Those who act on the visit from elsewhere: the release of the payment,  *)
(* the safety engine, and operators.                                       *)
Releases ==
  /\ visit = "COMPLETED" /\ ~disputed
  /\ visit' = "SETTLED"
  /\ UNCHANGED <<disputed, reviewed, view, key, late, detours>>

HoldsForSafety ==
  /\ TransitionAllowed(visit, "SAFETY_HOLD", "SYSTEM") /\ detours < MaxDetours
  /\ visit' = "SAFETY_HOLD" /\ detours' = detours + 1
  /\ UNCHANGED <<disputed, reviewed, view, key, late>>

Resumes ==
  /\ visit = "SAFETY_HOLD"
  /\ visit' \in {"IN_PROGRESS", "CANCELLED"}
  /\ UNCHANGED <<disputed, reviewed, view, key, late, detours>>

resolve ==
  /\ disputed
  /\ disputed' = FALSE
  /\ IF visit = "DISPUTED" THEN visit' \in {"CANCELLED", "COMPLETED"} ELSE UNCHANGED visit
  /\ UNCHANGED <<reviewed, view, key, late, detours>>

Elsewhere == Releases \/ HoldsForSafety \/ Resumes \/ resolve

ScreensNext ==
  \/ \E u \in Parties : Refreshes(u)
  \/ \E u \in Parties : \E c \in CardsOf(u) : Presses(u, c) \/ Serves(u, c) \/ GivesUp(u, c)
  \/ \E l \in late : Arrives(l)
  \/ Elsewhere

GoesOn(u) ==
  \/ \E c \in CardsOf(u) \ Whims : Presses(u, c)
  \/ \E c \in CardsOf(u) : Serves(u, c)
Decides == Resumes \/ resolve

(* The parties go on with what their screens offer, screens are read again,*)
(* requests that are not given up are served, and operators decide.        *)
ScreensSpec ==
  /\ ScreensInit /\ [][ScreensNext]_screenVars
  /\ \A u \in Parties : WF_screenVars(Refreshes(u)) /\ WF_screenVars(GoesOn(u))
  /\ WF_screenVars(Decides)
-----------------------------------------------------------------------------
ScreensTypeOK ==
  /\ visit \in BOOKING_STATUSES /\ disputed \in BOOLEAN /\ reviewed \in BOOLEAN
  /\ view \in [Parties -> BOOKING_STATUSES]
  /\ \A u \in Parties : \A c \in CardsOf(u) : key[u][c] \in Key \cup {NoKey}
  /\ \A l \in late : l.user \in Parties /\ l.card \in CardsOf(l.user) /\ l.to \in Targets
                      /\ l.live \in BOOLEAN

(* The applications mirror the transition map and the server's lists in    *)
(* tables of their own: whatever a screen that is up to date offers, the   *)
(* server accepts (a second review is answered with thanks), and the       *)
(* address is shown exactly while the server gives it away.                *)
FreshOfferIsAccepted ==
  /\ \A u \in Parties : \A o \in Offers(u, visit, disputed) :
       Outcomes(u, o[1], o[2]) # {} \/ (o[1] = "review" /\ reviewed)
  /\ visit \in ADDRESS_VISIBLE <=> visit \in PROVIDER_ADDRESS_STATUSES

(* However late or often a command arrives, and however old the screen it  *)
(* was sent from: the visit only goes where a screen that is up to date    *)
(* would let one of the parties go, or where payment, safety or an operator*)
(* takes it.                                                               *)
LateCommandsActInTurn ==
  [][visit' # visit =>
       \/ \E u \in Parties : \E o \in Offers(u, visit, disputed) :
            visit' = IF o[2] = "CUSTOMER_CONFIRMED" THEN "COMPLETED" ELSE o[2]
       \/ Elsewhere]_screenVars

(* A command that is repeated because its answer was lost has its effect   *)
(* once, also where the visit was held, resumed or decided upon in between *)
(* so that the effect would be possible again.                             *)
OnceForOnePress ==
  [][\A u \in Parties : \A c \in CardsOf(u) :
       Waiting(key[u][c]) /\ key[u][c].acts > 0 /\ ~Waiting(key'[u][c])
         => UNCHANGED Now]_screenVars

(* In every state of the screens and of the visit, what the screens offer  *)
(* is accepted.                                                            *)
ScreensInv == ScreensTypeOK /\ FreshOfferIsAccepted

(* Commands of the two parties cross, come late and are repeated: what is  *)
(* offered on a screen that is up to date is accepted, and each command    *)
(* acts once and in turn.                                                  *)
CommandsActInTurn == []ScreensInv /\ OnceForOnePress /\ LateCommandsActInTurn
=============================================================================
