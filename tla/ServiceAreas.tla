----------------------------- MODULE ServiceAreas ----------------------------
(* The service areas of one provider: the form of the web and of the phone *)
(* (ServiceAreasScreen.tsx, profile_screens.dart), the transactions that   *)
(* add and remove areas (providers.service.ts) and the trigger that limits *)
(* them (20260921100000_matching.js).                                      *)
(*                                                                         *)
(* Abstracted: where an area lies.  That the web shows no form at the      *)
(* limit keeps requests from being sent that the server would refuse.      *)
EXTENDS Integers, FiniteSets

CONSTANTS
  AreaForms, \* the forms open on the provider's devices
  MaxAreas,  \* the trigger's limit
  MaxWishes, \* how many areas the provider asks for
  MaxLost,   \* how many answers are lost
  NoArea     \* no transaction

ASSUME AreasAssumption ==
  /\ IsFiniteSet(AreaForms) /\ MaxAreas \in Nat \ {0} /\ MaxWishes \in Nat
  /\ NoArea \notin Nat

VARIABLES
  areas,     \* provider_service_areas: the wish that each row came from
  adding,    \* per form: the row its open transaction has inserted
  wish,      \* per form: the area it describes, 0 when it is empty
  wishes,    \* how many areas were asked for
  lostWishes \* ghost: the areas whose answer was lost

areaVars == <<areas, adding, wish, wishes, lostWishes>>

(* There are no areas, and the forms are empty.                            *)
AreasInit ==
  /\ areas = {} /\ wishes = 0 /\ lostWishes = {}
  /\ adding = [f \in AreaForms |-> NoArea] /\ wish = [f \in AreaForms |-> 0]

(* The form describes an area.                                             *)
Describes(f) ==
  /\ wish[f] = 0 /\ wishes < MaxWishes
  /\ wishes' = wishes + 1 /\ wish' = [wish EXCEPT ![f] = wishes + 1]
  /\ UNCHANGED <<areas, adding, lostWishes>>

(* The trigger counts the areas it can see, the committed ones, before it  *)
(* lets another one in.  Nothing locks the provider.                       *)
addServiceArea(f) ==
  /\ wish[f] # 0 /\ adding[f] = NoArea /\ Cardinality(areas) < MaxAreas
  /\ adding' = [adding EXCEPT ![f] = wish[f]]
  /\ UNCHANGED <<areas, wish, wishes, lostWishes>>

(* The committed row, with an id that no row for this wish has.            *)
WithArea(f) ==
  LET known(i) == [id |-> i, wish |-> adding[f]] \in areas
  IN areas \union {[id |-> CHOOSE i \in 0..Cardinality(areas) : ~known(i), wish |-> adding[f]]}

(* mutation: the form stays filled in after an answer.                     *)
StaysFilled(f) ==
  /\ adding[f] # NoArea
  /\ areas' = WithArea(f) /\ adding' = [adding EXCEPT ![f] = NoArea]
  /\ UNCHANGED <<wish, wishes, lostWishes>>

(* The area is committed.  The form is emptied when the answer arrives; it *)
(* sends no key, and keeps its content when the answer is lost.            *)
AreaAdded(f) ==
  /\ adding[f] # NoArea
  /\ areas' = WithArea(f) /\ adding' = [adding EXCEPT ![f] = NoArea]
  /\ \/ wish' = [wish EXCEPT ![f] = 0] /\ UNCHANGED lostWishes
     \/ /\ Cardinality(lostWishes) < MaxLost
        /\ lostWishes' = lostWishes \union {adding[f]} /\ UNCHANGED wish
  /\ UNCHANGED wishes

(* An area is removed.                                                     *)
removeServiceArea(r) ==
  /\ areas' = areas \ {r}
  /\ UNCHANGED <<adding, wish, wishes, lostWishes>>

(* One step of a form or of the server.                                    *)
AreasNext ==
  \/ \E f \in AreaForms : Describes(f) \/ addServiceArea(f) \/ AreaAdded(f)
  \/ \E r \in areas : removeServiceArea(r)
-----------------------------------------------------------------------------
(* The limit of areas holds up to a race: the trigger does not see rows    *)
(* that are not committed, so as many as are added at once, and no more,   *)
(* may pass it together.                                                   *)
AreasUnlessRaced == Cardinality(areas) < MaxAreas + Cardinality(AreaForms)

(* The provider finds an area twice only when the answer to the first      *)
(* request was lost: nothing else makes a form be sent again.              *)
TwinsAreExcused ==
  \A r, q \in areas : r.wish = q.wish /\ r.wish \notin lostWishes => r = q

(* Neither the limit of areas nor their being different is broken by       *)
(* anything but the race and the lost answer that are named.               *)
AreasInv == AreasUnlessRaced /\ TwinsAreExcused
=============================================================================
