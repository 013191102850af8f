------------------------------ MODULE Onboarding -----------------------------
(* How a provider comes to be approved: the profile and its state          *)
(* (providers.service.ts, state/provider-transitions.ts), the screens that *)
(* an application leaves (ProviderHome.tsx, provider_home.dart) and the    *)
(* panel the operators decide with (ProvidersScreen.tsx, ActionPanel.tsx). *)
(*                                                                         *)
(* One provider.  Abstracted: what a profile says, and skills, which no    *)
(* operation of the code verifies.  A command with a key acts once         *)
(* (Idempotency models how).  That a screen shows its button only in some  *)
(* states keeps requests from being sent that the server would refuse.     *)
EXTENDS Integers, FiniteSets

CONSTANTS
  Sessions,   \* the provider's open apps
  Admins,     \* the operators
  Needed,     \* what an application needs: services, areas, windows ahead
  MaxPresses, \* how many decisions the operators take
  MaxAstray,  \* how many answers to them are lost
  MaxChanges, \* how often something needed comes or goes
  Unset       \* no transaction, no press

ASSUME OnboardingAssumption == Sessions \cap Admins = {} /\ MaxPresses \in Nat

VARIABLES
  approval,   \* provider_profiles.state, or "NONE" before the profile exists
  present,    \* what the provider has of what is needed
  changes,    \* how often that changed
  glance,     \* per session: what its screens show of it
  gone,       \* ghost: what went away since a session last read it
  deciding,   \* per user: the transition its open transaction has read
  desk,       \* per operator: the state its queue shows
  press,      \* per operator: the panel it has confirmed, with its key
  pressed,    \* how many panels were confirmed
  keyed,      \* the keys with a stored answer
  acts,       \* ghost: how often each press changed the state
  astray      \* how many answers were lost

onboardingVars ==
  <<approval, present, changes, glance, gone, deciding, desk, press, pressed, keyed, acts, astray>>

readinessVars == <<present, changes, glance, gone>>

(* The transitions, and who may make them.                                 *)
Transitions == {<<"DRAFT", "PENDING_REVIEW", "PROVIDER">>, <<"PENDING_REVIEW", "APPROVED", "ADMIN">>,
                <<"PENDING_REVIEW", "REJECTED", "ADMIN">>, <<"REJECTED", "PENDING_REVIEW", "PROVIDER">>,
                <<"APPROVED", "SUSPENDED", "ADMIN">>, <<"SUSPENDED", "APPROVED", "ADMIN">>}

(* The buttons that a queue shows: approve and reject for an application,  *)
(* suspend for an approved provider, reinstate for a suspended one.        *)
Buttons(shown) == {t[2] : t \in {u \in Transitions : u[1] = shown /\ u[3] = "ADMIN"}}

(* There is no profile.                                                    *)
OnboardingInit ==
  /\ approval = "NONE" /\ present = {} /\ changes = 0
  /\ glance = [s \in Sessions |-> {}] /\ gone = [s \in Sessions |-> {}]
  /\ deciding = [x \in Sessions \union Admins |-> Unset]
  /\ desk = [a \in Admins |-> "NONE"] /\ press = [a \in Admins |-> Unset] /\ pressed = 0
  /\ keyed = {} /\ acts = [p \in 1 .. MaxPresses |-> 0] /\ astray = 0
-----------------------------------------------------------------------------
(* The profile is created as a draft; a second request meets its row.      *)
createProvider ==
  /\ approval = "NONE" /\ approval' = "DRAFT"
  /\ UNCHANGED <<readinessVars, deciding, desk, press, pressed, keyed, acts, astray>>

(* A service, an area or a window is added, or the last one removed.       *)
addService(i) ==
  /\ approval # "NONE" /\ changes < MaxChanges
  /\ changes' = changes + 1
  /\ present' = IF i \in present THEN present \ {i} ELSE present \union {i}
  /\ gone' = [s \in Sessions |-> IF i \in present THEN gone[s] \union {i} ELSE gone[s]]
  /\ UNCHANGED <<approval, glance, deciding, desk, press, pressed, keyed, acts, astray>>

(* A screen reads one of the lists, each in a query of its own.            *)
Rereads(s, i) ==
  /\ glance' = [glance EXCEPT ![s] = IF i \in present THEN @ \union {i} ELSE @ \ {i}]
  /\ gone' = [gone EXCEPT ![s] = @ \ {i}]
  /\ UNCHANGED <<approval, present, changes, deciding, desk, press, pressed, keyed, acts, astray>>

(* A transition locks the row, reads its state and finds its rule.         *)
applyTransition(x, to, actor) ==
  /\ \A y \in Sessions \union Admins : deciding[y] = Unset
  /\ <<approval, to, actor>> \in Transitions
  /\ deciding' = [deciding EXCEPT ![x] = [from |-> approval, to |-> to]]

(* The screens let an application go when nothing is shown as missing.     *)
canSubmitApplication(seen) == seen = Needed

(* The application is sent; the server asks for no more than its state.    *)
submitForReview(s) ==
  /\ canSubmitApplication(glance[s])
  /\ applyTransition(s, "PENDING_REVIEW", "PROVIDER")
  /\ UNCHANGED <<approval, readinessVars, desk, press, pressed, keyed, acts, astray>>

(* The state of the application is written.                                *)
Submitted(s) ==
  /\ deciding[s] # Unset
  /\ approval' = deciding[s].to /\ deciding' = [deciding EXCEPT ![s] = Unset]
  /\ UNCHANGED <<readinessVars, desk, press, pressed, keyed, acts, astray>>
-----------------------------------------------------------------------------
(* An operator looks at the queue.                                         *)
queue(a) ==
  /\ press[a] = Unset /\ desk' = [desk EXCEPT ![a] = approval]
  /\ UNCHANGED <<approval, readinessVars, deciding, press, pressed, keyed, acts, astray>>

(* An operator confirms a button that its queue shows; the panel has made  *)
(* a key.                                                                  *)
Confirms(a, to) ==
  /\ press[a] = Unset /\ pressed < MaxPresses
  /\ pressed' = pressed + 1
  /\ press' = [press EXCEPT ![a] = [n |-> pressed + 1, key |-> <<pressed + 1, 0>>, to |-> to]]
  /\ UNCHANGED <<approval, readinessVars, deciding, desk, keyed, acts, astray>>

(* The request is taken up, unless its key has an answer; the transition   *)
(* is looked up from the state there is, whatever the queue had shown.     *)
approve(a) ==
  /\ press[a] # Unset /\ press[a].key \notin keyed
  /\ applyTransition(a, press[a].to, "ADMIN")
  /\ UNCHANGED <<approval, readinessVars, desk, press, pressed, keyed, acts, astray>>

(* The key has an answer: it is sent again, the panel closes and the queue *)
(* is read anew.                                                           *)
Replayed(a) ==
  /\ press[a] # Unset /\ deciding[a] = Unset /\ press[a].key \in keyed
  /\ press' = [press EXCEPT ![a] = Unset] /\ desk' = [desk EXCEPT ![a] = approval]
  /\ UNCHANGED <<approval, readinessVars, deciding, pressed, keyed, acts, astray>>

(* The operator closes the panel, after an error or before any answer; the *)
(* queue stays as it was read.                                             *)
PanelCloses(a) ==
  /\ press[a] # Unset /\ deciding[a] = Unset
  /\ press' = [press EXCEPT ![a] = Unset]
  /\ UNCHANGED <<approval, readinessVars, deciding, desk, pressed, keyed, acts, astray>>

(* mutation: after an error the panel makes a new key.                     *)
Rotates(key) == <<key[1], key[2] + 1>>

(* After an answer that did not arrive the panel is locked: it can only    *)
(* send the same request with the same key.                                *)
KeyAfterError(key) == key

(* The decision is written, with the answer to its key.  The answer        *)
(* arrives, or is lost.                                                    *)
Decided(a) ==
  /\ deciding[a] # Unset
  /\ approval' = deciding[a].to /\ deciding' = [deciding EXCEPT ![a] = Unset]
  /\ keyed' = keyed \union {press[a].key}
  /\ acts' = [acts EXCEPT ![press[a].n] = @ + 1]
  /\ \/ press' = [press EXCEPT ![a] = Unset] /\ desk' = [desk EXCEPT ![a] = deciding[a].to]
        /\ UNCHANGED astray
     \/ /\ astray < MaxAstray /\ astray' = astray + 1
        /\ press' = [press EXCEPT ![a].key = KeyAfterError(@)] /\ UNCHANGED desk
  /\ UNCHANGED <<readinessVars, pressed>>

(* One step of the provider's apps, an operator or the server.             *)
OnboardingNext ==
  \/ createProvider \/ \E i \in Needed : addService(i)
  \/ \E s \in Sessions : submitForReview(s) \/ Submitted(s) \/ \E i \in Needed : Rereads(s, i)
  \/ \E a \in Admins : \/ queue(a) \/ approve(a) \/ Replayed(a) \/ PanelCloses(a)
                       \/ Decided(a) \/ \E to \in Buttons(desk[a]) : Confirms(a, to)
-----------------------------------------------------------------------------
(* A transition is written on the state it was decided on: of two          *)
(* operators, or an operator and an application sent again, the later one  *)
(* is held to what the earlier one left.                                   *)
DecidedOnWhatIs ==
  \A x \in Sessions \union Admins : deciding[x] # Unset => deciding[x].from = approval

(* A confirmation acts once, however often its request is sent: to send an *)
(* approval again cannot lift the suspension that followed it.             *)
OneActPerPress == \A p \in 1 .. MaxPresses : acts[p] <= 1

(* The server does not look at what an application needs, the screens do:  *)
(* what is missing when one is submitted has gone away since its screen    *)
(* read it.                                                                *)
SubmittedWhole ==
  [][\A s \in Sessions : deciding[s] = Unset /\ deciding'[s] # Unset =>
       Needed \ present \subseteq gone[s]]_onboardingVars

(* A decision about a provider is taken on what is there, once, and on a   *)
(* whole application, although requests and screens cross.                 *)
DecisionsAreSound == [](DecidedOnWhatIs /\ OneActPerPress) /\ SubmittedWhole
=============================================================================
