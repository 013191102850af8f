------------------------------- MODULE Identity -------------------------------
(***************************************************************************)
(* Accounts, sign-in subjects and verified identities of services/api:     *)
(* registration (users/users.service.ts), verification attempts and the    *)
(* provider's callbacks, and the recovery of an account by somebody who    *)
(* proves the identity it is registered under (identity.service.ts).       *)
(*                                                                         *)
(* The guard that resolves a token to an account, the transaction that     *)
(* reads, and the transaction that commits are separate steps: the code    *)
(* locks the attempt of a callback and the recovery request of a decision, *)
(* and nothing else, so an account may change under its feet.  A person    *)
(* stands for the hash of a national identity number.                      *)
(***************************************************************************)
EXTENDS Naturals, Sequences, SequencesExt

CONSTANTS
  Accounts,        \* rows the users table may come to hold
  Registered,      \* those registered in the first state
  Staff,           \* accounts whose role lets them decide recovery requests
  Subjects,        \* sign-in subjects of the token issuer
  FirstSubject,    \* the subject each registered account signs in with
  Persons,         \* people the verification provider can recognise
  Callers,         \* requests the API serves at one time
  MaxTries,        \* bound: verification attempts of the whole run
  TryLimit,        \* VERIFICATION_MAX_ATTEMPTS of one account
  Nobody           \* no account, no person

ASSUME IdentityAssumption ==
  /\ Registered \subseteq Accounts /\ Staff \subseteq Registered
  /\ FirstSubject \in [Registered -> Subjects]
  /\ \A u, v \in Registered : FirstSubject[u] = FirstSubject[v] => u = v
  /\ MaxTries \in Nat /\ TryLimit \in Nat
  /\ Nobody \notin Accounts \cup Persons

VARIABLES
  account,     \* users.status: FREE for a row not yet inserted
  subject,     \* auth_subjects: owner and status of each subject
  profile,     \* accounts with a customer or a provider profile
  person,      \* identity_records: the person an account is verified as
  tries,       \* verification_attempts, in the order they were started
  recovery,    \* account_recovery_requests
  caller,      \* what each request has read and is about to write
  shown,       \* history: <<account, person>> proved well enough for recovery
  held         \* history: <<person, account>> ever written to identity_records

identityVars == <<account, subject, profile, person, tries, recovery, caller, shown, held>>

Purposes == {"ACCOUNT_VERIFICATION", "ACCOUNT_RECOVERY"}
Unlinked == [user |-> Nobody, status |-> "UNKNOWN"]
AtRest == [at |-> "IDLE"]

\* The subjects an account can be entered with (auth_subjects.status = 'ACTIVE').
LiveSubjects(u) == {s \in Subjects : subject[s] = [user |-> u, status |-> "ACTIVE"]}

\* hasOwnData: a profile, or an identity of its own.
HasOwnData(u) == u \in profile \/ person[u] # Nobody

\* findUserIdByHash: the account registered under a person.
HashOwner(p) == IF \E u \in Accounts : person[u] = p
                THEN CHOOSE u \in Accounts : person[u] = p
                ELSE Nobody

Frees(c) == caller' = [caller EXCEPT ![c] = AtRest]
Goes(c, call) == caller' = [caller EXCEPT ![c] = call]

IdentityTypeOK ==
  /\ account \in [Accounts -> {"FREE", "ACTIVE", "DELETED"}]
  /\ subject \in [Subjects -> [user : Accounts \cup {Nobody},
                               status : {"UNKNOWN", "ACTIVE", "REVOKED"}]]
  /\ profile \subseteq Accounts
  /\ person \in [Accounts -> Persons \cup {Nobody}]
  /\ \A i \in DOMAIN tries :
       tries[i] \in [user : Accounts, purpose : Purposes,
                     status : {"PENDING", "VERIFIED", "REJECTED", "EXPIRED"}]
  /\ \A r \in recovery :
       r \in [try : 1..MaxTries, requester : Accounts, target : Accounts,
              status : {"PENDING_REVIEW", "APPROVED", "REJECTED"},
              by : Accounts \cup {Nobody}]

IdentityInit ==
  /\ account = [u \in Accounts |-> IF u \in Registered THEN "ACTIVE" ELSE "FREE"]
  /\ subject = [s \in Subjects |->
                 IF \E u \in Registered : FirstSubject[u] = s
                 THEN [user |-> CHOOSE u \in Registered : FirstSubject[u] = s,
                       status |-> "ACTIVE"]
                 ELSE Unlinked]
  /\ profile = {} /\ recovery = {} /\ shown = {} /\ held = {}
  /\ person = [u \in Accounts |-> Nobody]
  /\ tries = <<>>
  /\ caller = [c \in Callers |-> AtRest]

\* ensureSession of a subject without an active account.  The row of a revoked
\* subject is still there, so its primary key refuses the registration.
ensureSession(s) ==
  /\ subject[s] = Unlinked
  /\ \E u \in Accounts :
       /\ account[u] = "FREE"
       /\ account' = [account EXCEPT ![u] = "ACTIVE"]
       /\ subject' = [subject EXCEPT ![s] = [user |-> u, status |-> "ACTIVE"]]
  /\ UNCHANGED <<profile, person, tries, recovery, caller, shown, held>>

\* AuthGuard.canActivate: the request goes on as the account it found, whatever
\* becomes of that account meanwhile.
canActivate(c, s) ==
  /\ caller[c] = AtRest
  /\ subject[s].status = "ACTIVE" /\ account[subject[s].user] = "ACTIVE"
  /\ Goes(c, [at |-> "ACTING", as |-> subject[s].user])
  /\ UNCHANGED <<account, subject, profile, person, tries, recovery, shown, held>>

\* CustomersService.create, ProvidersService.create.
createProfile(c) ==
  /\ caller[c].at = "ACTING" /\ caller[c].as \notin profile
  /\ profile' = profile \cup {caller[c].as}
  /\ Frees(c)
  /\ UNCHANGED <<account, subject, person, tries, recovery, shown, held>>

\* startSession up to the call of the provider: the attempts are counted here,
\* outside any lock.
startSession(c, purpose) ==
  /\ caller[c].at = "ACTING"
  /\ ~(person[caller[c].as] # Nobody /\ purpose = "ACCOUNT_VERIFICATION")
  /\ Len(SelectSeq(tries, LAMBDA t : t.user = caller[c].as)) < TryLimit
  /\ Len(tries) < MaxTries
  /\ Goes(c, [at |-> "STARTING", as |-> caller[c].as, purpose |-> purpose])
  /\ UNCHANGED <<account, subject, profile, person, tries, recovery, shown, held>>

\* The provider answered: the attempt is inserted.
createAttempt(c) ==
  /\ caller[c].at = "STARTING" /\ Len(tries) < MaxTries
  /\ tries' = Append(tries, [user |-> caller[c].as, purpose |-> caller[c].purpose,
                             status |-> "PENDING"])
  /\ Frees(c)
  /\ UNCHANGED <<account, subject, profile, person, recovery, shown, held>>

\* The provider is unavailable, or the request is refused or abandoned.
givesUp(c) ==
  /\ caller[c].at \in {"ACTING", "STARTING"}
  /\ Frees(c)
  /\ UNCHANGED <<account, subject, profile, person, tries, recovery, shown, held>>

completeAttempt(i, status) == tries' = [tries EXCEPT ![i].status = status]

Settles(c, i, status) ==
  /\ completeAttempt(i, status) /\ Frees(c)
  /\ UNCHANGED <<account, subject, profile, person, recovery, shown, held>>

\* resolveExistingIdentity up to its writes: the identity proved belongs to
\* another account.
resolveExistingIdentity(c, i, p, high) ==
  IF tries[i].purpose # "ACCOUNT_RECOVERY" \/ ~high \/ HasOwnData(tries[i].user)
  THEN Settles(c, i, "REJECTED")
  ELSE /\ Goes(c, [at |-> "CLAIMING", try |-> i, shows |-> p, high |-> high,
                   target |-> HashOwner(p)])
       /\ UNCHANGED <<account, subject, profile, person, tries, recovery, shown, held>>

\* handleCallback up to its writes.  The attempt's row is locked; one that is no
\* longer pending is answered without a change, so that is no step here.
handleCallback(c, i, p, high) ==
  /\ caller[c] = AtRest /\ tries[i].status = "PENDING"
  /\ \A d \in Callers : caller[d].at \in {"CLAIMING", "VERIFYING"} => caller[d].try # i
  /\ IF HashOwner(p) \notin {Nobody, tries[i].user}
     THEN resolveExistingIdentity(c, i, p, high)
     ELSE /\ Goes(c, [at |-> "VERIFYING", try |-> i, shows |-> p])
          /\ UNCHANGED <<account, subject, profile, person, tries, recovery, shown, held>>

\* handleCallback of a session that expired, or of a refusal by the provider.
refuseCallback(c, i, status) ==
  /\ caller[c] = AtRest /\ tries[i].status = "PENDING" /\ status \in {"EXPIRED", "REJECTED"}
  /\ \A d \in Callers : caller[d].at \in {"CLAIMING", "VERIFYING"} => caller[d].try # i
  /\ Settles(c, i, status)

\* completeVerification: the unique hash refuses a person another account took
\* meanwhile, which rolls the callback back; otherwise the record is written,
\* over the account's own earlier one if it has any.
completeVerification(c) ==
  /\ caller[c].at = "VERIFYING"
  /\ LET u == tries[caller[c].try].user
         p == caller[c].shows
     IN IF HashOwner(p) \notin {Nobody, u}
        THEN UNCHANGED <<person, tries, held>>
        ELSE /\ person' = [person EXCEPT ![u] = p]
             /\ held' = held \cup {<<p, u>>}
             /\ completeAttempt(caller[c].try, "VERIFIED")
  /\ Frees(c)
  /\ UNCHANGED <<account, subject, profile, recovery, shown>>

\* createRecoveryRequest: an account has one pending request at most; a second
\* one is dropped, although its attempt counts as verified.
createRecoveryRequest(c) ==
  /\ caller[c].at = "CLAIMING"
  /\ LET i == caller[c].try
         target == caller[c].target
     IN /\ completeAttempt(i, "VERIFIED")
        /\ recovery' =
             IF \E r \in recovery : r.target = target /\ r.status = "PENDING_REVIEW"
             THEN recovery
             ELSE recovery \cup {[try |-> i, requester |-> tries[i].user, target |-> target,
                                  status |-> "PENDING_REVIEW", by |-> Nobody]}
        /\ shown' = IF caller[c].high THEN shown \cup {<<tries[i].user, caller[c].shows>>}
                    ELSE shown
  /\ Frees(c)
  /\ UNCHANGED <<account, subject, profile, person, held>>

RowsLocked(r) == \E d \in Callers : caller[d].at = "APPROVING" /\ caller[d].request = r

\* decideRecoveryRequest.
decideRecoveryRequest(r, status, actor) ==
  recovery' = (recovery \ {r}) \cup {[r EXCEPT !.status = status, !.by = actor]}

\* approveRecovery up to its writes.  A requester who has come to own data is
\* refused; the rejection written before that exception is rolled back with it.
approveRecovery(c, actor, r) ==
  /\ caller[c] = AtRest /\ r.status = "PENDING_REVIEW" /\ ~RowsLocked(r)
  /\ actor \notin {r.requester, r.target}
  /\ ~HasOwnData(r.requester) /\ LiveSubjects(r.requester) # {}
  /\ Goes(c, [at |-> "APPROVING", as |-> actor, request |-> r,
              moves |-> CHOOSE s \in LiveSubjects(r.requester) : TRUE])
  /\ UNCHANGED <<account, subject, profile, person, tries, recovery, shown, held>>

\* mutation: the subject is moved first and the target's subjects revoked after.
RevokesAfterMove(s, from, to) ==
  [t \in Subjects |->
     IF t = s \/ subject[t] = [user |-> to, status |-> "ACTIVE"]
     THEN [user |-> to, status |-> "REVOKED"]
     ELSE subject[t]]

\* moveAuthSubject: the target's subjects are revoked, the requester's is moved.
moveAuthSubject(s, from, to) ==
  [t \in Subjects |->
     IF t = s THEN [user |-> to, status |-> "ACTIVE"]
     ELSE IF subject[t] = [user |-> to, status |-> "ACTIVE"]
          THEN [user |-> to, status |-> "REVOKED"]
          ELSE subject[t]]

\* The writes of approveRecovery: decision, subject, and the deletion of the
\* shell.  A subject no longer the requester's rolls everything back.
recoverAccount(c) ==
  /\ caller[c].at = "APPROVING"
  /\ LET r == caller[c].request
         s == caller[c].moves
     IN IF subject[s] # [user |-> r.requester, status |-> "ACTIVE"]
        THEN UNCHANGED <<account, subject, recovery>>
        ELSE /\ decideRecoveryRequest(r, "APPROVED", caller[c].as)
             /\ subject' = moveAuthSubject(s, r.requester, r.target)
             /\ account' = [account EXCEPT ![r.requester] = "DELETED"]
  /\ Frees(c)
  /\ UNCHANGED <<profile, person, tries, shown, held>>

\* rejectRecovery.
rejectRecovery(actor, r) ==
  /\ r.status = "PENDING_REVIEW" /\ ~RowsLocked(r)
  /\ decideRecoveryRequest(r, "REJECTED", actor)
  /\ UNCHANGED <<account, subject, profile, person, tries, caller, shown, held>>

IdentityNext ==
  \/ \E s \in Subjects : ensureSession(s)
  \/ \E c \in Callers :
       \/ \E s \in Subjects : canActivate(c, s)
       \/ createProfile(c)
       \/ \E purpose \in Purposes : startSession(c, purpose)
       \/ createAttempt(c)
       \/ givesUp(c)
       \/ \E i \in DOMAIN tries :
            \/ \E p \in Persons, high \in BOOLEAN : handleCallback(c, i, p, high)
            \/ \E status \in {"EXPIRED", "REJECTED"} : refuseCallback(c, i, status)
       \/ completeVerification(c)
       \/ createRecoveryRequest(c)
       \/ \E actor \in Staff, r \in recovery : approveRecovery(c, actor, r)
       \/ recoverAccount(c)
  \/ \E actor \in Staff, r \in recovery : rejectRecovery(actor, r)

\* An account that is neither free nor deleted can always be entered by some
\* subject: a recovery takes the old subject away only by putting a new one in
\* its place, whatever registrations, callbacks and decisions run beside it.
NobodyIsLockedOut ==
  \A u \in Accounts : account[u] = "ACTIVE" => LiveSubjects(u) # {}

\* A subject changes hands only by recovery, to an account that was registered
\* under a person the subject's own account has proved to be, with enough
\* assurance, in a recovery attempt, and by the decision of a third account.
RecoveredAccountWasTheirs ==
  [][\A s \in Subjects :
       subject[s].user # Nobody /\ subject'[s].user # subject[s].user
       => LET u == subject[s].user
              t == subject'[s].user
          IN /\ \E p \in Persons : <<u, p>> \in shown /\ <<p, t>> \in held
             /\ \E r \in recovery' :
                  r.status = "APPROVED" /\ r.requester = u /\ r.target = t
                  /\ r.by \notin {u, t}]_identityVars

\* A subject that a recovery has revoked never signs in again, to the account
\* it lost or to a new one: a reassigned phone number opens nothing.
RevokedStaysOut ==
  [][\A s \in Subjects : subject[s].status = "REVOKED" => subject'[s] = subject[s]]_identityVars

\* An account is neither lost nor stolen, whatever registrations, attempts to
\* verify, recoveries and decisions run at once.
AccountsAreSafe ==
  /\ [](IdentityTypeOK /\ NobodyIsLockedOut)
  /\ RecoveredAccountWasTheirs /\ RevokedStaysOut
===============================================================================
