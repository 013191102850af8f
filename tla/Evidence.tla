------------------------------ MODULE Evidence ------------------------------
(***************************************************************************)
(* The evidence of a visit: a photo is registered, sent straight to the    *)
(* object storage under a signed URL, and confirmed by its digest, in that *)
(* order, by a client that goes on where it was when a step fails.  The    *)
(* web takes a failed step for a reason to register again when the server  *)
(* says so; the mobile application repeats the upload with what it has.    *)
(***************************************************************************)
EXTENDS Naturals, FiniteSets

CONSTANTS
  Photos,     \* bound: what the provider may pick
  MaxSlips,   \* bound: lost answers, delayed requests, URLs that expire, second thoughts
  NoPhoto

ASSUME EvidenceAssumption == MaxSlips \in Nat /\ NoPhoto \notin Photos

(* Every slip costs one registration at most.                              *)
Documents == 1..(MaxSlips + 1)

VARIABLES
  client,     \* which application the provider uses
  picked,     \* the photo that is to be added
  stage,      \* what the client waits for
  pending,    \* the registration it goes on with: document, photo, uploaded
  document,   \* documents: what each row says
  object,     \* what the storage holds under each storage_key
  urlValid,   \* documents whose signed URL has not expired
  delayed,    \* requests given up by the client that may still arrive
  slips

evidenceVars == <<client, picked, stage, pending, document, object, urlValid, delayed, slips>>
server == <<document, object, urlValid, delayed>>

NoPending == [doc |-> 0, photo |-> NoPhoto, uploaded |-> FALSE]
Unregistered == [status |-> "none", sha256 |-> NoPhoto, events |-> 0]

EvidenceInit ==
  /\ client \in {"web", "mobile"} /\ picked \in Photos
  /\ stage = "idle" /\ pending = NoPending
  /\ document = [d \in Documents |-> Unregistered]
  /\ object = [d \in Documents |-> NoPhoto]
  /\ urlValid = {} /\ delayed = {} /\ slips = 0

Slip == slips < MaxSlips /\ slips' = slips + 1
-----------------------------------------------------------------------------
(* Is the registration under way that of the photo?                        *)
fileKey(p) == p.doc # 0 /\ p.photo = picked

(* The user sends the photo or, after an error, tries again.  The mobile   *)
(* application uploads it again, whether it has arrived before or not.     *)
onSubmit ==
  /\ stage \in {"idle", "failed"}
  /\ pending' = IF fileKey(pending) THEN pending ELSE NoPending
  /\ stage' = IF pending' = NoPending THEN "register"
              ELSE IF client = "web" /\ pending.uploaded THEN "confirm" ELSE "upload"
  /\ UNCHANGED <<client, picked, server, slips>>

(* Another photo is picked instead; in the mobile application a picked     *)
(* photo is a new one.                                                     *)
Picks(f) ==
  /\ stage \in {"idle", "failed"} /\ f # picked /\ Slip
  /\ picked' = f
  /\ pending' = IF client = "web" THEN pending ELSE NoPending
  /\ UNCHANGED <<client, stage, server>>

(* mutation: an upload that the storage refuses is tried again as it is    *)
KeepsExpired(error) ==
  IF client = "web" /\ error \in {"DOCUMENT_INTEGRITY_MISMATCH", "DOCUMENT_ALREADY_UPLOADED",
                                  "DOCUMENT_NOT_FOUND"}
  THEN NoPending ELSE pending

(* What the web takes for the end of a registration.                       *)
needsFreshRegistration(error) ==
  IF client = "web" /\ error \in {"UPLOAD_FAILED", "DOCUMENT_INTEGRITY_MISMATCH",
                                  "DOCUMENT_ALREADY_UPLOADED", "DOCUMENT_NOT_FOUND"}
  THEN NoPending ELSE pending

Fails(error) ==
  /\ stage' = "failed" /\ pending' = needsFreshRegistration(error)
  /\ UNCHANGED <<client, picked>>

(* The answer to a step that has been done is read, or it is lost.         *)
AnswerOr(next, goesOn) ==
  \/ stage' = next /\ pending' = goesOn /\ UNCHANGED <<client, picked, slips>>
  \/ Slip /\ Fails("NETWORK")
-----------------------------------------------------------------------------
(* A row and a signed URL; the next document is the first without a row.   *)
registerDocument ==
  /\ stage = "register"
  /\ \E d \in Documents :
       /\ document[d].status = "none" /\ \A e \in 1..(d - 1) : document[e].status # "none"
       /\ document' = [document EXCEPT ![d].status = "PENDING_UPLOAD"]
       /\ urlValid' = urlValid \cup {d}
       /\ AnswerOr("upload", [doc |-> d, photo |-> picked, uploaded |-> FALSE])
  /\ UNCHANGED <<object, delayed>>

(* The storage takes what comes under a valid URL, also a second time.     *)
put ==
  /\ stage = "upload"
  /\ \/ /\ pending.doc \in urlValid
        /\ object' = [object EXCEPT ![pending.doc] = picked]
        /\ AnswerOr("confirm", [pending EXCEPT !.uploaded = TRUE])
     \/ /\ pending.doc \notin urlValid
        /\ Fails("UPLOAD_FAILED")
        /\ UNCHANGED <<object, slips>>
  /\ UNCHANGED <<document, urlValid, delayed>>

(* The bytes are not bound to the first upload; the URL is to its time.    *)
UrlExpires(d) ==
  /\ d \in urlValid /\ Slip
  /\ urlValid' = urlValid \ {d}
  /\ UNCHANGED <<client, picked, stage, pending, document, object, delayed>>

(* mutation: a document is confirmed as often as it is asked for           *)
ConfirmsAgain(d, digest) ==
  IF object[d] = NoPhoto THEN "DOCUMENT_NOT_FOUND"
  ELSE IF object[d] # digest THEN "DOCUMENT_INTEGRITY_MISMATCH" ELSE "AVAILABLE"

(* What confirmUpload answers to the digest of a photo, under the lock of  *)
(* the row: an error, or AVAILABLE.                                        *)
Verdict(d, digest) ==
  IF document[d].status = "AVAILABLE" THEN "DOCUMENT_ALREADY_UPLOADED"
  ELSE IF object[d] = NoPhoto THEN "DOCUMENT_NOT_FOUND"
  ELSE IF object[d] # digest THEN "DOCUMENT_INTEGRITY_MISMATCH" ELSE "AVAILABLE"

(* The digest that is recorded is that of the stored object.               *)
Available(d) ==
  document' = [document EXCEPT ![d] = [status |-> "AVAILABLE", sha256 |-> object[d], events |-> @.events + 1]]

confirmUpload ==
  /\ stage = "confirm"
  /\ LET verdict == Verdict(pending.doc, picked) IN
     \/ verdict = "AVAILABLE" /\ Available(pending.doc) /\ AnswerOr("done", NoPending)
     \/ verdict # "AVAILABLE" /\ Fails(verdict) /\ UNCHANGED <<document, slips>>
  /\ UNCHANGED <<object, urlValid, delayed>>

(* The client waits no longer; its request arrives later, or never.        *)
Delays ==
  /\ stage \in {"upload", "confirm"} /\ Slip
  /\ Fails("NETWORK")
  /\ delayed' = delayed \cup {[step |-> stage, doc |-> pending.doc, photo |-> picked]}
  /\ UNCHANGED <<document, object, urlValid>>

ArrivesLate(r) ==
  /\ delayed' = delayed \ {r}
  /\ IF r.step = "upload" /\ r.doc \in urlValid
     THEN object' = [object EXCEPT ![r.doc] = r.photo] ELSE UNCHANGED object
  /\ IF r.step = "confirm" /\ Verdict(r.doc, r.photo) = "AVAILABLE"
     THEN Available(r.doc) ELSE UNCHANGED document
  /\ UNCHANGED <<client, picked, stage, pending, urlValid, slips>>

(* The user tries again, and what is not given up is answered.             *)
Proceeds == onSubmit \/ registerDocument \/ put \/ confirmUpload

EvidenceNext ==
  \/ Proceeds \/ Delays
  \/ \E f \in Photos : Picks(f)
  \/ \E d \in Documents : UrlExpires(d)
  \/ \E r \in delayed : ArrivesLate(r)

EvidenceSpec == EvidenceInit /\ [][EvidenceNext]_evidenceVars /\ WF_evidenceVars(Proceeds)
-----------------------------------------------------------------------------
EvidenceTypeOK ==
  /\ client \in {"web", "mobile"} /\ picked \in Photos
  /\ stage \in {"idle", "register", "upload", "confirm", "failed", "done"}
  /\ pending \in [doc : Documents \cup {0}, photo : Photos \cup {NoPhoto}, uploaded : BOOLEAN]
  /\ document \in [Documents -> [status : {"none", "PENDING_UPLOAD", "AVAILABLE"},
                                 sha256 : Photos \cup {NoPhoto}, events : Nat]]
  /\ object \in [Documents -> Photos \cup {NoPhoto}]

(* The digest on record is that of the object for good, although the URL   *)
(* still takes uploads after the confirmation and delayed ones arrive; and *)
(* who is told that the photo has been added has that photo on record.     *)
EvidenceStands ==
  /\ \A d \in Documents : document[d].status = "AVAILABLE" => document[d].sha256 = object[d]
  /\ stage = "done" => \E d \in Documents : document[d].sha256 = picked

(* Repeated, delayed and lost confirmations announce a document once.      *)
AnnouncedOnce == \A d \in Documents : document[d].events <= 1

(* Evidence on record is the photo that was taken, and is announced once.  *)
EvidenceInv == EvidenceTypeOK /\ EvidenceStands /\ AnnouncedOnce
=============================================================================
