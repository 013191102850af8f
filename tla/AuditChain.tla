----------------------------- MODULE AuditChain -----------------------------
(***************************************************************************)
(* The audit log: transactions append rows that are chained by their       *)
(* hashes, and each process that runs the maintenance verifies what is new,*)
(* archives it and records how far it is.  The log cannot be updated, but  *)
(* someone with the rights of the owner may alter a row all the same.  A   *)
(* hash is the set of the ids that went into it: a row that was chained    *)
(* after one with a greater id has a hash that its place does not explain. *)
(***************************************************************************)
EXTENDS Naturals, Sequences, FiniteSets

CONSTANTS
  Writers,     \* bound: transactions at a time
  Verifiers,   \* processes that run the maintenance
  BatchSize,   \* AUDIT_VERIFICATION_BATCH_SIZE
  MaxId,       \* bound: rows of the log
  MaxAltered,  \* bound: rows that are altered
  MaxCrashes,  \* bound: verifications that die on their way
  NoWriter

ASSUME AuditAssumption ==
  /\ BatchSize \in Nat \ {0} /\ MaxId \in Nat /\ NoWriter \notin Writers

VARIABLES
  lastId,       \* of the sequence: ids of rolled back rows are not used again
  log,          \* id |-> hash, the rows that are committed
  altered,      \* rows whose content is not that of their hash any more
  chainLock,    \* who holds the advisory lock
  draft,        \* writer |-> rows that are not committed yet
  checkpoints,  \* audit_chain_checkpoints
  archive,      \* objects, none of which can be written twice
  exports,      \* audit_exports: ranges
  check,        \* verifier |-> what it is at
  crashes
auditVars == <<lastId, log, altered, chainLock, draft, checkpoints, archive, exports, check, crashes>>

NoRows == [i \in {} |-> {}]
Unverified == [through |-> 0, hash |-> {}, status |-> "OK"]
NoCheck == [pc |-> "idle"]

AuditInit ==
  /\ lastId = 0 /\ log = NoRows /\ altered = {}
  /\ chainLock = NoWriter /\ draft = [w \in Writers |-> NoRows]
  /\ checkpoints = <<>> /\ archive = {} /\ exports = {}
  /\ check = [v \in Verifiers |-> NoCheck] /\ crashes = 0
-----------------------------------------------------------------------------
Latest(ids) == CHOOSE i \in ids : \A j \in ids : j <= i

(* The hash of the last row that a writer sees: committed, or its own.     *)
LastHash(w) ==
  LET rows == DOMAIN log \cup DOMAIN draft[w]
      last == Latest(rows)
  IN IF rows = {} THEN {} ELSE IF last \in DOMAIN draft[w] THEN draft[w][last] ELSE log[last]

Adds(w) ==
  [draft EXCEPT ![w] = [i \in DOMAIN @ \cup {lastId + 1} |->
                          IF i = lastId + 1 THEN LastHash(w) \cup {i} ELSE @[i]]]

(* The lock comes before the id and is kept until the transaction ends.    *)
record(w) ==
  /\ chainLock \in {NoWriter, w}
  /\ lastId < MaxId /\ lastId' = lastId + 1 /\ chainLock' = w
  /\ draft' = Adds(w)
  /\ UNCHANGED <<log, altered, checkpoints, archive, exports, check, crashes>>

Ends(w, rows) ==
  /\ DOMAIN draft[w] # {}
  /\ log' = [i \in DOMAIN log \cup DOMAIN rows |-> IF i \in DOMAIN rows THEN rows[i] ELSE log[i]]
  /\ draft' = [draft EXCEPT ![w] = NoRows]
  /\ chainLock' = NoWriter
  /\ UNCHANGED <<lastId, altered, checkpoints, archive, exports, check, crashes>>

Committed(w) == Ends(w, draft[w])
RolledBack(w) == Ends(w, NoRows)

Altered(i) ==
  /\ i \in DOMAIN log \ altered /\ Cardinality(altered) < MaxAltered
  /\ altered' = altered \cup {i}
  /\ UNCHANGED <<lastId, log, chainLock, draft, checkpoints, archive, exports, check, crashes>>
-----------------------------------------------------------------------------
latestCheckpoint == IF checkpoints = <<>> THEN Unverified ELSE checkpoints[Len(checkpoints)]

(* A chain that was found broken is not looked at again.                   *)
verifyOnce(v) ==
  /\ check[v].pc = "idle" /\ latestCheckpoint.status = "OK"
  /\ check' = [check EXCEPT ![v] = [pc |-> "verify", base |-> latestCheckpoint]]
  /\ UNCHANGED <<lastId, log, altered, chainLock, draft, checkpoints, archive, exports, crashes>>

(* mutation: only a full batch is worth the effort                         *)
FullBatch(ids) ==
  {i \in ids : Cardinality(ids) >= BatchSize /\ Cardinality({j \in ids : j < i}) < BatchSize}

Batch(ids) == {i \in ids : Cardinality({j \in ids : j < i}) < BatchSize}

(* Walks the rows after the checkpoint up to the first that is not what its*)
(* hash and the hash before it say.                                        *)
audit_chain_verify_range(v) ==
  LET base == check[v].base
      rows == Batch({i \in DOMAIN log : i > base.through})
      intact(i) == i \notin altered /\ log[i] = base.hash \cup {j \in rows : j <= i}
      sound == {i \in rows : \A j \in rows : j <= i => intact(j)}
  IN /\ check[v].pc = "verify"
     /\ check' = [check EXCEPT ![v] =
          IF rows = {} THEN NoCheck
          ELSE [pc |-> IF sound = rows THEN "put" ELSE "checkpoint",
                from |-> base.through + 1,
                through |-> Latest(sound \cup {base.through}),
                hash |-> base.hash \cup sound,
                status |-> IF sound = rows THEN "OK" ELSE "BROKEN"]]
     /\ UNCHANGED <<lastId, log, altered, chainLock, draft, checkpoints, archive, exports, crashes>>

(* The rows are read again for the archive.  Its key is made of the range  *)
(* and of a digest of the content; a key that exists is refused.           *)
exportRange(v) ==
  LET object == [from |-> check[v].from, through |-> check[v].through,
                 rows |-> {i \in DOMAIN log : check[v].from <= i /\ i <= check[v].through},
                 altered |-> {i \in altered : check[v].from <= i /\ i <= check[v].through}]
  IN /\ check[v].pc = "put"
     /\ IF object \in archive
        THEN check' = [check EXCEPT ![v] = NoCheck] /\ UNCHANGED archive
        ELSE archive' = archive \cup {object} /\ check' = [check EXCEPT ![v].pc = "exported"]
     /\ UNCHANGED <<lastId, log, altered, chainLock, draft, checkpoints, exports, crashes>>

Exported(v) ==
  /\ check[v].pc = "exported"
  /\ exports' = exports \cup {[from |-> check[v].from, through |-> check[v].through]}
  /\ check' = [check EXCEPT ![v].pc = "checkpoint"]
  /\ UNCHANGED <<lastId, log, altered, chainLock, draft, checkpoints, archive, crashes>>

(* mutation: the checkpoint does not wait for the export                   *)
CheckpointFirst(v) ==
  /\ check[v].pc \in {"put", "checkpoint"}
  /\ checkpoints' = Append(checkpoints, [through |-> check[v].through, hash |-> check[v].hash,
                                         status |-> check[v].status])
  /\ check' = [check EXCEPT ![v] = NoCheck]
  /\ UNCHANGED <<lastId, log, altered, chainLock, draft, archive, exports, crashes>>

Checkpointed(v) ==
  /\ check[v].pc = "checkpoint"
  /\ checkpoints' = Append(checkpoints, [through |-> check[v].through, hash |-> check[v].hash,
                                         status |-> check[v].status])
  /\ check' = [check EXCEPT ![v] = NoCheck]
  /\ UNCHANGED <<lastId, log, altered, chainLock, draft, archive, exports, crashes>>

(* The process dies, or the archive or the database refuses.               *)
VerificationDies(v) ==
  /\ check[v].pc # "idle" /\ crashes < MaxCrashes
  /\ crashes' = crashes + 1
  /\ check' = [check EXCEPT ![v] = NoCheck]
  /\ UNCHANGED <<lastId, log, altered, chainLock, draft, checkpoints, archive, exports>>

Verifies(v) ==
  \/ verifyOnce(v) \/ audit_chain_verify_range(v) \/ exportRange(v)
  \/ Exported(v) \/ Checkpointed(v)

AuditNext ==
  \/ \E w \in Writers : record(w) \/ Committed(w) \/ RolledBack(w)
  \/ \E i \in 1..MaxId : Altered(i)
  \/ \E v \in Verifiers : Verifies(v) \/ VerificationDies(v)

AuditSpec ==
  /\ AuditInit /\ [][AuditNext]_auditVars
  /\ \A v \in Verifiers : WF_auditVars(Verifies(v))
-----------------------------------------------------------------------------
AuditTypeOK ==
  /\ lastId \in 0..MaxId /\ DOMAIN log \subseteq 1..lastId /\ altered \subseteq DOMAIN log
  /\ chainLock \in Writers \cup {NoWriter}
  /\ \A v \in Verifiers : check[v].pc \in {"idle", "verify", "put", "exported", "checkpoint"}

(* Nobody is accused of altering a log that nobody has altered: rows that  *)
(* are rolled back, transactions that commit in another order than they    *)
(* began, and verifications that overlap break no chain.                   *)
NoFalseAlarm ==
  (\E k \in DOMAIN checkpoints : checkpoints[k].status = "BROKEN") => altered # {}

(* Whatever a sound checkpoint vouches for has left the database: no row   *)
(* that is committed later, and no crash, leaves one behind it that is not *)
(* in the archive and in the list of the exports.                          *)
NothingSlipsBehind ==
  \A k \in DOMAIN checkpoints : \A i \in DOMAIN log :
    checkpoints[k].status = "OK" /\ i <= checkpoints[k].through =>
      \E o \in archive : i \in o.rows /\ [from |-> o.from, through |-> o.through] \in exports

(* Every row is verified at last, or the chain is found broken, unless the *)
(* archive holds an object beyond the checkpoint: its key is refused from  *)
(* then on, and verification stands still.                                 *)
VerificationAdvances ==
  \A i \in 1..MaxId :
    i \in DOMAIN log ~> \/ latestCheckpoint.through >= i
                        \/ latestCheckpoint.status = "BROKEN"
                        \/ \E o \in archive : o.from > latestCheckpoint.through

(* What the checkpoints say of the log is true, whatever commits, dies or  *)
(* overlaps with the verification.                                         *)
AuditInv == AuditTypeOK /\ NoFalseAlarm /\ NothingSlipsBehind
=============================================================================
