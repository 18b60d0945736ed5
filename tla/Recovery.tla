------------------------------- MODULE Recovery -------------------------------
(***************************************************************************)
(* The stored documents of a local installation, and its offline copies:   *)
(* packages/documents/src (artifact-store.ts, encrypt-existing.ts),        *)
(* packages/persistence/src/sqlite-snapshot.ts and packages/recovery/src   *)
(* (sqlite-backup.ts, restored-rekey.ts).                                  *)
(*                                                                         *)
(* A capture and a restore are asked for while every writer is stopped;    *)
(* the checks that make sure of it are those modelled, and the writers may *)
(* be running.  A file is "plain" or sealed under a key.  Every staging    *)
(* directory is new: a failed or ended operation leaves none that is used. *)
(***************************************************************************)
EXTENDS FiniteSets

CONSTANTS Documents,
          Legacy             \* documents stored before encryption

ASSUME RecoveryAssumption == Legacy \subseteq Documents

VARIABLES
  installed,  \* the database in use, with its documents' rows, and the vault key
  files,      \* its stored documents
  committed,  \* the database was written since data_version was read
  seen,       \* a worker's heartbeat is younger than the workers' bound
  migration,  \* encrypt: running, and the documents it has been through
  capture,    \* the staging directory of captureSqliteBackup
  archive,    \* the last backup.ocb
  restoring,  \* the staging directory of restoreSqliteBackup
  restored    \* its data directory, once it has been published

recoveryVars == <<installed, files, committed, seen, migration, capture, archive,
                  restoring, restored>>

NoStaging == [at |-> "none"]
VaultKeys == {"vault", "replacement"}
NotStaged(process) == process = NoStaging

\* DocumentStorage.decode
Opens(stored, key) == stored = key

-----------------------------------------------------------------------------
(* The running installation                                                 *)

Commit(db) == installed' = db /\ committed' = TRUE

\* A task leased, or a final action under way; both end while stopped too.
LeaseWork ==
  /\ ~installed.stopped /\ ~installed.blocked /\ ~installed.busy
  /\ Commit([installed EXCEPT !.busy = TRUE]) /\ seen' = TRUE
  /\ UNCHANGED <<files, migration, capture, archive, restoring, restored>>

EndWork ==
  /\ installed.busy /\ Commit([installed EXCEPT !.busy = FALSE])
  /\ UNCHANGED <<files, seen, migration, capture, archive, restoring, restored>>

ToggleStop ==
  /\ Commit([installed EXCEPT !.stopped = ~@])
  /\ UNCHANGED <<files, seen, migration, capture, archive, restoring, restored>>

\* The bound of a heartbeat is three times that of a snapshot's transfer.
WorkersGone ==
  /\ seen /\ capture.at \notin {"copy", "copied"} /\ seen' = FALSE
  /\ UNCHANGED <<installed, files, committed, migration, capture, archive, restoring, restored>>

\* put: the file is there before the row that names it.
PutArtifact(d) ==
  /\ files[d] = "none" /\ files' = [files EXCEPT ![d] = installed.key]
  /\ UNCHANGED <<installed, committed, seen, migration, capture, archive, restoring, restored>>

RegisterDocument(d) ==
  /\ Opens(files[d], installed.key) /\ d \notin installed.rows
  /\ Commit([installed EXCEPT !.rows = @ \cup {d}])
  /\ UNCHANGED <<files, seen, migration, capture, archive, restoring, restored>>

-----------------------------------------------------------------------------
(* encrypt: legacy documents are sealed one by one                          *)

StartMigration ==
  /\ NotStaged(migration) /\ ~seen
  /\ Commit([installed EXCEPT !.stopped = TRUE])
  /\ migration' = [at |-> "sealing", left |-> installed.rows]
  /\ UNCHANGED <<files, seen, capture, archive, restoring, restored>>

SealFile(d) ==
  /\ migration.at = "sealing" /\ d \in migration.left
  /\ files' = [files EXCEPT ![d] = IF @ = "plain" THEN installed.key ELSE @]
  /\ migration' = [migration EXCEPT !.left = @ \ {d}]
  /\ UNCHANGED <<installed, committed, seen, capture, archive, restoring, restored>>

EndMigration ==
  /\ ~NotStaged(migration) /\ migration' = NoStaging
  /\ committed' = (committed \/ migration.left = {})
  /\ UNCHANGED <<installed, files, seen, capture, archive, restoring, restored>>

-----------------------------------------------------------------------------
(* captureSqliteBackup                                                      *)

\* assertQuiescent
Quiescent == installed.stopped /\ ~installed.busy /\ ~seen

StartCapture ==
  /\ NotStaged(capture) /\ Quiescent
  /\ capture' = [at |-> "copy"] /\ committed' = FALSE
  /\ UNCHANGED <<installed, files, seen, migration, archive, restoring, restored>>

\* The online backup, whose pages are those of one moment.
CopyDatabase ==
  /\ capture.at = "copy"
  /\ capture' = [at |-> "copied", db |-> installed]
  /\ UNCHANGED <<installed, files, committed, seen, migration, archive, restoring, restored>>

\* inventory, of a copied or an extracted database.
Inventoried(db, key) == db.stopped /\ ~db.blocked /\ db.key = key

CheckedAtStart == capture.at = "copied" /\ Inventoried(capture.db, installed.key)
CopyChecked ==
  /\ capture.at = "copied" /\ ~committed /\ Quiescent
  /\ Inventoried(capture.db, installed.key)

CheckCopy ==
  /\ CopyChecked
  /\ capture' = [at |-> "documents", db |-> capture.db, docs |-> [d \in {} |-> "none"]]
  /\ UNCHANGED <<installed, files, committed, seen, migration, archive, restoring, restored>>

CopyDocument(d) ==
  /\ capture.at = "documents" /\ d \in capture.db.rows \ DOMAIN capture.docs
  /\ Opens(files[d], capture.db.key)
  /\ capture' = [capture EXCEPT !.docs =
       [x \in DOMAIN @ \cup {d} |-> IF x = d THEN files[d] ELSE @[x]]]
  /\ UNCHANGED <<installed, files, committed, seen, migration, archive, restoring, restored>>

\* The archive is written, read back and verified before it is returned.
FinishCapture ==
  /\ capture.at = "documents" /\ DOMAIN capture.docs = capture.db.rows
  /\ archive' = [at |-> "archive", db |-> capture.db, docs |-> capture.docs]
  /\ capture' = NoStaging
  /\ UNCHANGED <<installed, files, committed, seen, migration, restoring, restored>>

\* A failed check, a deadline, the worker process killed.
CaptureFails ==
  /\ ~NotStaged(capture) /\ capture' = NoStaging
  /\ UNCHANGED <<installed, files, committed, seen, migration, archive, restoring, restored>>

-----------------------------------------------------------------------------
(* restoreSqliteBackup, with or without a replacement of the vault key      *)

Extract(key) ==
  /\ NotStaged(restoring) /\ ~NotStaged(archive)
  /\ Inventoried(archive.db, archive.db.key)
  /\ DOMAIN archive.docs = archive.db.rows
  /\ \A d \in DOMAIN archive.docs : Opens(archive.docs[d], archive.db.key)
  /\ restoring' = [at |-> IF key = archive.db.key THEN "ready" ELSE "rekey",
                   db |-> archive.db, docs |-> archive.docs, key |-> key]
  /\ UNCHANGED <<installed, files, committed, seen, migration, capture, archive, restored>>

RekeyDocument(d) ==
  /\ restoring.at = "rekey" /\ d \in DOMAIN restoring.docs
  /\ Opens(restoring.docs[d], restoring.db.key)
  /\ restoring' = [restoring EXCEPT !.docs[d] = restoring.key]
  /\ UNCHANGED <<installed, files, committed, seen, migration, capture, archive, restored>>

\* rotate: every secret in one transaction, after the documents.
DocumentsRekeyed ==
  /\ restoring.at = "rekey"
  /\ \A d \in DOMAIN restoring.docs : Opens(restoring.docs[d], restoring.key)

RotateSecrets ==
  /\ DocumentsRekeyed
  /\ restoring' = [restoring EXCEPT !.at = "ready", !.db.key = restoring.key]
  /\ UNCHANGED <<installed, files, committed, seen, migration, capture, archive, restored>>

\* block: the quarantine of module Restores.
BlockRestored ==
  /\ restoring.at = "ready"
  /\ restoring' = [restoring EXCEPT !.at = "blocked", !.db.blocked = TRUE, !.db.busy = FALSE]
  /\ UNCHANGED <<installed, files, committed, seen, migration, capture, archive, restored>>

PublishRestored ==
  /\ restoring.at = "blocked"
  /\ restored' = [at |-> "data", db |-> restoring.db, docs |-> restoring.docs]
  /\ restoring' = NoStaging
  /\ UNCHANGED <<installed, files, committed, seen, migration, capture, archive>>

RestoreFails ==
  /\ ~NotStaged(restoring) /\ restoring' = NoStaging
  /\ UNCHANGED <<installed, files, committed, seen, migration, capture, archive, restored>>

\* The owner starts the program on the restored directory, the old one out of use.
AdoptRestored ==
  /\ ~NotStaged(restored) /\ NotStaged(capture) /\ NotStaged(migration)
  /\ installed' = restored.db /\ committed' = TRUE
  /\ files' = [d \in Documents |-> IF d \in DOMAIN restored.docs THEN restored.docs[d]
                                   ELSE "none"]
  /\ restored' = NoStaging
  /\ UNCHANGED <<seen, migration, capture, archive, restoring>>

\* The restore's review is completed (module Restores).
CompleteReview ==
  /\ installed.blocked /\ Commit([installed EXCEPT !.blocked = FALSE])
  /\ UNCHANGED <<files, seen, migration, capture, archive, restoring, restored>>

RecoveryInit ==
  /\ installed = [stopped |-> FALSE, busy |-> FALSE, blocked |-> FALSE, rows |-> Legacy,
                  key |-> "vault"]
  /\ files = [d \in Documents |-> IF d \in Legacy THEN "plain" ELSE "none"]
  /\ committed = FALSE /\ seen = FALSE
  /\ migration = NoStaging /\ capture = NoStaging /\ archive = NoStaging
  /\ restoring = NoStaging /\ restored = NoStaging

RecoveryNext ==
  \/ LeaseWork \/ EndWork \/ ToggleStop \/ WorkersGone
  \/ StartMigration \/ EndMigration
  \/ StartCapture \/ CopyDatabase \/ CheckCopy \/ FinishCapture \/ CaptureFails
  \/ \E d \in Documents : \/ PutArtifact(d) \/ RegisterDocument(d) \/ SealFile(d)
                          \/ CopyDocument(d) \/ RekeyDocument(d)
  \/ \E key \in VaultKeys : Extract(key)
  \/ RotateSecrets \/ BlockRestored \/ PublishRestored \/ RestoreFails
  \/ AdoptRestored \/ CompleteReview

RecoverySpec == RecoveryInit /\ [][RecoveryNext]_recoveryVars

-----------------------------------------------------------------------------
(* Properties                                                               *)

RecoveryTypeOK ==
  /\ installed.rows \subseteq Documents /\ installed.key \in VaultKeys
  /\ \A d \in Documents : files[d] \in VaultKeys \cup {"none", "plain"}
  /\ {committed, seen} \subseteq BOOLEAN

\* Every row of db names a document that its key opens.
Whole(db, docs) == \A d \in db.rows : d \in DOMAIN docs /\ Opens(docs[d], db.key)

\* What is kept of an installation can be used again: an archive is of a moment at
\* which the owner had stopped it and no work was leased or under way, it holds every
\* document that its database names, and a restored directory is quarantined with
\* all its documents and secrets under one key, whatever ran, failed or was killed
\* in between (sqlite-snapshot.ts, sqlite-backup.ts, restored-rekey.ts).
RecoveredIsWhole ==
  /\ ~NotStaged(archive) => /\ archive.db.stopped /\ ~archive.db.busy
                        /\ Whole(archive.db, archive.docs)
  /\ ~NotStaged(restored) => restored.db.blocked /\ Whole(restored.db, restored.docs)
=============================================================================
