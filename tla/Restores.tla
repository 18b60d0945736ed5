------------------------------- MODULE Restores -------------------------------
(***************************************************************************)
(* A database restored from a copy: packages/persistence/src/              *)
(* restore-repository.ts.  The copy may be older than submissions that     *)
(* have reached an employer, which does not forget them.  block() opens a  *)
(* restore run that quarantines every application the copy knows; the      *)
(* owner reviews each, imports what was submitted since the copy was       *)
(* taken, and releases the run.                                            *)
(*                                                                         *)
(* A run is open exactly while control.restoreBlocked is set (block and    *)
(* release change both), and the open run is the newest.                   *)
(***************************************************************************)
EXTENDS History

CONSTANTS
  MaxCopies,    \* bound: copies of the database taken, and restored
  MaxRuns       \* bound: restore runs a database may record

ASSUME RestoresAssumption == MaxCopies \in Nat /\ MaxRuns \in Nat

VARIABLES
  reviews,      \* restore_reviews: dispositions, by run and application
  runs,         \* restore_runs: how many there are
  boundary,     \* the newest run's snapshot_created_at is known
  copies,       \* copies of the database that may be restored
  restores      \* history: how many times that happened

reviewVars == <<reviews, runs, boundary>>
restoreVars == <<historyVars, reviewVars, copies, restores>>

Runs == 1 .. MaxRuns

Database ==
  [control |-> control, tasks |-> tasks, apps |-> apps, attempts |-> attempts,
   nextFence |-> nextFence, policy |-> policy, authority |-> authority,
   packet |-> packet, prep |-> prep, latest |-> latest, profileOf |-> profileOf,
   brief |-> brief, looks |-> looks, incomplete |-> incomplete, known |-> known,
   history |-> history, reviews |-> reviews, runs |-> runs]

\* Faulty: a review only stands in the way while its run is open.
BarredWhileOpen(rows, open) ==
  {a \in Apps : \E r \in open \cap Runs : rows[r][a] # "none"}

\* assertNoRestoreReplay, and the same condition in the query of claim: the
\* applications held by some review of some run.
Barred(rows, open) ==
  {a \in Apps : \E r \in Runs :
     \/ rows[r][a] \in {"pending", "quarantined"}
     \/ rows[r][a] = "receipt" /\ r \in open}

OpenRuns == IF control.restoreBlocked THEN {runs} ELSE {}

-----------------------------------------------------------------------------
(* block                                                                    *)

\* What becomes of a task that is not finished; a submit task that had reached
\* the employer is followed by a reconcile task, see below.
CutShort(row, t) ==
  IF t.type # "reconcile"
  THEN [row EXCEPT !.state = "cancelled", !.fence = @ + 1, !.lease = 0]
  ELSE IF row.state = "leased"
       THEN [row EXCEPT !.state = "ready", !.fence = @ + 1, !.lease = 0]
       ELSE row

Unfinished == {"ready", "retry_wait", "leased"}

\* Submit tasks whose attempt is left without a known outcome.
Originals(d) ==
  {t \in TaskIds : /\ t.type = "submit" /\ d.tasks[t].fence \in Fences
                   /\ LET attempt == d.attempts[d.tasks[t].fence] IN
                      /\ attempt.state \in {"IN_FLIGHT", "UNKNOWN"}
                      /\ AppOf[attempt.key] = AppOf[t.key]}

Reconciling(d, a) ==
  \E t \in TaskIds : /\ t.type = "reconcile" /\ AppOf[t.key] = a
                     /\ d.tasks[t].state \in Unfinished

\* The reconcile task enqueued by block is a new row; the model puts it in the
\* place of the finished one of its key.
BlockedTasks(d) ==
  [t \in TaskIds |->
     IF /\ t.type = "reconcile" /\ Task("submit", t.key) \in Originals(d)
        /\ ~Reconciling(d, AppOf[t.key])
     THEN ReadyRow
     ELSE IF d.tasks[t].state \in Unfinished THEN CutShort(d.tasks[t], t)
     ELSE d.tasks[t]]

BlockedApp(row) ==
  [state |-> IF row.state = "IN_FLIGHT" THEN "UNKNOWN" ELSE row.state,
   revision |-> row.revision + 1, commitFence |-> row.commitFence + 1]

\* block on the database d, in which no run is open: with an open one it does
\* nothing to the tables modelled here, or throws.  The model keeps no resolution of a
\* preparation: one resolved earlier keeps its status in the code, and nothing can be
\* sent of it either, as every packet is voided.
Block(d) ==
  /\ ~d.control.restoreBlocked
  /\ d.runs < MaxRuns
  /\ runs' = d.runs + 1
  /\ control' = [d.control EXCEPT !.restoreBlocked = TRUE, !.preparationPaused = TRUE,
                                  !.submissionsPaused = TRUE]
  /\ reviews' = [d.reviews EXCEPT ![runs'] =
       [a \in Apps |-> IF a \in d.known THEN "pending" ELSE "none"]]
  /\ quarantined' = Barred(reviews', {runs'})
  /\ apps' = [a \in Apps |-> IF a \in d.known THEN BlockedApp(d.apps[a]) ELSE d.apps[a]]
  /\ attempts' = [f \in Fences |->
       IF d.attempts[f].state = "IN_FLIGHT"
       THEN [d.attempts[f] EXCEPT !.state = "UNKNOWN"] ELSE d.attempts[f]]
  /\ tasks' = BlockedTasks(d)
  /\ prep' = [k \in Keys |->
       IF d.prep[k].status = "none" THEN NoPrep ELSE [d.prep[k] EXCEPT !.status = "expired"]]
  /\ packet' = [a \in Apps |-> [d.packet[a] EXCEPT !.valid = FALSE]]
  /\ nextFence' = d.nextFence /\ policy' = d.policy /\ authority' = d.authority
  /\ latest' = d.latest /\ profileOf' = d.profileOf /\ brief' = d.brief
  /\ looks' = d.looks /\ incomplete' = d.incomplete
  /\ known' = d.known /\ history' = d.history

-----------------------------------------------------------------------------
(* Copies, and what is started on them                                      *)

\* captureSqliteBackup asks for the owner's stop and for everything drained; a
\* copy of a database may be taken at other times as well.
Copy ==
  /\ Cardinality(copies) < MaxCopies
  /\ copies' = copies \cup {Database}
  /\ UNCHANGED <<historyVars, reviewVars, restores>>

\* restoreSqliteBackup, with every process of the old and the new installation
\* stopped; or a process started on a copy with the snapshot's marker, which
\* knows no boundary.  Fences handed out since the copy will be handed out
\* again; the employer keeps what it has been sent.
Restore(d) ==
  /\ restores < MaxCopies
  /\ restores' = restores + 1
  /\ Block(d)
  /\ boundary' \in BOOLEAN
  /\ worker' = [w \in Workers |-> Idle]
  /\ requests' = {}
  /\ employer' = [f \in Fences |-> IF f <= d.nextFence THEN employer[f] ELSE "none"]
  /\ UNCHANGED <<clicks, copies>>

\* connect with the marker still set on the restored installation: every process
\* that starts blocks the database again, unless a run is open, while others
\* are at work on it.
StartMarked ==
  /\ restores > 0
  /\ Block(Database)
  /\ boundary' = FALSE
  /\ UNCHANGED <<worker, requests, employer, clicks, copies, restores>>

-----------------------------------------------------------------------------
(* The owner's review                                                       *)

ReviewLegacyBoundary ==
  /\ control.restoreBlocked /\ ~boundary
  /\ boundary' = TRUE
  /\ UNCHANGED <<historyVars, reviews, runs, copies, restores>>

ValidReceipt(a) ==
  /\ apps[a].state = "CONFIRMED"
  /\ \E f \in Fences : OfApp(f, a) /\ attempts[f].state = "CONFIRMED"

Review(r, a, disposition) ==
  /\ reviews[r][a] \in {"pending", "quarantined"}
  /\ disposition = "receipt" => ValidReceipt(a)
  /\ disposition = "quarantined" => r \in OpenRuns
  /\ reviews' = [reviews EXCEPT ![r][a] = disposition]
  /\ quarantined' = Barred(reviews', OpenRuns)
  /\ UNCHANGED <<control, tasks, apps, attempts, nextFence, workVars, docVars, pastVars,
                 runs, boundary, copies, restores>>

\* Faulty: only the applications of the copy are asked for.
AttestedReviewed == TRUE

\* externalHistoryReviewedAndImported, as a truthful owner says it: whatever
\* an employer was sent is reviewed here or has been imported.
Attested ==
  \A a \in Apps : clicks[a] > 0 => a \in history \/ \E r \in Runs : reviews[r][a] # "none"

Release ==
  /\ control.restoreBlocked /\ boundary
  /\ \A a \in Apps : reviews[runs][a] # "pending"
  /\ \A a \in Apps : reviews[runs][a] = "receipt" => ValidReceipt(a)
  /\ Attested
  /\ control' = [control EXCEPT !.restoreBlocked = FALSE, !.submissionsPaused = TRUE]
  /\ quarantined' = Barred(reviews, {})
  /\ UNCHANGED <<tasks, apps, attempts, nextFence, workVars, docVars, pastVars,
                 reviewVars, copies, restores>>

-----------------------------------------------------------------------------
RestoreStep ==
  \/ Copy
  \/ \E d \in copies : Restore(d)
  \/ StartMarked
  \/ ReviewLegacyBoundary
  \/ \E r \in Runs, a \in Apps, disposition \in {"quarantined", "receipt"} :
       Review(r, a, disposition)
  \/ Release

RestoresNext ==
  \/ HistoryNext /\ UNCHANGED <<reviewVars, copies, restores>>
  \/ RestoreStep

RestoresInit ==
  /\ HistoryInit
  /\ reviews = [r \in Runs |-> [a \in Apps |-> "none"]]
  /\ runs = 0 /\ boundary = FALSE
  /\ copies = {} /\ restores = 0

RestoresSpec == RestoresInit /\ [][RestoresNext]_restoreVars

-----------------------------------------------------------------------------
(* Properties                                                               *)

\* Once the owner has released the restored database, nothing an employer was
\* ever sent can be taken for unsubmitted: it is quarantined, asserted as
\* history, or its attempt is on record (block, review and release together); and
\* what claim and begin refuse is what the reviews hold.
SubmittedIsHeld ==
  /\ quarantined = Barred(reviews, OpenRuns)
  /\ ~control.restoreBlocked => \A a \in Apps : clicks[a] > 0 =>
       \/ a \in quarantined
       \/ LiveOf(a) # {}
       \/ apps[a].state = "HISTORICAL_SUBMITTED"
       \/ a \in history \ known

\* What the owner has asserted as submitted stays so: nothing that was under
\* way for the application when its history was applied takes it up again, nor
\* does a restore, but for one of a copy that does not know the assertion.
AssertedStays ==
  [][restores' = restores => \A a \in Apps :
       apps[a].state = "HISTORICAL_SUBMITTED" =>
         apps'[a].state = "HISTORICAL_SUBMITTED"]_restoreVars
=============================================================================
