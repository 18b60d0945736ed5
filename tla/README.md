# OpenCareers: specifications and proofs

OpenCareers finds vacancies, assesses them, writes an application packet for
each one that fits, fills in the employer's form and, where its owner has
authorized that, presses the final button. Everything is kept in one SQL
database; API, workers and browser automation are separate processes that can
stop at any moment. What must never go wrong is the last step: an application
may reach the employer once at most, and one that may have reached the employer
must never be mistaken for one that has not.

This directory holds TLA+ models of that machinery, the TLC runs that check
them on small instances, and TLAPS proofs for arbitrary instances. Line numbers
are of the files under `src/`.

## 1. Inventory

| Part | State | Operations | What makes it hard |
|---|---|---|---|
| Lifecycle (`packages/domain/src/state.ts`) | 24 states, transition table | `assertTransition` | some writers use a plain `UPDATE` instead |
| Task queue (`persistence/src/repository.ts`) | `tasks`, `owners.next_fence`, `controls` | `claim`, `renew`, `complete`, `fail`, `cancelTask`, `recoverTask`, `setControl` | leases lapse under running workers; recovery only happens on the next claim |
| Submission (`persistence/src/submission-repository.ts`, `apps/worker/src/main.ts`) | `intents`, `attempts`, `receipts`, `applications` | `begin`, `authorizeDispatch`, `abortBeforeDispatch`, `confirmReceipt`, `recordDefinitiveRejection`, `reconcileReceipt` | crash between any two steps; the click is outside every transaction; the answer may be lost |
| Authority (`persistence/src/candidate-repository.ts`) | profile versions, authorizations, facts, answers, question blocks | `publishProfile`, `saveAuthorization`, `revokeAuthorization`, `checkCommit`, `validateFormPlan` | changes while work made under the old version is under way |
| Document packets (`persistence/src/document-repository.ts`, `preparation-recovery.ts`) | `packets`, `packet_validity` | `generationInput`, `savePacket`, `queueInspection`, `invalidate`, `resumeIn` | minutes pass between reading the inputs and saving the packet |
| Form inspection (`apps/worker/src/inspection.ts`, `persistence/src/browser-repository.ts`) | `browser_preparations` | the inspect task, `save` | saves with a revision read before the form was filled |
| Matching, inference (`packages/inference`, `persistence/src/matching-repository.ts`) | assessments, `inference_reservations`, `inference_state` | `assess`, `saveAssessment`, `reserve`, `markSent`, `finish`, `release` | daily budgets by class, expiry, backoff |
| Exceptions (`persistence/src/exception-repository.ts`) | `exceptions` with a hash chain | `record`, `resolve` (skip, retry, reconcile, defer, answer, open session) | offers computed in one transaction, taken up in another |
| Restore (`persistence/src/restore-repository.ts`) | `restore_runs`, `restore_reviews` | `block`, `review`, `release` | the restored rows are older than what the employer has seen |
| Handoffs (`persistence/src/handoff-repository.ts`, `browser/src/handoff-broker.ts`) | `handoff_sessions`, continuations | `create`, `claimHandoff`, `completeHandoff`, `cancelClaim`, `continuation` | generations fence a claimant that comes back late; browsers live in the memory of the API |
| Discovery (`persistence/src/discovery-repository.ts`, `discovery-scan-repository.ts`) | `sources`, listings, scans, jobs | `claimSource`, `ingest`, `failSource`, `deferScan`, `schedule`, `mergeJobs`, `splitJobs` | source leases, scans resumed page by page while the feed changes, merging jobs that have applications |
| E-mail (`persistence/src/email-repository.ts`) | `email_connections`, messages | `lease`, `connected`, `saveScan`, `ingest`, `invalidate`, `disconnect` | a checkpoint resumed by another sync, after the contexts have changed |
| Employer accounts, verification links (`account-repository.ts`, `verification-repository.ts`, `accounts/src/signup.ts`, `api/src/account.ts`) | `employer_accounts`, `signup_attempts`, `email_verification_links`, `email_verification_rules` | `prepare`, `beginSignup`, `credential`, `authorizeSignup`, `confirmSignup`, `markSignupUnknown`, `recover`, `captureVerification`, `beginLink`, `destination`, `followLink`, rules | two more at-most-once actions, with no recovery of their own; redirects; a restore forgets rows |
| Experiments (`experiment-*.ts`, `worker/src/variant-preparation.ts`) | assignments, generations | `create`, `begin`, `publish`, `assign` | bindings to inputs that change |
| Supervision, backup (`runtime-supervisor.ts`, `packages/recovery`, `sqlite-snapshot.ts`, `artifact-store.ts`) | child processes, snapshots, files and the keys that open them | drain, restart, capture, restore, re-key, encrypt | restart in the middle of a task; a copy made beside writers |
| Outcomes, cohorts (`outcome-repository.ts`, `cohort-repository.ts`, `cohort-history.ts`) | `outcome_events`, fixed cohorts | `recordOwner`, `reverse`, `recordMail`, `record` | mail late, twice or dated by another clock; reports of the past must stand |
| Form adapters, browser runtime (`packages/browser`) | the open page, plans, read-backs | inspect, plan, fill, read back, commit | page, owner and portal change between any two steps |
| Calibration, coverage, document rendering, web console | | | sums, formatting, presentation |

Processes meet in the database only. Every repository transaction starts by
locking the owner row, so transactions of one owner are serial; **an action of
the models is one such transaction**, or one step of a worker between two of
them. Messages between components are rows: an assessment enqueues a `prepare`
task, a saved packet an `inspect` task, a saved form preparation a `submit`
task, a recovered submit lease a `reconcile` task.

The hazards each part is exposed to, at the line where they bite, and the
properties that cover them, are listed under `hazards` in `PROJECT.json`.

## 2. Modules

| Module | Models | Uses |
|---|---|---|
| `Lifecycle` | states and transition table | |
| `TaskQueue` | the queue: fences, leases, recovery, controls | `Lifecycle` |
| `SubmitOnce` | abstract promise of one final action per application | |
| `Submission` | worker loop, attempts, employer, owner's authority | `TaskQueue`, instance of `SubmitOnce` |
| `Preparation` | assessment, packets, inspections and the owner's document operations around `Submission` | `Submission` |
| `History` | creation of applications, the owner's assertions of earlier submissions | `Preparation` |
| `Restores` | copies of the database, restore runs, reviews and release | `History` |
| `Exceptions` | the owner's inbox around the whole pipeline | `Preparation` |
| `EmployerAccounts` | signup at an employer's site, the verification link, backup, restore and recovery of accounts | |
| `Handoffs` | challenges handed to the owner: sessions, browsers, continuations | |
| `Inference` | the quota's ledger and route, with the gateways that spend it | |
| `PreparationGraph` | runs of graph nodes with checkpoints; batches that are split | |
| `Discovery` | one source, its leased polls in slices, verification and ingest | |
| `Identities` | merging and splitting jobs that have applications and history | |
| `Mailbox` | the mailbox connection, its lease, checkpoint and scans | |
| `Experiments` | generated letters, enrollment, the guard of intent and dispatch | |
| `Recovery` | files, keys, offline archives, restoring and re-keying them | |
| `Forms` | inspecting, filling, reading back and submitting an employer's form | |
| `Outcomes` | what became of an application, its report and its fixed cohort | |
| `MCSubmission`, `MCPreparation`, `MCRestores`, `MCExceptions`, `MCEmployerAccounts`, `MCMailbox` | constants, symmetry and view for TLC | |
| `MCServices` | one instance of each of the eleven components that share no state | `Handoffs` to `Outcomes` |
| `SubmissionProofs` | types, at most one click, one live attempt, leases, what becomes of a submission, and that the protocol implements `SubmitOnce` | `Submission`, `TLAPS` |
| `PreparationProofs` | types, what is ready or on offer, leases | `Preparation`, `SubmissionProofs` |
| `ExceptionsProofs` | what is skipped stays skipped, open questions are shown, what is ready beside the owner | `Exceptions`, `PreparationProofs` |
| `RestoresProofs` | what was sent is held, at most one click, assertions stay, across restores | `Restores`, `PreparationProofs` |
| `EmployerAccountsProofs` | types, one signup, true accounts, one link | `EmployerAccounts`, `TLAPS` |
| `HandoffsProofs` | only a current form is submitted | `Handoffs`, `TLAPS` |
| `ServicesProofs` | the quota, archives, scans of a source, experiments, forms, budgets of graph runs and batches | `Inference`, `Recovery`, `Discovery`, `Experiments`, `Forms`, `PreparationGraph`, `TLAPS` |
| `MCServicesProofs` | mail, reports and cohorts, merged jobs, scans of a mailbox; types and promises of all eleven components side by side | `MCServices`, `ServicesProofs`, `HandoffsProofs` |

### TaskQueue

`tasks` is the table, keyed by type and *key*: a key stands for the browser
preparation (or assessment) a task was made for, as the dedupe keys of the code
do. A row has its state, fence, attempts and the time left on its lease, which
`Elapse` counts down. `Claim` is the whole of `claim`: it first recovers every
expired lease, then picks among what the controls, the concurrency limit and
the exclusions leave, by priority, hands out a new fence and stamps it on the
application as `commit_fence`. `ClaimNothing` is the claim that finds nothing to
hand out: it still commits its recoveries. `RecoveredTasks`, `RecoveredApps` and
`RecoveredAttempts` are `recoverTask` for a set of tasks. `Fail`, `Complete`,
`Renew` and `CancelTask` take the task and fence *of the caller's copy*, which
may be stale. `quarantined` is what restore reviews hold; module `Restores` fills
it, and it stays empty in the runs of the other modules.

### Submission

A worker's memory is its program counter, the task and fence it was handed, and
the revision it read. `ReadRevision` is the query the worker makes outside any
transaction (main.ts:249); `Begin` compares it. `attempts` is indexed by the
fence an attempt was begun with (the schema does not make fences unique; that
`begin` never meets a used one is `NotBegunYet`, which is proved). `Click` consults nothing in the database: a permit is good
for ten seconds whatever happened to the lease, so a click may come after the
attempt has been recovered, and even after it has been reconciled. `employer`
is the outside world: a click is recorded, rejected, or lost; `Respond` only
gives the worker an outcome when there is one. `GiveUp` is the catch block and
may happen at any stage: whatever refuses a transaction for a reason the model
does not have (form drift, daily limit, age of a preparation, handoff,
storage) is among its behaviours. `Crash` forgets the worker's memory.

`PublishProfile`, `SaveAuthorization`, `RevokeAuthorization` and `SetControl`
are the owner's transactions; each includes the cancelling of submit leases by
`pauseCommits`. `policy` counts versions of profile and authorization; an
attempt and a packet remember the version they were made under.

### Preparation

Extends `Submission` with the pipeline that produces submit tasks: `Qualify` and
`SaveAssessment` (inference gateway), the prepare task (`Retain`,
`StartPreparing`, `Draft`, `SavePacket` or `PreservePacket`, `QueueInspection`),
the inspect task (`Look`, `RouteUnsupported`, `ConfirmLease`, `SaveInspection`
or `DropInspection`, `QueueAnswers`), the owner's API (`RequestPacket`,
`SaveRequested`, `LoseRequest`, `Resume`), and `Invalidate`. A packet is a serial
number, the policy it was made under and whether it still is valid; an intent
is invalid once its packet serial is not the newest. The constant `Events` chooses which
of the owner's operations a run includes, so that a run can look at some of
them in depth.

Left out of `Preparation`: what documents and forms contain (`Forms`), variant
generation (`Experiments`) and handoffs (`Handoffs`) inside the prepare and
inspect tasks, and `cancelTask`, which no API route calls (`Submission` includes it
as the operation it is).

### History and Restores

`History` lets applications come into existence (`known`): a vacancy assessed as
eligible gets its row by `Create`, or one asserted as submitted gets it from
`ImportHistory` or `Ingest` through `ApplyHistory`. `Restores` adds what a restore
does to all of that. `Copy` takes the database as it is at any moment, with
leases held and attempts in flight: the backup tool asks for more, but any copy
can be started with the marker of a snapshot. `Restore` is that start: no
process has a memory, the employer keeps what it was sent (`clicks`,
`employer`), fences come from the copy's counter and are handed out again.
`Block` is all of `block` for the tables modelled: control, reviews of every
application of the copy, fences, attempts, tasks, preparations, packets and the
reconcile tasks of uncertain attempts. `StartMarked` is the same on a running
restored database, as `connect` does it while the marker stays set. `Barred` is
the condition of `assertNoRestoreReplay` and of the claim query; `quarantined`
is what it yields. `Release` asks for the complete review and for the owner's
word that what happened since the copy has been imported. The model takes that
word to be true (`Attested`): nothing in the program could check it, and
without it a vacancy the copy does not know is applied for again.

`Overlapping` says whether history may be asserted while a packet of the
application is being drafted; run `history` shows what happens then, and run
`restores` leaves it out in order to look at everything else.

### EmployerAccounts

Independent of the queue: signups are made by the API process, links are
followed by the worker's `followPending` or by the owner's request. `call` is
the memory of the signup requests of `/v1/accounts/:id/signup`, `follow` that of
the runs of `followLink`; each step of either is one transaction or one request
to the employer. `registered`, `gated` and `verified` are the employer: it may
create the account or not whatever it answers (`Post`), may want a verification,
and a link may take effect whatever page is returned (`Get`). `Backup` copies
the tables at any moment; `Restore` is the copy with `block` and
`revokeExternalCapabilities` applied (`Revoked` locks the accounts), started
with no process running. The employer does not forget. `Recover` is the owner's
review of a locked account. Each `prepare` makes a new id (`used`); an account
row that a restore has forgotten may be prepared again under another one, so
what `OneSignup` says is per id, and that no second account is made for one
employer then rests on the owner's external-history review, which the release
of a restore demands. The correlation of mails with accounts is abstracted:
a mail that may be captured is one the employer sent to this account.

### Exceptions

`notices` are the exceptions that are not resolved, by application and blocker;
`unanswered` the open question blocks. A worker records a notice in a
transaction after the one that parked the application (`owed`, `RecordNotice`), and
may die in between (`LoseNotice`). `Buried` is the dead letter that the queue
itself writes. `Inbox` writes the notice that a parked application lacks;
`Offers` is `availableActions`, and `Skip`, `Retry`, `Rebuild` and `ApproveAnswer` are
what `resolve` does, computed again in the transaction that acts. `lacks` are
drafts made while a question was open: saved, they leave an incomplete packet.
`Retry` takes the place of the event of that name in `Preparation`. With `SkipsDrafts = FALSE` an
application is not skipped while its draft is still to be saved, which is the
unguarded save of run `preparation_stale` once more; and its packets do not go bad in
run `exceptions` (see section 5).

### Handoffs

Times are readings of one clock and every lifetime is a constant. `sessions` is
the table with its continuations, `browsers` and `calls` are the memory of the
API: `ApiStops` loses them. A request is split at its awaits (`Verify`,
`OpenBrowser`, `CompleteHandoff`), so a session may expire, be cancelled by
`ResumeIn` or be claimed again in between. `SaveForm`, `BuryInspection`,
`BeginAttempt` and `Dispatch` are what inspections and submissions do with a
session.

### Inference and PreparationGraph

`reservations` is the ledger; `wired` remembers which of them had their request
sent. `Reserve`, `MarkSent`, `FinishCompleted` and `FinishFailed` are transactions, `Post` is
the request between them; a runner may stop anywhere, and a reservation that
went stale is released by the next `Reserve`. In `PreparationGraph` a run reserves
the tokens and the request of a node before it asks (`ReserveNode`), keeps the answer as a checkpoint and is failed
by the next start when it is overdue. A batch is a stack of groups: `TakeGroup`
forms the next one, `SplitGroup` halves what does not fit a request, and a call can
end in three ways. `Answered` gives each item its output, or halves the group
when one of them spoils the answer. Want of quota, of time or of a route defers
everything that is left (`Defer`). Any other error, before or after sending, such as
a reservation gone stale (batch-gateway.ts:146) or the database, is taken for a
spoilt answer (batch.ts:102-124): the group is halved, and an item that was alone in
it ends as `invalid_output` although it may be clean (`Fault`). The comment at
batch-gateway.ts:198, that only contaminated items are quarantined, is about
answers and true of them; the history variable `faulted` tells the other case apart.

### Discovery and Identities

A poll claims its source, loads the scan that an earlier slice left, reuses the
pages that were verified lately, fetches the rest one by one and saves each;
`Yield` ends a slice, `Ingest` a poll. The feed changes under it, the owner halts or
reschedules, leases lapse, and a poll that is late finds its token gone.
`Identities` takes the vacancies that postings become: `MergeJobs` chooses the
application that stays, `SplitJobs` brings those set aside back, `Suppress` is
`applyHistory`; their submissions are one state each here, with `attempt` for
what is known of them. Three more writers move an application whatever a merge has
made of it: `Invalidate`, when an old packet of it turns out to be bad
(document-repository.ts:369), `SaveDraft`, when a draft of it ends (305), and
`Rebuild`. `DraftsOverlap` says whether a draft may still be under way when its
application is sent or asserted: then saving it takes a sent application back to
PREPARED, as in runs `preparation_stale` and `history` of section 4, and another
one of the vacancy can be sent. Run `services` and the theorems have it FALSE. `Listed` are
the jobs whose postings are found and may be named by history.

### Mailbox

`mailbox` is the row of the connection with its generation, lease and checkpoint.
`LeaseSync` fences earlier syncs; `IngestMail` and `Shift` are two transactions, so a
crash between them reads a message twice and never skips one. `NextBatch`
resumes what `nextIndex` says while contexts are opened, closed and age; as entries are in
the order of their keys, the model keeps the key of the context instead of its index.
`steady` and `swept` are history: contexts that were watched all along, and those
read to the end.

### Experiments

A generation is bound to the revision of its application and to its sources; the
fields `current` and `fresh` say whether either was written since. Workers lease,
begin, replay and publish drafts; the owner stops the experiment, merges the
jobs and assigns the packet that was reviewed. `BeginAction` and `DispatchAction`
are the guards `assertExperimentSubmission` and `assertExperimentDispatch`, beside what they guard.
`PrepareManually` is the worker's preparation, which refuses an application that was ever
enrolled; `GenerateByHand` is the owner's route, which does not ask and so voids a generated
letter. A draft of the route that ends after the submission began is left out, as above.

### Recovery

Files are plain or sealed under a key, and a database names documents.
`StartMigration` to `EndMigration` is the encryption of old documents,
`StartCapture` to `FinishCapture` the offline copy with each of its checks,
`Extract` to `PublishRestored` a restore with or without a new key; any step may be the last one.
Nothing stops a writer from running beside a capture: only what the code
checks does.

### Forms

A pass is a preparation or a commit of one of the four kinds of adapters. It
inspects the form, plans its values, has the plan guarded, enters one value at a
time and reads them back; `Approve`, `Revoke`, `Draft` and `Reform` may come
between any two steps. The Greenhouse adapter inspects the form once more when
all is entered (`ReinspectGreenhouse`), then reads control after control
(`ReadControl`, `FinishGreenhouse`). `Overwrite`, a script of that page, may come while values are
entered or read, while the permit is awaited, and until the click. What it overwrites after
that field was read for the last time is posted as the page left it
(greenhouse-commit.ts:106-137): the code does not look again, so no property can
promise those values. The history variable `late` keeps their keys, and `SentIsPrepared` speaks of
all others. The portal is the one of the fixtures of `mock-ats`, or a real one
that may answer anything.

### Outcomes

`history` are the events of one application by revision. The owner appends with
the revision that was read, a reversal restores what an event replaced, mail is
classified and ranked against what is known (`Outranked`). `Label` is the live
report of a past day, `Capture` the fixed cohort with its frozen milestones.
The clock only advances (see the hazards for what a clock set back does); a
request repeated under its identity changes nothing and is a stutter.

## 3. Runs

All runs explore their whole state space. One application is enough for what
they ask: the claim query never leases two tasks of one application, and
nothing but the fence counter, the concurrency limit and the controls is shared
between applications. Fences (`MaxFence`) bound how many claims there can be.
`LeaseTerm = 1` already separates a live from a lapsed lease; a second step only
matters for renewal under fairness, which `submission_live` has.

| Run | Instance | Question |
|---|---|---|
| `submission` | 2 workers, 1 application inspected twice, 5 fences, 2 policies, retries | Is the final button pressed at most once, is nothing uncertain lost, guessed or replayed, do stale workers write nothing, and is all of it an implementation of `SubmitOnce`? |
| `submission_live` | 2 workers, 1 key, lease of 2 | Is every in-flight attempt resolved or recovered, every unknown outcome reconciled or handed to the owner? |
| `preparation` | 2 workers on all four task types, 2 keys, 2 fences — what the owner asks for in person reaches READY without a worker's fence; the owner generates, inspects, retries and publishes a profile; packets go bad | Do leases stay admissible across all types; does anything made for an old profile stay on offer? |
| `preparation_stale` | 1 worker; the owner generates | Expected violation, see section 4. |
| `restores` | 1 worker on all task types, 1 vacancy, copy and restore once, 2 restore runs, 3 fences | Does any copy, restored at any later moment, reviewed and released, lead to a second submission? |
| `history` | 1 worker | Expected violation, see section 4. |
| `exceptions` | 1 worker on all task types, 2 keys, 2 packets, 3 fences; ready, incomplete and unsupported forms | Is what waits for the owner visible, is what is READY what was inspected, does what was skipped stay skipped? |
| `exceptions_review` | 1 worker, 4 fences | Expected violation, see section 4. |
| `accounts` | 1 employer, 2 account ids, 2 concurrent signup requests, 2 mails, 2 dispatchers, 2 rule contents, 1 redirect, 1 restore, 2 owner changes | Is a signup posted at most once, is one link opened, is active real, do a stop, a revocation and a restore cut what is under way? |
| `accounts_reply` | the same | Expected violation, see section 4. |
| `services` | eleven components, each alone, see below | One hard question of each of them. |
| `mailbox_window` | 1 sync, 2 contexts, one of them old, no faults | Expected violation, see section 4. |

`SYMMETRY` is over workers, which run one program, and over preparations, which
differ in name only; the liveness run has none. The views leave revisions out
as far as they are compared for equality only: what tells states apart is
whether the revision a worker holds still is current. In `accounts`, account ids,
mails, requests, dispatchers and rule contents are interchangeable. In `restores`
the gates only reopen (`OpeningPatches`), as closing them is what `submission` is
about; the second restore run is the one a start with the old marker opens.
`MaxHops = 1` (3 in the code) has a first request and one redirect, which is
where a check between hops can fail; `MaxChanges = 2` is a stop and the
reopening after it, or a rule replaced; one restore is what it takes to forget a
row. Runs of `Preparation` and of what extends it do not check deadlock: once the
bounded packets and keys are used up and the owner is content, the system rests.

### services

The components of this run share no state with one another, so their product
would say nothing that each of them does not say alone. `part` is chosen in the
initial state and names the component that takes its steps; the others stand
where they began. The view `Standing` therefore keeps the variables of that component
only: all others have their initial value in every state of the behaviour, and
`portal`, `feed` and `connector`, of which there are several initial ones, have a fixed value
unless their component is the one that moves. `ServicesTypeOK` is the type
invariant of that component. The instance of each:

* `handoffs`: two sessions, two forms, a session that outlives its claim and a
  form that outlives its challenge, within three readings of the clock.
* `inference`: a worker and an API request share a quota of two a day with one of
  it protected; the clock crosses midnight and reservations go stale after one
  reading.
* `graph` and `batch`: two nodes, two runs, a budget that two nodes do not fit
  in; five items of which one spoils every answer it is in, one is invalid itself and
  one fits no request, three of the others fitting one; calls that fail in every way.
* `discovery`: two postings, one of them doubtful, three feeds that follow one
  another in any order, pages of one, slices of two reads. One poller stands for
  several, because its lease lapses under it and the owner's schedule takes it away.
* `identities`: three jobs of one employer, one of them listed and named by imported
  history: the least in which a merge is merged again and split. No draft ends after
  its application was sent (`DraftsOverlap = FALSE`): with TRUE the checker finds
  `OnePerVacancy` violated through `SaveDraft`, which is the disagreement that runs
  `preparation_stale` and `history` show of the whole pipeline.
* `mailbox`: three contexts, one past the window of a query, messages shared by
  contexts, batches of two, faults of the network, of the provider and of its
  answers, three leases.
* `experiments`: two applications, one enrollment, two generations, two packets,
  two attempts and as many leases, of one generation or one of each.
* `recovery`: two documents, one stored before encryption, with and without a
  replacement of the key.
* `forms`: all fixtures of the synthetic portal, a Greenhouse board whose form
  changes and whose page may overwrite the answer to its question up to the click
  (`Scripted`; the theorems have any fields), a Recruitee offer and a hosted form; up to three passes, which are two dry runs
  and a commit, or one and two commits.
* `outcomes`: an interview and a receipt that was received later, three events,
  three days, a cohort of the first two.

### The properties

Each is stated in full above its definition.

* `AtMostOneClick`, `SingleLiveAttempt`, `ImplementsSubmitOnce`: the heart of the
  system.
* `RecordNeverForgotten`, `ConfirmedIsReal`, `OutcomeIsFinal`: what the employer
  holds is never taken for not submitted, CONFIRMED is never guessed, and
  neither is taken back.
* `UncertainHasWork`: an attempt in flight has a lease whose end recovers it, and
  an unknown outcome has a reconcile task or a notice.
* `LeasesStayAdmissible`: leases exclude one another by application and by adapter,
  keep within the limit, and a closed gate has no submission leased.
* `StaleWorkerWritesNothing`: fencing. `PreparedForProfile`: what is on offer was
  made for the active profile.
* `InFlightResolves`, `UnknownResolves` (liveness).
* `SubmittedIsHeld`, `AssertedStays`: after a release nothing that was sent is
  taken for unsubmitted; what the owner asserts stays asserted.
* `ReadyIsInspected`, `BlockIsShown`, `SkippedStays`: the inbox.
* `OneSignup`, `OneLinkOpened`, `ActiveIsReal`, `StopCutsRedirects`: the same
  questions for accounts, across crashes and a restore.
* `SubmittedFormIsCurrent` (handoffs), `WireWithinQuota` (inference),
  `WithinDeclaredBudget`, `BatchIsolates` (graphs and batches),
  `IngestedIsVerified`, `EmptyIsReviewed` (discovery), `OnePerVacancy`
  (identities), `SweptIsObserved` (mailbox), `SentAsAssigned` (experiments),
  `RecoveredIsWhole` (recovery), `SentIsPrepared`, `OutcomeIsTrue` (forms),
  `NewestIsCurrent`, `CapturesCorrected`, `ReportStands` (outcomes).

Every property has a mutant of the modelled code in `PROJECT.json` under which
its run fails; the mutated operators stand before the originals and are marked
`Faulty`.

### Fairness

`LiveSpec` assumes weak fairness of time (`Elapse`), of each worker's own steps
and of each worker's polls. The code justifies them: leases expire by the clock
of the database's host; every wait of an adapter has a timeout, so a task ends
in an outcome or in the catch block; the worker loop polls again after each
task, and the supervisor restarts a worker that died. Nothing is assumed of the
owner or the employer, and `UnknownResolves` only promises something when the
owner does not keep everything stopped for good, because reconciliation is not
claimed while `stopped` is set. That recovery nevertheless happens then is
`InFlightResolves`.

## 4. Disagreements between the code and its documents

**A saved packet takes a submission out of flight.**
`savePacketIn` (document-repository.ts:305) sets the application to PREPARED or
NEEDS_INPUT whatever state it is in. `generationInput` did look at the state
(109), but minutes earlier and in another transaction. Run `preparation_stale`
shows the shortest consequence: the owner asks for a packet; before it is
saved, the application is inspected, becomes READY and its submission begins;
the save then takes the application from IN_FLIGHT back to PREPARED. From there
neither `confirmReceipt` nor `authorizeDispatch` accepts the attempt, `fail`
sees no uncertain application and gives the task up as dead, and no
reconciliation is queued, while the employer may hold the application. The
transition table (state.ts:13) and ADR-001 (`docs/architecture.md:24-26`) rule
that out. A second submission is still refused, since `begin` looks at attempts and
not only at the application's state.

**An asserted application is submitted.** `applyHistory`
(discovery-repository.ts:498) makes an application HISTORICAL_SUBMITTED and
cancels its leased tasks. A worker that has passed `generationInput` goes on
drafting, and `savePacketIn` asks neither for its lease nor for the state: the
application is PREPARED again, is inspected and submitted (run `history`), although
`docs/architecture.md:103` says that such assertions suppress duplicate work. An
ingest of the vacancy in between would apply the history once more. (Of the
states that `applyHistory` cancels tasks in, `queued` is none that a task can
have; waiting tasks are left to the claim query, which refuses the submit task
of such an application.)

**A malformed 201 leaves a signup in flight.** `commitSignup` catches a lost
response only around `request()` (signup.ts:38-47). Reading and parsing the
body comes after it (line 54), and what that throws is no `DomainError`, so the
route (account.ts:114) rethrows it without `markSignupUnknown`. The comment
above it (111-113) says that a lost response, an expired permit and an
uncorrelated body all are recorded as unknown. Run `accounts_reply` shows the
request returned and the attempt IN_FLIGHT: no mail is correlated with such an
account and nothing but a restore settles it. `OneSignup` still holds (run
`accounts`), as `beginSignup` refuses an account with any attempt.

**An unknown outcome cannot be reconciled again.** What the owner is offered for
an application in NEEDS_REVIEW is a reconciliation whose payload is rebuilt from the
submit task of the newest unknown attempt, parsed by a strict schema
(exception-repository.ts:57-64). That schema asks for `expectedRevision`; the
task that a saved inspection enqueues (browser-repository.ts:330-336) has no such
field, and has one of the adapter's target besides. It never parses, so the notice
offers nothing but to be deferred (run `exceptions_review`), although the
comment at line 81 wants every shown notice to be actionable and
`docs/HANDOFF.md:538` describes this reconciliation.

**Mail is waited for longer than it can be looked for.** `contexts()`
(email-repository.ts:440) hands out applications of the last 180 days, from
their submission until now; `gmailQuery` (gmail.ts:68) throws `CONFIG_INVALID`
for more than fourteen days. The first application older than that ends the
scan in a review and pauses the mailbox, before what comes after it is read, and again after
every reset (run `mailbox_window`). `docs/evidence/P16-outcome-foundation.md:25`
and the test at `tests/integration/outcomes.test.ts:1162` promise 180 days. In run
`services`, where such a context is among the others, nothing is
passed over on account of it.

## 5. Proofs

| Theorem | of | states |
|---|---|---|
| `TypeCorrect` | `Spec` of `Submission` | `TypeOK` |
| `AtMostOnce`, `OneLiveAttempt` | the same | `AtMostOneClick`, `SingleLiveAttempt` |
| `LeasesAdmissible` | the same | `LeasesStayAdmissible` |
| `NeverForgotten`, `ConfirmationIsReal`, `UncertaintyHasWork` | the same | `RecordNeverForgotten`, `ConfirmedIsReal`, `UncertainHasWork` |
| `OutcomesAreFinal`, `StaleIsHarmless` | the same | the action properties `OutcomeIsFinal`, `StaleWorkerWritesNothing` |
| `SubmitsOnce` | the same | the refinement `ImplementsSubmitOnce` |
| `PrepTypeCorrect`, `ReadyMeansInspected`, `OfferedForProfile`, `PipelineLeases` | `PrepSpec` of `Preparation` | `TypeOK` with `DocTypeOK`, `ReadyIsInspected`, `PreparedForProfile`, `LeasesStayAdmissible` |
| `RestoredIsHeld`, `RestoredPressesOnce`, `AssertionsHold` | `RestoresSpec` of `Restores`, see below | `SubmittedIsHeld`, `AtMostOneClick`, the action property `AssertedStays` |
| `SkipsHold`, `QuestionsShown`, `ReadyStaysInspected` | `ExcSpec` of `Exceptions`, see below | the action property `SkippedStays`, `BlockIsShown`, `ReadyIsInspected` |
| `AccountsTypeCorrect`, `SignupOnce`, `ActiveAccountsAreReal`, `LinksOpenedOnce`, `StopsCutRedirects` | `Spec` of `EmployerAccounts` | `TypeOK`, `OneSignup`, `ActiveIsReal`, `OneLinkOpened`, `StopCutsRedirects` |
| `BudgetKept`, `BatchesIsolate` | `GraphSpec` of `PreparationGraph` | `WithinDeclaredBudget`, `BatchIsolates` |
| `CurrentFormSubmitted` | `HandoffSpec` of `Handoffs` | `SubmittedFormIsCurrent` |
| `MailNeverSteps`, `CohortsCorrected`, `OutcomesType`, `ReportsStand` | `OutcomesSpec` of `Outcomes` | `NewestIsCurrent`, `CapturesCorrected`, `OutcomesTypeOK`, the action property `ReportStands` |
| `IdentitiesOnce`, `IdentitiesType` | `IdentitiesSpec` of `Identities`, no draft ending after what was sent | `OnePerVacancy`, `IdentitiesTypeOK` |
| `MailboxSwept`, `MailboxType` | `MailboxSpec` of `Mailbox` | `SweptIsObserved`, `ScanTypeOK` |
| `QuotaOnTheWire` | `InferenceSpec` of `Inference` | `WireWithinQuota` |
| `RecoveryIsWhole` | `RecoverySpec` of `Recovery` | `RecoveredIsWhole` |
| `ScansAreVerified`, `EmptySourcesAreReviewed` | `DiscoverySpec` of `Discovery` | `IngestedIsVerified`, the action property `EmptyIsReviewed` |
| `EnrolledAreSentAsAssigned` | `ExperimentsSpec` of `Experiments` | `SentAsAssigned` |
| `PreparedIsSent`, `OutcomesAreTrue` | `FormsSpec` of `Forms` | `SentIsPrepared`, `OutcomeIsTrue` |
| `ServicesType`, `EachStands`, `EachMoves` | `ServicesSpec` of `MCServices`, under the same condition | `ServicesTypeOK`, every other invariant of run `services`, its action properties `EmptyIsReviewed` and `ReportStands` |

### The submission protocol

These hold for every set of workers, applications and preparations and every
bound, from the named assumptions of `TaskQueue` and `Submission` alone
(`QueueAssumption`, `SubmissionAssumption`: the constants have their types and
the submit and reconcile types exist). With them every invariant and every
action property that run `submission` checks, and the refinement, are proved.

* **Types.** `TypeInv` is `TypeOK` with `WorkerHasTask` (a worker that is not
  idle holds a task; without it nothing could be said of `AppOf` of a worker).
  It is shown of each operation of the queue, then of each action.
* **At most one click.** `AtMostOneClick` alone is not inductive: a worker that
  holds a permit will click, so permits have to be counted before they are
  used. `ClickInv` adds, in the order the argument needs them:
  `FencesIssued` (no worker or attempt has a fence above the counter)
  and `FencesDistinct` (no two workers hold one fence); `NotBegunYet` (a worker
  before `begin` finds no attempt under its fence); `HandleIsOwn` (a worker
  holding a handle owns the attempt under its fence); `PermitUnused` (a
  permitted worker's application has no click yet); `ClickedWasDispatched` (a
  clicked application has a dispatched attempt, which is live);
  `SingleLiveAttempt`. All but `ClickedWasDispatched` is `FenceInv`, which a
  restored database keeps as well. A click needs a permit, which needs a dispatched and so a
  live attempt of this worker; a second click would need a second live attempt,
  which `begin` refuses. Recovery, aborts and the owner's operations only move
  attempts among states that stay live or were never dispatched.

* **Leases.** `LeaseInv` is `LeasesStayAdmissible` with the finiteness of
  `Leased`, without which counting leases means nothing. Only a claim adds a
  lease, and it counts and compares after it has recovered the expired ones; a
  control that closes the gate cancels the leases to submit in the same step.
* **What becomes of a submission.** `OutcomeInv` is built from the tables outwards.
  `TablesAgree`: an attempt and its application are written by different operations
  under different guards, so it has to be shown that a standing attempt
  (`IN_FLIGHT`, `UNKNOWN`, `CONFIRMED`) has its application standing likewise, that
  no application stands so without one, and that the one in flight is that of
  the `commit_fence`. `WorkInv` relates the queue to both: a lease stands behind
  every application in flight, a reconcile task behind every unknown outcome.
  Recovery enqueues that task under a dedupe key, so one that was used up would
  be in the way: `ReconcileFollowsLoss` says that there is none before an
  attempt was lost. `EmployerInv` comes last: what reached the employer was
  dispatched, what is on record is what it answered, and what a worker takes to have
  happened (`Heard`) did, for a worker writes what it has heard long after.
  `RecordNeverForgotten`, `ConfirmedIsReal` and `UncertainHasWork` follow from
  these together and from none alone.
* **Finality.** A step that settles an attempt finds it in the state the invariant
  gives it; so `OutcomeIsFinal` is proved of each action under `OutcomeInv`, and
  `StaleWorkerWritesNothing` under `TypeInv` from the guards of the operations.
* **Refinement.** The mapping reads the phase off *the* live attempt and the answer
  off *the* attempt that was pressed. `PhaseReads` and `AnswerReads` show that under
  `ClickInv` and `EmployerInv` there is one; then each action is a step
  of `SubmitOnce` for the application it is about, or changes neither phase,
  clicks nor answer of any. Recovery may settle many applications in one step,
  which is why `Lose` takes any set of them.

### Preparation

`PrepSpec` adds documents to the same protocol; the theorems hold for any number of
applications, preparations, workers, packets and policies.

* **Types.** The shared steps are typed by `TypeStep` of `SubmissionProofs`;
  `AnswersKnown` adds that a worker which will have its packet made again
  remembers a policy that exists.
* **Ready and on offer.** `ReadyIsInspected` says nothing of a worker that has yet
  to save its packet and enqueue an inspection of it, or of an inspection queued for
  an older packet. `DocInv` adds that a packet that is looked at, or will be,
  was saved before now and lacked nothing if it is still the newest
  (`InspectedComplete`, `QueuedComplete`), and that the profile of the current
  version is that of every later version until one is published (`ProfileStands`).
  Most steps put nothing on offer and touch no packet (`Quiet`), and one lemma
  (`QuietKeeps`) deals with all of them.
* **Leases.** Tasks to prepare, inspect, submit and reconcile share one queue. The
  lemmas of `SubmissionProofs` about each operation of it, whatever the type
  of the task, are used again; what documents add are rows that are not leased,
  and leases that are cancelled.

### Restores

`SubmittedIsHeld`, `AtMostOneClick` and `AssertedStays` of `RestoresSpec` hold for any number
of applications, preparations, workers, copies, restores and restore runs, from the
assumptions of the modules and one more, `~Overlapping`: no history is asserted of an
application while a packet of it is being drafted. The assumption is needed: `savePacket` does
not look at the application again and takes up what has just been asserted; run `history` shows what
comes of asserting beside the pipeline.

* **Why another invariant.** `ClickedWasDispatched`, on which at most one click rests in
  `Submission`, is what a restore destroys: the employer holds what the copy has no attempt
  of. `Held` takes its place: while the database is not blocked, an application that was
  pressed is barred by a review, or has an attempt on record that went out or
  may have (`OnRecord`), or is asserted, or is history without an application.
  `begin` finds none of these, so what it takes up was never pressed, and
  `Unsent` carries that to the dispatch.
* **The pipeline.** That no step but `begin` undoes `Held` is shown once for all of them:
  `Kept` says that a step makes nothing of a vacancy without an application, takes up nothing
  that was asserted and moves nothing past submission that was not there. For the
  steps that save a packet this needs `PastInv`: what is being drafted belongs to an
  application there is (`DraftsKnown`) and is not asserted (`AssertedUndrafted`).
* **Blocked.** `Held` says nothing of a blocked database; it has to be true again
  when the run is released. `ReviewInv` says what a blocked database is kept to until then:
  nothing is in flight, a receipt stays on record (`ReceiptsStand`), and of what the open run
  does not review nothing comes to be submitted and what is asserted has been applied
  (`Unreviewed`). With the owner's attestation that yields `Held`.
* **Copies.** `DatabaseSound` is what `block` needs of the database it is run on: its types,
  one live attempt for each application, fences below its own counter, receipts on record. A
  copy has it because the database had it when the copy was taken (`DatabaseIsSound`).
  Nothing is needed of how the copy relates to what happened after it: `BlockHolds` draws
  all the rest from what `block` writes.

### Exceptions

`SkippedStays` and `BlockIsShown` of `ExcSpec` hold for any number of applications,
preparations, workers, packets and policies, under two conditions, both of which
are needed; `ReadyIsInspected` holds without them. Without `~SkipsDrafts` an application is skipped while a packet of it is
being drafted, and saving that packet takes it up again: the save of
section 4 that does not look at the state. With `"invalidate"` among the `Events` it is
`invalidate` (document-repository.ts:369) that moves it: of the states whose
applications it leaves alone SKIPPED is none, so when the owner opens an old packet of a
skipped application whose file has changed, the application waits for review
again. Run `exceptions` has the same two conditions.

* **Skipped stays skipped.** Nearly every step looks at the state before it
  moves an application, and none finds SKIPPED among what it looks for.
  `SkipsStand` says that of a step: it neither skips nor takes up what was
  skipped, and begins to draft only for what was not. It is shown once for each
  group of steps (the protocol's, the owner's, those on documents). Saving a packet is the
  one that does not look, which is why the property is not inductive:
  `SkippedUndrafted` says that there is nothing of a skipped application to be saved, by a
  worker or by a request of the owner's.
* **Questions are shown.** No step but an answer takes the notice of a question away,
  and the answer takes the question with it; a skip takes the notice alone, so
  `BlockIsShown` rests on the first theorem. `OwedBusy` says that
  a worker which owes a notice still has its task, and so an application to
  write it for.
* **Ready beside the owner.** `InspectedComplete`, from which `ReadyIsInspected` follows
  in `Preparation`, is not an invariant here: rebuilding with a question open
  queues an inspection of a packet that lacks an answer. `ReadyInv` says instead what is
  true of the workers that have looked (`InspectedKnown`): the packet of their key lacked
  nothing if it is still the newest. A key keeps its packet once its row is in
  the queue, and no row is ever taken away, so that the row a worker was handed
  (`RowsKnown`) still stands for the packet it read. Neither the state of the
  application nor what is drafted matters, so a skip or a file that went bad
  in between does no harm.

### Employer accounts

These hold of `EmployerAccounts` for any sets of accounts, requests, mails and
copies, from `AccountsAssumption` alone.

* **At most one signup.** `OneSignup` needs to know what a restore may bring
  back. `SignupInv` says that an account id has at most one request holding a
  permit, and none once its signup has been posted; that an account shown as
  `prepared`, and an id never handed out, are *fresh*: not posted, and no request
  holds a permit for them (a permit is only given together with the step to
  `signup_in_flight`). `Known` says that ids in the database or in a copy have
  been handed out. A restore keeps that although its copy may show `prepared`
  what has been posted since, because `Revoked` locks every account that is not
  closed; if it spared the prepared ones the invariant would be lost exactly
  there.
* **True accounts.** `RealInv` follows what a request or a dispatcher knows before
  it writes it: one that was accepted was registered, one whose proof arrived was
  verified, and a link, in the database or in a copy, is of an account that the
  employer made wait for it.
* **One link.** A link is requested by a dispatcher that has read its row some
  steps before. `DispatchInv` says that it works on a link in flight and that no other
  works on that account; `OpenedInv` that while an account waits for a
  verification the database knows of the link it was opened with and that its
  outcome is uncertain. A restore, which may forget that link, leaves no account
  waiting.
* **Redirects.** `LateInv`: while activity is permitted no request was late, and a
  dispatcher about to send one has not been late before.

### Graph runs, batches and handoffs

`BudgetKept` and `BatchesIsolate` hold of `GraphSpec` for any graph of nodes, any
batch and any budgets, `CurrentFormSubmitted` of `HandoffSpec` for any lifetimes
and any number of sessions and requests.

* **Budgets.** That a run is charged no more than was declared does not follow
  from the charge alone: the answer of a node is charged after it was asked.
  `GraphInv` adds `Covered`: what is reserved for the node under way, still
  counted by the run's row, covers what it may yet be charged, and a node
  answered by a checkpoint counts no request. Reserving tests the budget,
  answering uses what was reserved, completing gives back the rest. `LedgerInv`
  says the same of a batch.
* **Isolation.** `BatchInv` says that every item is in a group still to be run, or in
  none yet, or has its result (`NoneLost`), and that a result given is the one the item
  deserves (`Deserved`): an output it does not spoil; or, unless calls, time or quota ran out, a
  refusal for what it is itself or for a call that failed with nothing else in it.
  Splitting a group keeps the first because its halves hold all of its items.
* **Current form.** `begin` looks only at the newest session that is over.
  `HandoffInv` shows why that is enough: `Ordered` says that only the newest
  session may be active and that an older one was completed no later than a
  newer one was, or could at the latest be. `DispatchSealed` says that from `begin` until
  the outcome the form submitted is newer than every completion and every
  session has ended, because no other operation opens a session in that stage.

### Mail, quota, archives, scans, experiments and forms

Each of these holds of its component's own specification, whose initial states and
actions are those that run `services` checks, for every value of the constants that
meets the component's assumption: `OutcomesAssumption`, `InferenceAssumption`,
`DiscoveryAssumption`, `ExperimentsAssumption`, `FormsAssumption`,
`IdentitiesAssumption` and `MailboxAssumption` give the types of the constants and
little else: that what a packet backs is no question, that a portal has a form, that a
cohort is observed for a day at least, that a term is not negative, that a model is not
called "none", that Gmail answers a query with one page at least.

* **Mail and reports.** `OutcomesInv`: nothing is dated or was recorded after today,
  and what mail last noted stands unless something outranks it. A report of a past day
  counts what was recorded by then; what is appended is recorded today, so what was
  known of that day stays what it was. The newest event of some kind is picked by
  `LeastNumber`, the least-element principle of well-founded orders.
* **Cohorts.** `CapturesCorrected` tells the frozen milestones by a recursive function over
  the events. The prover knows of such a function only what a defining equation says, so
  `Holding` is unfolded: its descent is bounded by the revision, a function that meets
  the equation exists for every length (`Unfoldable`), and what two of them differ in would
  have a least revision. `CaptureInv` adds that every reversal restores an earlier event
  and that events are recorded in their order (`Chained`), without which
  the equation would define nothing, and that nothing recorded after the capture is
  among what was frozen (`Frozen`).
* **Identities.** `OnePerVacancy` speaks of chains of merged jobs of any length.
  `VacancyInv` shows that there is none longer than one (`Flat`): a job that others were
  merged into is not merged again. What a merge keeps and a split brings back is then
  a matter of two jobs: `BornInOrder` tells their applications apart by age, `OneSent`
  says that one at most reached the employer or may have, `OneStands` that not all are set
  aside. `StateTells` is what the guards rest on, which look at states: an application with an
  attempt that may have been sent shows it. It holds under the assumption
  `~DraftsOverlap` only, which `IdentitiesOnce`, `IdentitiesType` and the
  three theorems of `ServicesSpec` therefore state. The state NEEDS_REVIEW is not
  counted by itself: `Invalidate` gives it to a duplicate beside the application that was sent.
* **Mailbox.** `MailInv`: leases are told apart by their generation (`LeasesApart`), a
  checkpoint that is kept has something left, and what is left of a page is of the page
  that its context is at (`CursorResumable`). `InspectedIsObserved` is what a crash
  between ingest and shift needs: what the syncer that holds the lease has in
  memory as inspected, of contexts that waited all along, is in the table.
* **Quota.** The quota's ledger only bounds the wire if whoever sends has paid:
  `RunnersTyped` says that a runner that sent holds a reservation which was
  spent, `WiredSpent` that what went over the wire in a day was spent in it, and
  `QuotaKept` that what is spent or reserved is within the limits of class and day.
* **Archives.** `CaptureSound`, `ArchiveSound`, `RestoringSound` and `RestoredSound`
  say at every step of a copy or of a restore what its checks have established so far,
  of files that may be written beside it.
* **Scans.** A scan goes through several pollers, so `ScanSound` and `RowSound` say of
  the pages read, in the database and in each poller's memory, that they are of the
  revision they were begun under; `LeaseFresh` that whoever holds the lease read its own
  pages under it. `OpenIsCounted` ties open listings to what the source last counted.
* **Experiments.** `TrialInv`: a letter that is assigned has its application
  assigned with it, and what is sent is in flight. `Undisturbed` says of a step that it neither
  sends, nor reassigns; every step but the dispatch is that, and the dispatch compares.
* **Forms.** `FormsInv` follows a plan from its dry run to the post. `ReadySound`
  says what a preparation that ended ready has established: every step planned, each
  entry of the synthetic form the packet's own value, and neither fixture that
  posts or overwrites by itself can have passed. `CommitSound` says that a commit enters these
  plans and that what it entered stands, except for what the page put over it after it was read
back (`late`). The adapter of the synthetic form does not look at its first step
  again, so the invariant carries the one value that may be overwritten there:
  the dry run would have seen it unless the second step enters it anew, and so will the commit
  (`LosesName`). Permit and post then add `AllApproved` and `AllEntered`. `WireSound` says that
  a post ends the pass, or blocks every other write of it.

### The components side by side

In `ServicesSpec` one component takes the steps and the others stand (`OneSteps`), so what each
keeps alone it keeps there: `EachStands` and `EachMoves` state all of run `services`, for every
value of the constants under which no draft ends behind what was sent (`~DraftsOverlap`).
`ServicesType` says more than the components' invariants do. The type
invariant of the run sets bounds that the code keeps but the other properties do not
need, and each has its strengthening: a packet that is named was saved (`PacketsNamed`), the
counts of a source are of postings that exist (`SourceBounded`), an answer is within the limits
of its question (`AnswersFit`), only nodes of the graph are checkpointed, a batch counts no
more requests than it has.

### Only model-checked

Liveness under `Fairness` (run `submission_live`) is out of the prover's reach. `ImplementsSubmitOnce`
is proved of `Spec`, the safety of the protocol, which is also what `SubmitOnce` states. Every
invariant and action property of the passing runs is proved.

## 6. Not modelled

* The readers of single providers and the normalising of what they return
  (`packages/discovery`), the correlation of a message with a context
  (`email/src/correlation.ts`), the scoring of a vacancy (`packages/matching`) and the
  extraction of a profile (`packages/candidate`): functions of texts, with no
  state and no order of events. The models take what they return as any outcome.
* Drafting, validating and rendering documents (`packages/documents`): the same;
  their storage is in `Recovery`.
* Calibration and coverage reports: sums over rows that nobody else reads.
* Encryption itself, logging, configuration, scripts.
* The web console: it shows and posts what the API offers.
* The loop of the supervisor: that a worker dies anywhere and is started again is
  `Crash` and `Poll`.
