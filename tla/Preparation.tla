----------------------------- MODULE Preparation -----------------------------
(***************************************************************************)
(* How an application gets to READY, beside the submission protocol it     *)
(* shares the queue and the applications table with: the assessment of a   *)
(* vacancy enqueues a prepare task; its worker drafts a document packet    *)
(* and saves it (packages/persistence/src/document-repository.ts); an      *)
(* inspect task takes the packet to the employer's form                    *)
(* (apps/worker/src/inspection.ts) and saves a browser preparation, which  *)
(* enqueues the submit task.  The owner may have packets generated, retry  *)
(* what is blocked, and change profile or authorization meanwhile.         *)
(*                                                                         *)
(* A key names one task of each type; which packet or preparation a task   *)
(* is about is recorded apart (brief, looks).                              *)
(***************************************************************************)
EXTENDS Submission

CONSTANTS
  MaxPacket,    \* bound: packets ever saved for an application
  Events        \* bound: what may happen besides the work itself

ASSUME PreparationAssumption ==
  /\ {"prepare", "inspect"} \subseteq Types
  /\ MaxPacket \in Nat
  /\ Events \subseteq {"generate", "inspect", "retry", "publish", "authorize",
                      "revoke", "control", "reopen", "invalidate"}

VARIABLES
  profileOf,   \* the profile that was active with each policy version
  brief,       \* payload of each prepare task
  looks,       \* packet each inspect task is about, 0 before it is enqueued
  incomplete,  \* applications whose newest packet lacks an answer
  requests     \* packets being built for the owner, in the API process

docVars == <<profileOf, brief, looks, incomplete, requests>>
prepVars == <<vars, docVars>>

NoBrief == [profile |-> 0, refresh |-> FALSE]
Profile == profileOf[policy]

\* A task row is inserted unless its dedupe key is taken.
Unused(type, k) == tasks[Task(type, k)].state = "absent"
Enqueue(type, k) == tasks' = [tasks EXCEPT ![Task(type, k)] = ReadyRow]

\* Advance, remembering the policy, packet or revision the worker has read.
Remember(w, pc, value) ==
  worker' = [worker EXCEPT ![w].pc = pc, ![w].revision = value]

Assessed(a, profile) ==
  \E k \in Keys : /\ AppOf[k] = a /\ ~Unused("prepare", k)
                  /\ brief[k].profile = profile /\ ~brief[k].refresh

-----------------------------------------------------------------------------
(* Matching: packages/inference/src/gateway.ts and matching-repository.ts   *)

\* Each of the two transitions is a transaction of its own.
Qualify(a) ==
  /\ authority # "outdated"
  /\ \/ apps[a].state = "NORMALIZED" /\ MoveApp(a, "ASSESSED", 1)
     \/ apps[a].state = "ASSESSED" /\ MoveApp(a, "ELIGIBLE", 1)
  /\ UNCHANGED <<control, quarantined, tasks, attempts, nextFence, workVars, docVars>>

\* saveAssessment does not look at the application again: the profile it was
\* assessed against may have been replaced, and one already submitted may be
\* assessed for a new profile.
SaveAssessment(k, profile) ==
  LET a == AppOf[k] IN
  /\ Unused("prepare", k) /\ ~Assessed(a, profile)
  /\ profile = Profile => apps[a].state \notin {"NORMALIZED", "ASSESSED", "CONFIRMED"}
  /\ Enqueue("prepare", k)
  /\ brief' = [brief EXCEPT ![k].profile = profile]
  /\ UNCHANGED <<control, quarantined, apps, attempts, nextFence, workVars,
                 profileOf, looks, incomplete, requests>>

-----------------------------------------------------------------------------
(* The worker: the prepare task                                             *)

\* validPacket: a valid packet made for the task's own assessment.
Retained(w) ==
  LET k == worker[w].task.key a == AppOf[k] IN
  /\ ~brief[k].refresh
  /\ packet[a].valid /\ profileOf[packet[a].policy] = brief[k].profile

\* queueInspection is left out for a packet that lacks an answer.
AfterPacket(w, serial, lacking) ==
  IF lacking THEN Advance(w, "settled") ELSE Remember(w, "saved", serial)

Retain(w) ==
  LET a == AppOfWorker(w) IN
  /\ worker[w].pc = "claimed" /\ worker[w].task.type = "prepare"
  /\ Retained(w)
  /\ AfterPacket(w, packet[a].serial, a \in incomplete)
  /\ UNCHANGED <<queueVars, policy, authority, packet, prep, latest, employer,
                 clicks, docVars>>

StartPreparing(w) ==
  LET a == AppOfWorker(w) IN
  /\ worker[w].pc = "claimed" /\ worker[w].task.type = "prepare"
  /\ ~Retained(w)
  /\ IF apps[a].state = "ELIGIBLE" THEN MoveApp(a, "PREPARING", 1) ELSE UNCHANGED apps
  /\ Advance(w, "preparing")
  /\ UNCHANGED <<control, quarantined, tasks, attempts, nextFence, policy, authority,
                 packet, prep, latest, employer, clicks, docVars>>

\* Faulty: an application that was asserted as submitted, or skipped, is prepared again.
PreparableEnded ==
  {"ELIGIBLE", "PREPARING", "PREPARED", "NEEDS_INPUT", "HISTORICAL_SUBMITTED", "SKIPPED"}

\* generationInput: the only look at the application's state there is.
Preparable == {"ELIGIBLE", "PREPARING", "PREPARED", "NEEDS_INPUT"}

Draft(w) ==
  /\ worker[w].pc = "preparing"
  /\ apps[AppOfWorker(w)].state \in Preparable
  /\ brief[worker[w].task.key].profile = Profile
  /\ Remember(w, "drafted", policy)
  /\ UNCHANGED <<queueVars, policy, authority, packet, prep, latest, employer,
                 clicks, docVars>>

\* Faulty: a new packet leaves an application that was READY as it is.
StateWithReady(a, lacking) ==
  CASE apps[a].state = "READY" -> "READY"
    [] lacking -> "NEEDS_INPUT"
    [] OTHER -> "PREPARED"

StateWith(a, lacking) == IF lacking THEN "NEEDS_INPUT" ELSE "PREPARED"

\* savePacketIn, as far as it stores a packet: neither the application's state
\* nor any lease is looked at, and every intent of the application goes invalid
\* with the packets before (attempts[f].packet falls behind packet[a].serial).
StorePacket(a, made, lacking) ==
  /\ made = policy /\ authority # "revoked"
  /\ packet[a].serial < MaxPacket
  /\ packet' = [packet EXCEPT ![a] =
       [serial |-> @.serial + 1, policy |-> made, valid |-> TRUE]]
  /\ incomplete' = IF lacking THEN incomplete \cup {a} ELSE incomplete \ {a}
  /\ MoveApp(a, StateWith(a, lacking), 1)

\* preserveValidAssessment, for every prepare task but a refresh.
Preserved(w) ==
  LET k == worker[w].task.key a == AppOf[k] IN
  ~brief[k].refresh /\ packet[a].valid /\ packet[a].policy = policy

SavePacket(w, lacking) ==
  LET a == AppOfWorker(w) IN
  /\ worker[w].pc = "drafted"
  /\ ~Preserved(w)
  /\ StorePacket(a, worker[w].revision, lacking)
  /\ AfterPacket(w, packet[a].serial + 1, lacking)
  /\ UNCHANGED <<control, quarantined, tasks, attempts, nextFence, policy, authority,
                 prep, latest, employer, clicks, profileOf, brief, looks, requests>>

PreservePacket(w) ==
  LET a == AppOfWorker(w) IN
  /\ worker[w].pc = "drafted"
  /\ Preserved(w) /\ worker[w].revision = policy /\ authority # "revoked"
  /\ AfterPacket(w, packet[a].serial, a \in incomplete)
  /\ UNCHANGED <<queueVars, policy, authority, packet, prep, latest, employer,
                 clicks, docVars>>

\* The inspect task is keyed by the packet, so it is enqueued at most once.
QueueInspection(w) ==
  LET a == AppOfWorker(w) serial == worker[w].revision IN
  /\ worker[w].pc = "saved"
  /\ IF \E k \in Keys : AppOf[k] = a /\ looks[k] = serial
     THEN UNCHANGED <<tasks, looks>>
     ELSE \E k \in Keys : /\ AppOf[k] = a /\ Unused("inspect", k)
                          /\ Enqueue("inspect", k)
                          /\ looks' = [looks EXCEPT ![k] = serial]
  /\ Advance(w, "settled")
  /\ UNCHANGED <<control, quarantined, apps, attempts, nextFence, policy, authority,
                 packet, prep, latest, employer, clicks, profileOf, brief, incomplete,
                 requests>>

-----------------------------------------------------------------------------
(* The worker: the inspect task                                             *)

\* States in which there is nothing left to inspect.
Beyond ==
  { "READY", "INTENT_RECORDED", "IN_FLIGHT", "UNKNOWN", "RECONCILING",
    "NEEDS_REVIEW", "CONFIRMED", "HISTORICAL_SUBMITTED", "SKIPPED", "CLOSED",
    "DUPLICATE" }

LooksAtNewest(w) ==
  LET a == AppOfWorker(w) IN
  packet[a].valid /\ packet[a].serial = looks[worker[w].task.key]

\* The lease is renewed and the state and revision are read before anything is
\* checked; what the checks refuse throws, which is GiveUp.
Look(w) ==
  LET a == AppOfWorker(w) IN
  /\ worker[w].pc = "claimed" /\ worker[w].task.type = "inspect"
  /\ Renew(worker[w].task, worker[w].fence)
  /\ IF apps[a].state \in Beyond
     THEN Advance(w, "settled")
     ELSE /\ LooksAtNewest(w)
          /\ packet[a].policy = policy /\ authority # "revoked"
          /\ LiveOf(a) = {}
          /\ Remember(w, "looked", apps[a].revision)
  /\ UNCHANGED <<policy, authority, packet, prep, latest, employer, clicks, docVars>>

\* No adapter serves the vacancy's address.
RouteUnsupported(w) ==
  LET a == AppOfWorker(w) IN
  /\ worker[w].pc = "looked"
  /\ IF apps[a].state = "UNSUPPORTED" THEN UNCHANGED apps
     ELSE /\ CanTransition(apps[a].state, "UNSUPPORTED")
          /\ MoveApp(a, "UNSUPPORTED", 1)
  /\ Advance(w, "settled")
  /\ UNCHANGED <<control, quarantined, tasks, attempts, nextFence, policy, authority,
                 packet, prep, latest, employer, clicks, docVars>>

\* The form has been filled in, and the lease is renewed once more.
ConfirmLease(w) ==
  /\ worker[w].pc = "looked"
  /\ Renew(worker[w].task, worker[w].fence)
  /\ Advance(w, "renewed")
  /\ UNCHANGED <<policy, authority, packet, prep, latest, employer, clicks, docVars>>

\* save with the revision the worker had read.  A submit task is queued if the
\* authorization it had read submits by itself: while that one is current it
\* has the mode it was read with, unless it has been revoked since.
SaveInspection(w, k, status) ==
  LET a == AppOfWorker(w) IN
  /\ worker[w].pc = "renewed"
  /\ AppOf[k] = a
  /\ LooksAtNewest(w)
  /\ apps[a].revision = worker[w].revision
  /\ \E queueSubmit \in BOOLEAN :
       /\ authority # "revoked" => queueSubmit = (authority = "auto_submit")
       /\ SavePreparation(k, status, queueSubmit)
  /\ \/ Advance(w, "settled")
     \/ status = "needs_input" /\ Remember(w, "unanswered", policy)
  /\ UNCHANGED docVars

\* Another operation has moved the application on: the result is dropped.
DropInspection(w) ==
  /\ worker[w].pc = "renewed"
  /\ LooksAtNewest(w)
  /\ apps[AppOfWorker(w)].revision # worker[w].revision
  /\ Advance(w, "settled")
  /\ UNCHANGED <<queueVars, policy, authority, packet, prep, latest, employer,
                 clicks, docVars>>

\* Answer memory covers all the form asked for: the packet is made once more.
QueueAnswers(w, k) ==
  /\ worker[w].pc = "unanswered"
  /\ AppOf[k] = AppOfWorker(w) /\ Unused("prepare", k)
  /\ Enqueue("prepare", k)
  /\ brief' = [brief EXCEPT ![k] =
       [profile |-> profileOf[worker[w].revision], refresh |-> TRUE]]
  /\ Advance(w, "settled")
  /\ UNCHANGED <<control, quarantined, apps, attempts, nextFence, policy, authority,
                 packet, prep, latest, employer, clicks, profileOf, looks, incomplete,
                 requests>>

-----------------------------------------------------------------------------
(* The owner, through the API                                               *)

\* POST /v1/documents/generate: generationInput, then after the packet has been
\* built, savePacket.  One request at a time is a bound of the model.
RequestPacket(a) ==
  /\ requests = {}
  /\ apps[a].state \in Preparable /\ Assessed(a, Profile)
  /\ requests' = {[app |-> a, policy |-> policy]}
  /\ UNCHANGED <<vars, profileOf, brief, looks, incomplete>>

SaveRequested(r, lacking) ==
  /\ StorePacket(r.app, r.policy, lacking)
  /\ requests' = requests \ {r}
  /\ UNCHANGED <<control, quarantined, tasks, attempts, nextFence, policy, authority,
                 prep, latest, worker, employer, clicks, profileOf, brief, looks>>

\* The request fails, or the API process ends.
LoseRequest(r) ==
  /\ requests' = requests \ {r}
  /\ UNCHANGED <<vars, profileOf, brief, looks, incomplete>>

\* resumeIn: the owner retries a blocked application or has answered for it.
Resumable ==
  {"NEEDS_INPUT", "CHALLENGE_REQUIRED", "UNSUPPORTED", "RETRY_WAIT", "PAUSED"}

Resume(k) ==
  LET a == AppOf[k] IN
  /\ ~control.restoreBlocked /\ a \notin quarantined
  /\ apps[a].state \in Resumable
  /\ LiveOf(a) = {} /\ Assessed(a, Profile) /\ Unused("prepare", k)
  /\ tasks' = [t \in TaskIds |->
       IF t = Task("prepare", k) THEN ReadyRow
       ELSE IF /\ AppOf[t.key] = a /\ t.type \in {"prepare", "inspect"}
               /\ tasks[t].state \in {"ready", "retry_wait", "leased"}
            THEN [tasks[t] EXCEPT !.state = "cancelled", !.lease = 0]
            ELSE tasks[t]]
  /\ brief' = [brief EXCEPT ![k] = [profile |-> Profile, refresh |-> TRUE]]
  /\ MoveApp(a, "PREPARING", 1)
  /\ UNCHANGED <<control, quarantined, attempts, nextFence, workVars, profileOf,
                 looks, incomplete, requests>>

\* A stored artifact does not match its hash any more, or the letter fails a
\* check that was tightened: noticed by whoever reads the packet.
Untouched ==
  { "CONFIRMED", "HISTORICAL_SUBMITTED", "IN_FLIGHT", "UNKNOWN",
    "INTENT_RECORDED", "RECONCILING" }

Invalidate(a, letter) ==
  /\ packet[a].valid
  /\ packet' = [packet EXCEPT ![a].valid = FALSE]
  /\ IF apps[a].state \in Untouched THEN UNCHANGED apps
     ELSE MoveApp(a, IF letter /\ ~\E f \in Fences : OfApp(f, a)
                     THEN "NEEDS_INPUT" ELSE "NEEDS_REVIEW", 1)
  /\ UNCHANGED <<control, quarantined, tasks, attempts, nextFence, policy, authority,
                 prep, latest, worker, employer, clicks, docVars>>

-----------------------------------------------------------------------------
DocumentStep(w) ==
  \/ Retain(w) \/ StartPreparing(w) \/ Draft(w) \/ PreservePacket(w)
  \/ \E lacking \in BOOLEAN : SavePacket(w, lacking)
  \/ QueueInspection(w)
  \/ Look(w) \/ RouteUnsupported(w) \/ ConfirmLease(w) \/ DropInspection(w)
  \/ \E k \in Keys, status \in Statuses : SaveInspection(w, k, status)
  \/ \E k \in Keys : QueueAnswers(w, k)

\* What goes on beside the documents, as in module Submission.
SubmissionStep ==
  /\ \/ \E w \in Workers : WorkerStep(w) \/ Poll(w) \/ Crash(w) \/ RenewLease(w)
     \/ \E f \in Fences, answer \in {"recorded", "rejected", "lost"} :
          EmployerAnswer(f, answer)
     \/ \E t \in TaskIds : Elapse(t) /\ UNCHANGED workVars
  /\ UNCHANGED docVars

\* The further patches of the pause route.
PreparationPatches == {[control EXCEPT !.preparationPaused = ~@]}

\* The patches that open what is closed.
OpeningPatches ==
  {[control EXCEPT !.submissionsPaused = FALSE], [control EXCEPT !.preparationPaused = FALSE]}

\* What the owner may do to submissions, as in module Submission (but for
\* cancelTask, which no route of the API reaches).
OwnerSubmissionStep ==
  /\ \/ /\ "inspect" \in Events
        /\ \E k \in Keys, status \in Statuses, queueSubmit \in BOOLEAN :
             AppOf[k] \notin incomplete /\ Save(k, status, queueSubmit)
     \/ /\ "authorize" \in Events
        /\ \E autoSubmit \in BOOLEAN : SaveAuthorization(autoSubmit)
     \/ "revoke" \in Events /\ RevokeAuthorization
     \/ \E patched \in (IF "control" \in Events THEN ControlPatches \cup PreparationPatches
                        ELSE IF "reopen" \in Events THEN OpeningPatches ELSE {}) :
          SetControl(patched) /\ UNCHANGED workVars
  /\ UNCHANGED docVars

\* A new profile holds for the policy versions from here on.
PublishNewProfile ==
  /\ "publish" \in Events
  /\ PublishProfile
  /\ profileOf' = [p \in 0 .. MaxPolicy |-> IF p > policy THEN policy + 1 ELSE profileOf[p]]
  /\ UNCHANGED <<brief, looks, incomplete, requests>>

OwnerDocumentStep ==
  \/ /\ "generate" \in Events
     /\ \/ \E a \in Apps : RequestPacket(a)
        \/ \E r \in requests, lacking \in BOOLEAN : SaveRequested(r, lacking)
        \/ \E r \in requests : LoseRequest(r)
  \/ "retry" \in Events /\ \E k \in Keys : Resume(k)
  \/ PublishNewProfile

Matching ==
  \/ \E a \in Apps : Qualify(a)
  \/ \E k \in Keys, p \in 0 .. policy : SaveAssessment(k, profileOf[p])

PrepNext ==
  \/ Matching
  \/ \E w \in Workers : DocumentStep(w)
  \/ /\ "invalidate" \in Events
     /\ \E a \in Apps, letter \in BOOLEAN : Invalidate(a, letter)
  \/ SubmissionStep
  \/ OwnerSubmissionStep
  \/ OwnerDocumentStep

NothingPrepared ==
  /\ QueueInit
  /\ policy = 0 /\ authority = "auto_submit"
  /\ packet = [a \in Apps |-> [serial |-> 0, policy |-> 0, valid |-> FALSE]]
  /\ prep = [k \in Keys |-> NoPrep] /\ latest = [a \in Apps |-> NoKey]
  /\ worker = [w \in Workers |-> Idle]
  /\ employer = [f \in Fences |-> "none"] /\ clicks = [a \in Apps |-> 0]
  /\ profileOf = [p \in 0 .. MaxPolicy |-> 0]
  /\ brief = [k \in Keys |-> NoBrief] /\ looks = [k \in Keys |-> 0]
  /\ incomplete = {} /\ requests = {}

PrepInit == NothingPrepared /\ apps = AppsIn("NORMALIZED")

PrepSpec == PrepInit /\ [][PrepNext]_prepVars

-----------------------------------------------------------------------------
(* Properties                                                               *)

\* An application shown as ready is ready with what would be sent: its newest
\* preparation was filled in without a gap, from the packet that is valid now.
\* Slow inspectors, new packets and invalidations all leave that true.
ReadyIsInspected ==
  \A a \in Apps : apps[a].state = "READY" =>
    /\ latest[a] \in Keys
    /\ prep[latest[a]].status = "ready"
    /\ packet[a].valid /\ prep[latest[a]].packet = packet[a].serial
    /\ a \notin incomplete

\* Nothing that was made for a replaced profile stays on offer: what a publish
\* finds is discarded, and what was under way then is refused when it is saved.
PreparedForProfile ==
  \A a \in Apps : apps[a].state \in {"PREPARED", "READY"} =>
    packet[a].valid /\ profileOf[packet[a].policy] = Profile

\* The transition table of the lifecycle says how an application may leave
\* IN_FLIGHT, and ADR-001 that only its outcome or a reconciliation settles
\* it: nothing that prepares documents takes it back.
InFlightIsSettled ==
  [][\A a \in Apps :
       apps[a].state = "IN_FLIGHT" /\ apps'[a].state # "IN_FLIGHT" =>
         CanTransition("IN_FLIGHT", apps'[a].state)]_prepVars
=============================================================================
