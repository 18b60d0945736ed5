----------------------------- MODULE Submission ------------------------------
(***************************************************************************)
(* The submission protocol: the worker loop of apps/worker/src/main.ts     *)
(* driving packages/persistence/src/submission-repository.ts, on top of    *)
(* the task queue.  A worker leases a submit task, records an intent and   *)
(* an in-flight attempt (Begin), obtains a single-use permit               *)
(* (AuthorizeDispatch), presses the employer's submit button (Click) and   *)
(* stores what came of it.  A worker may be slow, fail or crash between    *)
(* any two steps and goes on acting on what it read before; whatever it    *)
(* leaves behind is settled by a read-only reconcile task.                 *)
(*                                                                         *)
(* Every database transaction is one action.  A refused transaction throws *)
(* and the worker's catch block calls fail: that is GiveUp, which may      *)
(* happen at any point, so reasons to refuse that the model leaves out     *)
(* (form drift, the 30-minute age of a preparation, an open handoff, the   *)
(* daily limit, storage errors) are among its behaviours.                  *)
(***************************************************************************)
EXTENDS TaskQueue

CONSTANTS
  Workers,      \* worker processes
  PollTypes,    \* the lists of task types a poll may claim with
  Statuses,     \* outcomes of a form inspection in use
  MaxPolicy     \* bound: profile and authorization versions

ASSUME SubmissionAssumption ==
  /\ PollTypes \subseteq SUBSET Types
  /\ Statuses \subseteq {"ready", "needs_input", "challenge", "unsupported"}
  /\ MaxPolicy \in Nat

VARIABLES
  policy,       \* version of the active profile and authorization
  authority,    \* what that authorization still permits
  packet,       \* each application's newest document packet
  prep,         \* browser preparations, by key
  latest,       \* each application's newest preparation
  worker,       \* memory of each worker process
  employer,     \* what became of the click of each attempt, at the employer
  clicks        \* how often an application's final button was pressed

workVars == <<policy, authority, packet, prep, latest, worker, employer, clicks>>
vars == <<queueVars, workVars>>

NoTask == [type |-> "none", key |-> NoKey]
Idle == [pc |-> "idle", task |-> NoTask, fence |-> 0, revision |-> 0]
NoPrep == [status |-> "none", policy |-> 0, packet |-> 0]

WorkerStages ==
  {"idle", "claimed", "read", "begun", "permitted", "clicked", "accepted",
   "refused", "found", "missing", "settled",
   \* of the prepare and inspect tasks, in module Preparation:
   "preparing", "drafted", "saved", "looked", "renewed", "unanswered"}

\* The stages in which a worker holds the handle of an attempt it began.
HoldsHandle == {"begun", "permitted", "clicked", "accepted", "refused"}

AppOfWorker(w) == AppOf[worker[w].task.key]
Holds(w) == HasLease(worker[w].task, worker[w].fence)

\* An attempt that stops any further final action of its application.
Live(f) ==
  /\ attempts[f].state # "none"
  /\ attempts[f].state # "BLOCKED_BEFORE_DISPATCH" \/ attempts[f].dispatched
OfApp(f, a) == attempts[f].state # "none" /\ AppOf[attempts[f].key] = a
LiveOf(a) == {f \in Fences : OfApp(f, a) /\ Live(f)}

\* Faulty: an attempt the employer turned down no longer counts.
NoPriorAttemptUnsettled(a) ==
  \A f \in LiveOf(a) : attempts[f].state = "DEFINITIVE_FAILURE"

NoPriorAttempt(a) == LiveOf(a) = {}

\* Faulty: the stamp of an earlier dispatch is not looked at.
UndispatchedUnchecked(f) == TRUE

Undispatched(f) == ~attempts[f].dispatched

\* Faulty: the lease is not checked again with the outcome.
InFlightUnleased(w) ==
  LET a == AppOfWorker(w) f == worker[w].fence IN
  f \in Fences /\ attempts[f].state = "IN_FLIGHT" /\ apps[a].state = "IN_FLIGHT"

\* The worker's attempt and its application both are still in flight under the
\* commit fence of this worker: what every write about the outcome rechecks.
InFlight(w) ==
  LET a == AppOfWorker(w) f == worker[w].fence IN
  /\ Holds(w)
  /\ f \in Fences
  /\ attempts[f].state = "IN_FLIGHT"
  /\ apps[a].state = "IN_FLIGHT"
  /\ apps[a].commitFence = f

Advance(w, pc) == worker' = [worker EXCEPT ![w].pc = pc]
MoveApp(a, state, steps) ==
  apps' = [apps EXCEPT ![a].state = state, ![a].revision = @ + steps]

-----------------------------------------------------------------------------
(* Preparations: BrowserRepository.save, the only producer of submit tasks  *)

StateAfter(status) ==
  CASE status = "ready" -> "READY"
    [] status = "challenge" -> "CHALLENGE_REQUIRED"
    [] status = "unsupported" -> "UNSUPPORTED"
    [] OTHER -> "NEEDS_INPUT"

\* The application moves to INSPECTING and on in the same transaction.  What is
\* refused before the form is filled (validateFormPlan, the controls) belongs to
\* an earlier transaction and may be outdated by now: it is left out.
SavePreparation(k, status, queueSubmit) ==
  LET a == AppOf[k] state == apps[a].state IN
  /\ prep[k].status = "none"
  /\ packet[a].valid /\ packet[a].policy = policy
  /\ ~(/\ LiveOf(a) # {}
       /\ state \in {"UNKNOWN", "IN_FLIGHT", "RECONCILING", "CONFIRMED", "NEEDS_REVIEW"})
  /\ state # "INSPECTING" => CanTransition(state, "INSPECTING")
  /\ MoveApp(a, StateAfter(status), IF state = "INSPECTING" THEN 1 ELSE 2)
  /\ prep' = [prep EXCEPT ![k] =
       [status |-> status, policy |-> policy, packet |-> packet[a].serial]]
  /\ latest' = [latest EXCEPT ![a] = k]
  /\ tasks' = IF status = "ready" /\ queueSubmit
              THEN [tasks EXCEPT ![Task("submit", k)] = ReadyRow]
              ELSE tasks
  /\ UNCHANGED <<control, quarantined, attempts, nextFence, policy, authority,
                 packet, employer, clicks>>

\* Saved for the owner, through the API, with no revision to compare.
Save(k, status, queueSubmit) ==
  SavePreparation(k, status, queueSubmit) /\ UNCHANGED worker

-----------------------------------------------------------------------------
(* The owner's authority: candidate-repository.ts                           *)

LeasedSubmits == {t \in Leased : t.type = "submit"}

\* Faulty: an application that is ready is left to the inspection's recheck.
DiscardedUnready == {a \in Apps : apps[a].state \in Precommit \ {"READY"}}

\* publishProfile sends every application that has no outcome back to the
\* start, without consulting the transition table, and cancels its tasks; then
\* pauseCommits closes the submission gate over the submit leases that remain.
Discarded == {a \in Apps : apps[a].state \notin Parked}
Cancelled ==
  {t \in TaskIds : /\ AppOf[t.key] \in Discarded /\ t.type # "reconcile"
                   /\ tasks[t].state \in {"ready", "leased", "retry_wait"}}

PublishProfile ==
  LET rest == LeasedSubmits \ Cancelled
      recovered == RecoveredTasks(rest, TRUE)
      moved == RecoveredApps(rest)
  IN /\ policy < MaxPolicy
     /\ policy' = policy + 1
     /\ authority' = IF authority = "revoked" THEN "revoked" ELSE "outdated"
     /\ packet' = [a \in Apps |->
          IF a \in Discarded THEN [packet[a] EXCEPT !.valid = FALSE] ELSE packet[a]]
     /\ tasks' = [t \in TaskIds |->
          IF t \in Cancelled
          THEN [tasks[t] EXCEPT !.state = "cancelled", !.lease = 0]
          ELSE recovered[t]]
     /\ apps' = [a \in Apps |->
          IF a \in Discarded
          THEN [apps[a] EXCEPT !.state = "NORMALIZED", !.revision = @ + 1]
          ELSE moved[a]]
     /\ attempts' = RecoveredAttempts(rest)
     /\ control' = [control EXCEPT !.submissionsPaused = TRUE]
     /\ UNCHANGED <<quarantined, nextFence, prep, latest, worker, employer, clicks>>

\* saveAuthorization: a new version, whose mode decides whether the gate opens.
SaveAuthorization(autoSubmit) ==
  /\ policy < MaxPolicy
  /\ policy' = policy + 1
  /\ authority' = IF autoSubmit THEN "auto_submit" ELSE "review"
  /\ control' = [control EXCEPT !.submissionsPaused = ~autoSubmit]
  /\ RecoverTasks(LeasedSubmits, TRUE)
  /\ UNCHANGED <<quarantined, nextFence, packet, prep, latest, worker, employer, clicks>>

RevokeAuthorization ==
  /\ authority # "revoked"
  /\ authority' = "revoked"
  /\ control' = [control EXCEPT !.submissionsPaused = TRUE]
  /\ RecoverTasks(LeasedSubmits, TRUE)
  /\ UNCHANGED <<quarantined, nextFence, policy, packet, prep, latest, worker,
                 employer, clicks>>

-----------------------------------------------------------------------------
(* The worker: claiming, and the submit task                                *)

ClaimTask(w) ==
  /\ worker[w] = Idle
  /\ \E types \in PollTypes, t \in TaskIds :
       /\ Claim(types, t)
       /\ worker' = [worker EXCEPT ![w] =
            [pc |-> "claimed", task |-> t, fence |-> nextFence + 1, revision |-> 0]]
  /\ UNCHANGED <<policy, authority, packet, prep, latest, employer, clicks>>

PollNothing(w) ==
  /\ worker[w] = Idle
  /\ \E types \in PollTypes : ClaimNothing(types)
  /\ UNCHANGED workVars

\* The worker reads the application's revision, outside any transaction, and
\* presents it to begin as the revision it expects.
ReadRevision(w) ==
  /\ worker[w].pc = "claimed" /\ worker[w].task.type = "submit"
  /\ worker' = [worker EXCEPT ![w].pc = "read",
                              ![w].revision = apps[AppOfWorker(w)].revision]
  /\ UNCHANGED <<queueVars, policy, authority, packet, prep, latest, employer, clicks>>

\* begin: READY -> INTENT_RECORDED -> IN_FLIGHT with the attempt, at once.
Begin(w) ==
  LET k == worker[w].task.key a == AppOf[k] f == worker[w].fence IN
  /\ worker[w].pc = "read"
  /\ Holds(w)
  /\ a \notin quarantined
  /\ SubmissionsOpen
  /\ apps[a].state = "READY"
  /\ apps[a].revision = worker[w].revision
  /\ apps[a].commitFence = f
  /\ packet[a].valid /\ prep[k].packet = packet[a].serial
  /\ prep[k].status = "ready" /\ latest[a] = k
  /\ NoPriorAttempt(a)
  /\ authority = "auto_submit" /\ prep[k].policy = policy
  /\ MoveApp(a, "IN_FLIGHT", 2)
  /\ attempts' = [attempts EXCEPT ![f] =
       [key |-> k, state |-> "IN_FLIGHT", dispatched |-> FALSE,
        policy |-> policy, packet |-> prep[k].packet]]
  /\ Advance(w, "begun")
  /\ UNCHANGED <<control, quarantined, tasks, nextFence, policy, authority, packet,
                 prep, latest, employer, clicks>>

\* abortBeforeDispatch, from commit's catch block.  The worker does not know
\* whether the error came before the permit or after it.
AbortBeforeDispatch(w) ==
  LET f == worker[w].fence IN
  /\ worker[w].pc \in {"begun", "permitted", "clicked"}
  /\ InFlight(w)
  /\ Undispatched(f)
  /\ attempts' = [attempts EXCEPT ![f].state = "BLOCKED_BEFORE_DISPATCH"]
  /\ MoveApp(AppOfWorker(w), "UNSUPPORTED", 1)
  /\ Advance(w, "settled")
  /\ UNCHANGED <<control, quarantined, tasks, nextFence, policy, authority, packet,
                 prep, latest, employer, clicks>>

\* authorizeDispatch: rechecks everything begin relied on that may have been
\* withdrawn since, and stamps dispatch_started_at.
AuthorizeDispatch(w) ==
  LET a == AppOfWorker(w) f == worker[w].fence IN
  /\ worker[w].pc = "begun"
  /\ InFlight(w)
  /\ Undispatched(f)
  /\ SubmissionsOpen
  /\ a \notin quarantined
  /\ authority = "auto_submit" /\ attempts[f].policy = policy
  /\ packet[a].valid /\ attempts[f].packet = packet[a].serial
  /\ attempts' = [attempts EXCEPT ![f].dispatched = TRUE]
  /\ Advance(w, "permitted")
  /\ UNCHANGED <<control, quarantined, tasks, apps, nextFence, policy, authority,
                 packet, prep, latest, employer, clicks>>

\* Faulty: the button is pressed before the permit has been obtained.
MayClickEarly(w) == worker[w].pc \in {"begun", "permitted"}

MayClick(w) == worker[w].pc = "permitted"

\* The adapter presses the final button.  Nothing in the database is consulted
\* any more: the permit is good for ten seconds whatever happens to the lease.
Click(w) ==
  LET f == worker[w].fence IN
  /\ MayClick(w)
  /\ clicks' = [clicks EXCEPT ![AppOfWorker(w)] = @ + 1]
  /\ employer' = [employer EXCEPT ![f] = "sent"]
  /\ Advance(w, "clicked")
  /\ UNCHANGED <<queueVars, policy, authority, packet, prep, latest>>

\* The employer's system stores an application, turns it down for good, or the
\* request is lost on the way.
EmployerAnswer(f, answer) ==
  /\ employer[f] = "sent"
  /\ employer' = [employer EXCEPT ![f] = answer]
  /\ UNCHANGED <<queueVars, policy, authority, packet, prep, latest, worker, clicks>>

\* commit returns an outcome: a receipt correlated with the stored record, or
\* a rejection that left no record.  Anything else makes commit throw.
Respond(w) ==
  /\ worker[w].pc = "clicked"
  /\ \/ employer[worker[w].fence] = "recorded" /\ Advance(w, "accepted")
     \/ employer[worker[w].fence] = "rejected" /\ Advance(w, "refused")
  /\ UNCHANGED <<queueVars, policy, authority, packet, prep, latest, employer, clicks>>

\* confirmMockReceipt and its siblings: the receipt is stored with the change.
ConfirmReceipt(w) ==
  LET f == worker[w].fence IN
  /\ worker[w].pc = "accepted"
  /\ InFlight(w) /\ attempts[f].dispatched
  /\ attempts' = [attempts EXCEPT ![f].state = "CONFIRMED"]
  /\ MoveApp(AppOfWorker(w), "CONFIRMED", 1)
  /\ Advance(w, "settled")
  /\ UNCHANGED <<control, quarantined, tasks, nextFence, policy, authority, packet,
                 prep, latest, employer, clicks>>

RecordDefinitiveRejection(w) ==
  LET f == worker[w].fence IN
  /\ worker[w].pc = "refused"
  /\ InFlight(w) /\ attempts[f].dispatched
  /\ attempts' = [attempts EXCEPT ![f].state = "DEFINITIVE_FAILURE"]
  /\ MoveApp(AppOfWorker(w), "DEFINITIVE_FAILURE", 1)
  /\ Advance(w, "settled")
  /\ UNCHANGED <<control, quarantined, tasks, nextFence, policy, authority, packet,
                 prep, latest, employer, clicks>>

-----------------------------------------------------------------------------
(* The worker: the reconcile task                                           *)

\* A stored e-mail receipt or the adapter's read-only search.  It may miss a
\* record, but never makes one up.
Lookup(w) ==
  /\ worker[w].pc = "claimed" /\ worker[w].task.type = "reconcile"
  /\ \/ /\ \E f \in Fences : OfApp(f, AppOfWorker(w)) /\ employer[f] = "recorded"
        /\ Advance(w, "found")
     \/ Advance(w, "missing")
  /\ UNCHANGED <<queueVars, policy, authority, packet, prep, latest, employer, clicks>>

\* reconcileEvidence looks at the newest attempt; attempts of one application
\* begin in the order of their fences.
IsNewest(f, a) == OfApp(f, a) /\ \A g \in Fences : OfApp(g, a) => g <= f

\* Faulty: finding nothing is taken for success.
VerdictOptimistic(w) == "CONFIRMED"

Verdict(w) == IF worker[w].pc = "found" THEN "CONFIRMED" ELSE "NEEDS_REVIEW"

ReconcileEvidence(w) ==
  LET a == AppOfWorker(w) IN
  /\ worker[w].pc \in {"found", "missing"}
  /\ Holds(w)
  /\ apps[a].state \in {"UNKNOWN", "NEEDS_REVIEW"}
  /\ \E f \in Fences :
       /\ IsNewest(f, a) /\ attempts[f].state = "UNKNOWN"
       /\ attempts' = IF worker[w].pc = "found"
                      THEN [attempts EXCEPT ![f].state = "CONFIRMED"]
                      ELSE attempts
  /\ MoveApp(a, Verdict(w), 2)
  /\ Advance(w, "settled")
  /\ UNCHANGED <<control, quarantined, tasks, nextFence, policy, authority, packet,
                 prep, latest, employer, clicks>>

-----------------------------------------------------------------------------
(* The worker: the end of a task                                            *)

Acknowledge(w) ==
  /\ worker[w].pc = "settled"
  /\ Complete(worker[w].task, worker[w].fence)
  /\ worker' = [worker EXCEPT ![w] = Idle]
  /\ UNCHANGED <<policy, authority, packet, prep, latest, employer, clicks>>

\* The catch block: fail, which itself throws when the lease is gone.
GiveUp(w) ==
  /\ worker[w] # Idle
  /\ \/ \E retryable \in BOOLEAN : Fail(worker[w].task, worker[w].fence, retryable)
     \/ ~Holds(w) /\ UNCHANGED queueVars
  /\ worker' = [worker EXCEPT ![w] = Idle]
  /\ UNCHANGED <<policy, authority, packet, prep, latest, employer, clicks>>

\* The process dies and is started again: its memory is gone.
Crash(w) ==
  /\ worker[w] # Idle
  /\ worker' = [worker EXCEPT ![w] = Idle]
  /\ UNCHANGED <<queueVars, policy, authority, packet, prep, latest, employer, clicks>>

\* The lease renewal that runs beside the task.
RenewLease(w) ==
  /\ worker[w] # Idle
  /\ Renew(worker[w].task, worker[w].fence)
  /\ UNCHANGED workVars

-----------------------------------------------------------------------------
WorkerStep(w) ==
  \/ ReadRevision(w) \/ Begin(w) \/ AbortBeforeDispatch(w)
  \/ AuthorizeDispatch(w) \/ Click(w) \/ Respond(w) \/ ConfirmReceipt(w)
  \/ RecordDefinitiveRejection(w) \/ Lookup(w) \/ ReconcileEvidence(w)
  \/ Acknowledge(w) \/ GiveUp(w)

Poll(w) == ClaimTask(w) \/ PollNothing(w)

OwnerStep ==
  \/ \E k \in Keys, status \in Statuses, queueSubmit \in BOOLEAN :
       Save(k, status, queueSubmit)
  \/ PublishProfile
  \/ \E autoSubmit \in BOOLEAN : SaveAuthorization(autoSubmit)
  \/ RevokeAuthorization
  \/ \E patched \in ControlPatches : SetControl(patched) /\ UNCHANGED workVars
  \/ \E t \in TaskIds : CancelTask(t) /\ UNCHANGED workVars

Next ==
  \/ \E w \in Workers : WorkerStep(w) \/ Poll(w) \/ Crash(w) \/ RenewLease(w)
  \/ \E f \in Fences, answer \in {"recorded", "rejected", "lost"} :
       EmployerAnswer(f, answer)
  \/ \E t \in TaskIds : Elapse(t) /\ UNCHANGED workVars
  \/ OwnerStep

Init ==
  /\ QueueInit /\ apps = AppsIn("PREPARED")
  /\ policy = 0
  /\ authority = "auto_submit"
  /\ packet = [a \in Apps |-> [serial |-> 1, policy |-> 0, valid |-> TRUE]]
  /\ prep = [k \in Keys |-> NoPrep]
  /\ latest = [a \in Apps |-> NoKey]
  /\ worker = [w \in Workers |-> Idle]
  /\ employer = [f \in Fences |-> "none"]
  /\ clicks = [a \in Apps |-> 0]

Spec == Init /\ [][Next]_vars
-----------------------------------------------------------------------------
(* Type invariant                                                           *)

\* An authorization for the active profile that submits by itself or leaves
\* that to the owner; one for a profile since replaced; or a revoked one.
Authorities == {"auto_submit", "review", "outdated", "revoked"}
PacketRow == [serial : Nat, policy : Nat, valid : BOOLEAN]
PrepRow == [status : Statuses \cup {"none", "expired"}, policy : Nat, packet : Nat]
WorkerMemory == [pc : WorkerStages, task : TaskIds \cup {NoTask},
                 fence : 0 .. MaxFence, revision : Nat]

\* Every variable has the shape of the row or of the process memory it models.
TypeOK ==
  /\ QueueTypeOK
  /\ policy \in 0 .. MaxPolicy
  /\ authority \in Authorities
  /\ packet \in [Apps -> PacketRow]
  /\ prep \in [Keys -> PrepRow]
  /\ latest \in [Apps -> Keys \cup {NoKey}]
  /\ worker \in [Workers -> WorkerMemory]
  /\ employer \in [Fences -> {"none", "sent", "recorded", "rejected", "lost"}]
  /\ clicks \in [Apps -> Nat]

-----------------------------------------------------------------------------
(* Safety                                                                   *)

\* The promise of the whole system: whatever workers crash, leases lapse and
\* tasks are retried, the employer's final button is pressed at most once for
\* an application (begin's search for a prior attempt, the fences, the
\* single-use permit and maxAttempts 1 together).
AtMostOneClick == \A a \in Apps : clicks[a] <= 1

\* begin never opens a second attempt beside one that may have been dispatched.
SingleLiveAttempt ==
  \A a \in Apps : \A f, g \in LiveOf(a) : f = g

\* An application the employer holds a record of is never again taken for one
\* that was not submitted: no recovery, pause, profile change, abort or
\* reconciliation returns it to a state it could be prepared from.
RecordNeverForgotten ==
  \A f \in Fences :
    employer[f] = "recorded" =>
      /\ attempts[f].state \in {"IN_FLIGHT", "UNKNOWN", "CONFIRMED"}
      /\ apps[AppOf[attempts[f].key]].state \in Uncertain \cup {"CONFIRMED"}

\* CONFIRMED is never guessed: some attempt of the application was confirmed,
\* and the employer does hold the record of every confirmed attempt.
ConfirmedIsReal ==
  /\ \A f \in Fences : attempts[f].state = "CONFIRMED" => employer[f] = "recorded"
  /\ \A a \in Apps : apps[a].state = "CONFIRMED" =>
       \E f \in Fences : OfApp(f, a) /\ attempts[f].state = "CONFIRMED"

\* What may have been sent is never left without work or notice.  An application is
\* in flight only while the submit task that put it there still is leased under its
\* commit fence (perhaps expired), so that the next claim finds every attempt a dead
\* worker left behind; of an unknown outcome a reconcile task is pending, or died and
\* raised an exception.
UncertainHasWork ==
  \A a \in Apps :
    /\ apps[a].state = "IN_FLIGHT" =>
         LET f == apps[a].commitFence IN
         /\ f \in Fences
         /\ OfApp(f, a) /\ attempts[f].state = "IN_FLIGHT"
         /\ \E t \in Leased : t.type = "submit" /\ AppOf[t.key] = a /\ tasks[t].fence = f
    /\ apps[a].state = "UNKNOWN" =>
         \E t \in TaskIds : /\ t.type = "reconcile" /\ AppOf[t.key] = a
                            /\ tasks[t].state \in {"ready", "leased", "retry_wait", "dead"}

\* What a claim was admitted for holds of the leases as they evolve, beside those of
\* other pollers and under the owner's controls: within the concurrency limit, no two
\* in one adapter domain or for one application, and while the gate is closed none to
\* submit, so that no worker can begin, dispatch or confirm; the click of a permit
\* already given out is beyond it.
LeasesStayAdmissible ==
  /\ Cardinality(Leased) <= Concurrency
  /\ \A t, u \in Leased : t # u =>
       Domain(t) # Domain(u) /\ AppOf[t.key] # AppOf[u.key]
  /\ control.stopped \/ control.submissionsPaused =>
       \A t \in Leased : t.type # "submit"

\* A worker that lost its lease writes nothing more: its further steps leave
\* the tasks, applications and attempts as they are.
StaleWorkerWritesNothing ==
  [][\A w \in Workers :
       (worker[w] # Idle /\ worker'[w] # worker[w] /\ ~Holds(w)) =>
         UNCHANGED <<tasks, apps, attempts>>]_vars

\* What an attempt came to is final: only an unknown outcome may still be
\* resolved, by reconciliation and to CONFIRMED, and no finished task is
\* taken up again.
OutcomeIsFinal ==
  [][/\ \A f \in Fences :
          /\ attempts[f].state \in {"CONFIRMED", "DEFINITIVE_FAILURE",
                                    "BLOCKED_BEFORE_DISPATCH"}
             => attempts'[f] = attempts[f]
          /\ attempts[f].state = "UNKNOWN"
             => attempts'[f].state \in {"UNKNOWN", "CONFIRMED"}
     /\ \A t \in TaskIds : tasks[t].state \in Finished => tasks'[t] = tasks[t]]_vars

-----------------------------------------------------------------------------
(* What the protocol implements                                             *)

\* The phase an application's submission has reached, as its attempts tell it.
PhaseOf(a) ==
  LET live == LiveOf(a) IN
  IF live = {} THEN "open"
  ELSE LET attempt == attempts[CHOOSE f \in live : TRUE]
       IN CASE attempt.state = "UNKNOWN" -> "uncertain"
            [] attempt.state = "CONFIRMED" -> "confirmed"
            [] attempt.state = "DEFINITIVE_FAILURE" -> "rejected"
            [] OTHER -> IF attempt.dispatched THEN "permitted" ELSE "recorded"

AnswerOf(a) ==
  LET clicked == {f \in Fences : OfApp(f, a) /\ employer[f] # "none"} IN
  IF clicked = {} THEN "none" ELSE employer[CHOOSE f \in clicked : TRUE]

Promise ==
  INSTANCE SubmitOnce WITH
    phase <- [a \in Apps |-> PhaseOf(a)],
    acts <- clicks,
    answer <- [a \in Apps |-> AnswerOf(a)]

\* The worker protocol, with its crashes, lapsed leases and retries, implements
\* the abstract promise of one final action per application.
ImplementsSubmitOnce == Promise!Spec

-----------------------------------------------------------------------------
(* Liveness                                                                 *)

\* Time passes, a worker that is not dead goes on with its task (every wait of
\* the adapters times out), and an idle worker polls again.  Nothing is assumed
\* of the owner or of the employer.
Fairness ==
  /\ \A t \in TaskIds : WF_vars(Elapse(t) /\ UNCHANGED workVars)
  /\ \A w \in Workers : WF_vars(WorkerStep(w)) /\ WF_vars(Poll(w))

LiveSpec == Spec /\ Fairness

\* No application stays in flight: its worker settles it, or the lease of a
\* worker that died is recovered by somebody's poll, stopped or not.
InFlightResolves ==
  \A a \in Apps : apps[a].state = "IN_FLIGHT" ~> apps[a].state # "IN_FLIGHT"

\* An unknown outcome is reconciled, or handed to the owner by a dead task,
\* unless the owner keeps everything stopped; pausing submissions or revoking
\* the authorization does not hold reconciliation up.
UnknownResolves ==
  <>[](~control.stopped) =>
    \A a \in Apps :
      apps[a].state = "UNKNOWN" ~>
        \/ apps[a].state \in {"CONFIRMED", "NEEDS_REVIEW"}
        \/ \E t \in TaskIds : /\ t.type = "reconcile" /\ AppOf[t.key] = a
                              /\ tasks[t].state = "dead"
=============================================================================
