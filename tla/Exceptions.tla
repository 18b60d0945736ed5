------------------------------ MODULE Exceptions ------------------------------
(***************************************************************************)
(* What stops an application and how the owner lets it go on:              *)
(* packages/persistence/src/exception-repository.ts and                    *)
(* preparation-recovery.ts, around the pipeline of module Preparation.  A  *)
(* worker records a notice for what it could not do, a dead task leaves    *)
(* one, a question no approved answer covers blocks its application, and   *)
(* the inbox writes a notice for a parked application that has none.  The  *)
(* owner answers, skips, retries or rebuilds.                              *)
(*                                                                         *)
(* The notices of one application and blocker are one element here, as     *)
(* what is offered for them is the same; deferring one only relabels it.   *)
(* The action open_session is in module Handoffs.                          *)
(***************************************************************************)
EXTENDS Preparation

CONSTANT
  SkipsDrafts   \* whether an application is skipped while it is drafted

ASSUME ExceptionsAssumption ==
  /\ SkipsDrafts \in BOOLEAN
  /\ "retry" \notin Events   \* an action of its own here

VARIABLES
  notices,      \* exceptions that are not resolved, by application
  unanswered,   \* applications with an unresolved question_blocks row
  owed,         \* notice a worker has yet to record for what it has saved
  lacks         \* who has a draft that was made while a question was open

noticeVars == <<notices, unanswered, owed, lacks>>
excVars == <<prepVars, noticeVars>>

Blockers ==
  { "task_failed", "answer_unknown", "needs_input", "challenge_required",
    "unsupported_form", "needs_review" }

\* STATE_BLOCKER: the states an application is parked in.
StateBlocker ==
  [ state \in {"CHALLENGE_REQUIRED", "NEEDS_REVIEW", "NEEDS_INPUT", "UNSUPPORTED"} |->
    CASE state = "CHALLENGE_REQUIRED" -> "challenge_required"
      [] state = "NEEDS_REVIEW" -> "needs_review"
      [] state = "NEEDS_INPUT" -> "needs_input"
      [] OTHER -> "unsupported_form" ]

-----------------------------------------------------------------------------
(* What the owner is offered                                                *)

\* The newest unknown attempt's submit task is enqueued with these fields (and
\* the target of the adapter it is for) ...
SubmitPayload == {"schemaVersion", "packetId", "preparationId", "fixture"}

\* ... and reconciliation asks for exactly these.
ReconciliationPayload == {"schemaVersion", "packetId", "preparationId", "expectedRevision"}

ReconciliationSource(a) ==
  /\ \E f \in Fences : OfApp(f, a) /\ attempts[f].state = "UNKNOWN"
  /\ SubmitPayload = ReconciliationPayload

Untroubled(a) == LiveOf(a) = {} /\ a \notin quarantined

Skippable ==
  Resumable \cup
  { "DISCOVERED", "NORMALIZED", "ASSESSED", "ELIGIBLE", "PREPARING", "PREPARED",
    "INSPECTING", "READY" }

\* availableActions, for a notice that is not resolved.
Offers(a, blocker) ==
  {"defer"} \cup
  {action \in {"resolve_answer", "reconcile", "retry", "skip"} :
     CASE action = "resolve_answer" ->
            Untroubled(a) /\ blocker = "answer_unknown" /\ a \in unanswered
       [] action = "reconcile" ->
            blocker = "needs_review" /\ ReconciliationSource(a)
       [] action = "retry" ->
            /\ Untroubled(a) /\ blocker = "task_failed"
            /\ apps[a].state \in Resumable
            /\ Assessed(a, Profile) /\ a \notin unanswered
       [] OTHER ->
            /\ Untroubled(a) /\ blocker # "needs_review"
            /\ apps[a].state \in Skippable}

Offered(a, blocker, action) == blocker \in notices[a] /\ action \in Offers(a, blocker)

-----------------------------------------------------------------------------
(* The worker                                                               *)

\* deadLetter, in whichever transaction buries a task.
Buried(a) ==
  \E t \in TaskIds : /\ AppOf[t.key] = a /\ tasks[t].state # "dead"
                     /\ tasks'[t].state = "dead"

WithDeadLetters(rows) ==
  [a \in Apps |-> rows[a] \cup (IF Buried(a) THEN {"task_failed"} ELSE {})]

\* The notice that follows a saved inspection, in a transaction of its own; an
\* inspection whose result is dropped has none.
OwedFor(w) ==
  LET a == AppOfWorker(w) IN
  IF /\ worker[w].pc \in {"looked", "renewed"} /\ worker'[w].pc = "settled"
     /\ worker[w].pc = "renewed" => prep' # prep
  THEN CASE apps'[a].state = "NEEDS_INPUT" -> "answer_unknown"
         [] apps'[a].state = "CHALLENGE_REQUIRED" -> "challenge_required"
         [] apps'[a].state = "UNSUPPORTED" -> "unsupported_form"
         [] OTHER -> "none"
  ELSE "none"

\* resolveQuestion, for each question a draft answers: one that is still open
\* makes the packet lack an answer.
Asks(w) == worker'[w].pc = "drafted" /\ AppOfWorker(w) \in unanswered

\* A step of the pipeline.  Rebuilding may have queued an inspection of a
\* packet that lacks an answer, which is refused.
Work(w) ==
  LET a == AppOfWorker(w) IN
  /\ owed[w] = "none"
  /\ \/ DocumentStep(w)
     \/ WorkerStep(w) /\ UNCHANGED docVars
  /\ worker'[w].pc = "looked" => a \notin incomplete
  /\ packet' # packet => (a \in incomplete' <=> w \in lacks)
  /\ owed' = [owed EXCEPT ![w] = OwedFor(w)]
  /\ lacks' = IF Asks(w) THEN lacks \cup {w} ELSE lacks \ {w}
  /\ notices' = WithDeadLetters(
       IF Asks(w) THEN [notices EXCEPT ![a] = @ \cup {"answer_unknown"}] ELSE notices)
  /\ UNCHANGED unanswered

\* Faulty: the question is noted, but its notice is left to the inbox.
NoticesForSilent(a, blocker) ==
  IF blocker = "answer_unknown" THEN notices[a] ELSE notices[a] \cup {blocker}

NoticesFor(a, blocker) == notices[a] \cup {blocker}

\* record, or resolveQuestion for what the form asked: nothing is looked at.
RecordNotice(w) ==
  LET a == AppOfWorker(w) IN
  /\ owed[w] # "none"
  /\ notices' = [notices EXCEPT ![a] = NoticesFor(a, owed[w])]
  /\ unanswered' = IF owed[w] = "answer_unknown" THEN unanswered \cup {a} ELSE unanswered
  /\ owed' = [owed EXCEPT ![w] = "none"]
  /\ UNCHANGED <<prepVars, lacks>>

\* The notice is lost with the worker, or with what it throws.
LoseNotice(w) ==
  /\ \/ Crash(w)
     \/ owed[w] # "none" /\ GiveUp(w)
  /\ owed' = [owed EXCEPT ![w] = "none"] /\ lacks' = lacks \ {w}
  /\ notices' = WithDeadLetters(notices)
  /\ UNCHANGED <<docVars, unanswered>>

Beside ==
  /\ \/ \E w \in Workers : Poll(w) \/ RenewLease(w)
     \/ \E f \in Fences, answer \in {"recorded", "rejected", "lost"} :
          EmployerAnswer(f, answer)
     \/ \E t \in TaskIds : Elapse(t) /\ UNCHANGED workVars
  /\ notices' = WithDeadLetters(notices)
  /\ UNCHANGED <<docVars, unanswered, owed, lacks>>

-----------------------------------------------------------------------------
(* The owner                                                                *)

\* inbox: any notice of the application, whatever it is about, keeps the one
\* for the state it is parked in from being written.
Inbox(a) ==
  /\ apps[a].state \in DOMAIN StateBlocker /\ notices[a] = {}
  /\ notices' = [notices EXCEPT ![a] = {StateBlocker[apps[a].state]}]
  /\ UNCHANGED <<prepVars, unanswered, owed, lacks>>

\* resumeIn goes on from one of these states, or does nothing.
Resumes(a, states) ==
  /\ ~control.restoreBlocked /\ apps[a].state \in states
  /\ Untroubled(a) /\ Assessed(a, Profile)

\* approveAnswerIn, reached from the inbox and from the answers' own route.
ApproveAnswer(a) ==
  /\ a \in unanswered
  /\ apps[a].state \notin {"SKIPPED", "CONFIRMED", "DEFINITIVE_FAILURE"}
  /\ unanswered' = unanswered \ {a}
  /\ notices' = [notices EXCEPT ![a] = @ \ {"answer_unknown"}]
  /\ IF Resumes(a, {"NEEDS_INPUT"})
     THEN \E k \in Keys : AppOf[k] = a /\ Resume(k)
     ELSE UNCHANGED prepVars
  /\ UNCHANGED <<owed, lacks>>

Retry(k) ==
  LET a == AppOf[k] IN
  /\ Offered(a, "task_failed", "retry")
  /\ Resume(k)
  /\ notices' = [notices EXCEPT ![a] = @ \ {"task_failed"}]
  /\ UNCHANGED <<unanswered, owed, lacks>>

\* The owner has a packet built, for a form that asks what was never answered
\* or for one that does not: generationInput, called by the API.
Generate(a) ==
  /\ RequestPacket(a)
  /\ \/ UNCHANGED noticeVars
     \/ /\ unanswered' = unanswered \cup {a}
        /\ notices' = [notices EXCEPT ![a] = @ \cup {"answer_unknown"}]
        /\ lacks' = lacks \cup {"owner"}
        /\ UNCHANGED owed

EndGeneration(r) ==
  /\ SaveRequested(r, "owner" \in lacks) \/ LoseRequest(r)
  /\ lacks' = lacks \ {"owner"}
  /\ UNCHANGED <<notices, unanswered, owed>>

\* A draft of the application has been let through and is still to be saved.
Drafted(a) ==
  \/ \E w \in Workers : worker[w].pc = "drafted" /\ AppOfWorker(w) = a
  \/ \E r \in requests : r.app = a

\* Reconciliation is not revoked; the notices beside this one are settled too.
Skip(a, blocker) ==
  /\ SkipsDrafts \/ ~Drafted(a)
  /\ Offered(a, blocker, "skip")
  /\ MoveApp(a, "SKIPPED", 1)
  /\ tasks' = [t \in TaskIds |->
       IF /\ AppOf[t.key] = a /\ t.type # "reconcile"
          /\ tasks[t].state \in {"ready", "retry_wait", "leased"}
       THEN [tasks[t] EXCEPT !.state = "cancelled", !.lease = 0]
       ELSE tasks[t]]
  /\ notices' = [notices EXCEPT ![a] = {}]
  /\ UNCHANGED <<control, quarantined, attempts, nextFence, workVars, docVars,
                 unanswered, owed, lacks>>

\* rebuild: tasks of the application that are under way are left alone, and so
\* is the notice.  The old preparations it retires are not the newest any more
\* when the application is READY again.
Rebuild(k) ==
  LET a == AppOf[k] IN
  /\ notices[a] # {}
  /\ LiveOf(a) = {}
  /\ apps[a].state \in Resumable \cup {"NEEDS_REVIEW"}
  /\ packet[a].valid
  /\ Unused("inspect", k)
  /\ Enqueue("inspect", k)
  /\ looks' = [looks EXCEPT ![k] = packet[a].serial]
  /\ MoveApp(a, "INSPECTING", 1)
  /\ UNCHANGED <<control, quarantined, attempts, nextFence, workVars, profileOf,
                 brief, incomplete, requests, noticeVars>>

-----------------------------------------------------------------------------
OwnerDecision ==
  \/ \E a \in Apps : Inbox(a) \/ ApproveAnswer(a)
  \/ \E a \in Apps, blocker \in Blockers : Skip(a, blocker)
  \/ \E k \in Keys : Retry(k) \/ Rebuild(k)
  \/ "generate" \in Events /\ \E a \in Apps : Generate(a)
  \/ \E r \in requests : EndGeneration(r)

\* What happens besides, as in module Preparation.
Meanwhile ==
  /\ \/ Matching
     \/ "invalidate" \in Events /\ \E a \in Apps, letter \in BOOLEAN : Invalidate(a, letter)
     \/ OwnerSubmissionStep
     \/ PublishNewProfile
  /\ UNCHANGED noticeVars

ExcNext ==
  \/ \E w \in Workers : Work(w) \/ RecordNotice(w) \/ LoseNotice(w)
  \/ Beside
  \/ OwnerDecision
  \/ Meanwhile

ExcInit ==
  /\ PrepInit
  /\ notices = [a \in Apps |-> {}] /\ unanswered = {}
  /\ owed = [w \in Workers |-> "none"] /\ lacks = {}

ExcSpec == ExcInit /\ [][ExcNext]_excVars

-----------------------------------------------------------------------------
(* Properties                                                               *)

\* A question that blocks an application can be answered from the inbox: its
\* notice is there for as long as the block is, through new drafts, recorded
\* inspections and approvals in any order, unless the application was skipped.
BlockIsShown ==
  \A a \in unanswered :
    "answer_unknown" \in notices[a] \/ apps[a].state = "SKIPPED"

\* docs/HANDOFF.md: skipping revokes stale work.  No inspection, retry, rebuild,
\* answer or late result takes a skipped application up again.
SkippedStays ==
  [][\A a \in Apps : apps[a].state = "SKIPPED" => apps'[a].state = "SKIPPED"]_excVars

\* The inbox writes missing blockers so that every id it shows is actionable:
\* an application whose outcome could not be settled can be reconciled again.
ReviewIsActionable ==
  \A a \in Apps : "needs_review" \in notices[a] /\ apps[a].state = "NEEDS_REVIEW" =>
    Offers(a, "needs_review") # {"defer"}
=============================================================================
