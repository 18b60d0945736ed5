--------------------------- MODULE RestoresProofs ----------------------------
(***************************************************************************)
(* What is proved of module Restores, for all sets of applications,        *)
(* preparations and workers and any number of copies, restores and runs,   *)
(* as long as no history is asserted of an application while a packet of   *)
(* it is being drafted: nothing an employer was sent is ever offered       *)
(* again, so the final button of an application is pressed at most once,   *)
(* whichever old copy the database is restored from.                       *)
(*                                                                         *)
(* That whatever was pressed has a dispatched attempt on record, which     *)
(* SubmissionProofs rests on, does not survive a restore.  What takes its  *)
(* place is Held: an application that was pressed has an attempt on record *)
(* that went out, or is held by a review, or is asserted as submitted.     *)
(* Only release makes that true again after a restore, from what the owner *)
(* attests and from what the database has been kept to while it was        *)
(* blocked (ReviewInv); and a copy is as good as the database was when it  *)
(* was taken (DatabaseSound).                                              *)
(***************************************************************************)
EXTENDS Restores, PreparationProofs

-----------------------------------------------------------------------------
(* The inductive invariant: what the employer was sent, and what is known   *)

\* An attempt in flight that was not dispatched is of an application never pressed.
Unsent ==
  \A f \in Fences, a \in Apps :
    OfApp(f, a) /\ attempts[f].state = "IN_FLIGHT" /\ ~attempts[f].dispatched =>
      clicks[a] = 0

\* An attempt that went out, or may have.
Reached(f) ==
  \/ attempts[f].dispatched
  \/ attempts[f].state \in {"UNKNOWN", "CONFIRMED", "DEFINITIVE_FAILURE"}

OnRecord(a) == \E f \in Fences : OfApp(f, a) /\ Reached(f)

Asserted(a) == apps[a].state = "HISTORICAL_SUBMITTED"

\* Of a vacancy without an application there is nothing.
UnknownIdle ==
  \A a \in Apps \ known :
    /\ apps[a].state = "DISCOVERED" /\ ~packet[a].valid
    /\ \A f \in Fences : ~OfApp(f, a)

\* What is being drafted or looked at is of an application there is.
DraftsKnown ==
  /\ \A w \in Workers : worker[w].pc \in {"drafted", "looked"} => AppOfWorker(w) \in known
  /\ \A r \in requests : r.app \in known

\* Nothing is being drafted for what was asserted as submitted.
AssertedUndrafted == \A a \in Apps : Asserted(a) => ~Drafting(a)

PastInv == known \subseteq Apps /\ UnknownIdle /\ DraftsKnown /\ AssertedUndrafted

-----------------------------------------------------------------------------
(* The inductive invariant: restores and reviews                            *)

Dispositions == {"none", "pending", "quarantined", "receipt"}

ReviewTypeOK == reviews \in [Runs -> [Apps -> Dispositions]] /\ runs \in 0 .. MaxRuns

BlockedIsIdle ==
  control.restoreBlocked => runs \in Runs /\ \A f \in Fences : attempts[f].state # "IN_FLIGHT"

\* A receipt an application was released with stays on record.
ReceiptsStand ==
  \A r \in Runs, a \in Apps : reviews[r][a] = "receipt" =>
    \E f \in Fences : OfApp(f, a) /\ attempts[f].state = "CONFIRMED"

\* While the database is blocked, nothing comes to be submitted of what the
\* open run does not review, and what is asserted of it is applied.
Unreviewed ==
  control.restoreBlocked => \A a \in Apps : reviews[runs][a] = "none" =>
    /\ \A f \in Fences : ~OfApp(f, a)
    /\ apps[a].state \notin Committed
    /\ a \in history \cap known => Asserted(a)

Exact == quarantined = Barred(reviews, OpenRuns)

ReviewInv == ReviewTypeOK /\ BlockedIsIdle /\ ReceiptsStand /\ Unreviewed /\ Exact

\* What stands for a press of an application's button.
HeldApp(a) == a \in quarantined \/ OnRecord(a) \/ Asserted(a) \/ a \in history \ known

Held == ~control.restoreBlocked => \A a \in Apps : clicks[a] # 0 => HeldApp(a)

\* The same, of a database that is not the one in use.
OfAppIn(d, f, a) == d.attempts[f].state # "none" /\ AppOf[d.attempts[f].key] = a

LiveIn(d, f) == d.attempts[f].state # "BLOCKED_BEFORE_DISPATCH" \/ d.attempts[f].dispatched

DatabaseTyped(d) ==
  /\ d.control \in ControlRow
  /\ d.tasks \in [TaskIds -> TaskRow]
  /\ d.apps \in [Apps -> AppRow]
  /\ d.attempts \in [Fences -> AttemptRow]
  /\ d.nextFence \in 0 .. MaxFence
  /\ d.policy \in 0 .. MaxPolicy
  /\ d.authority \in Authorities
  /\ d.packet \in [Apps -> PacketRow]
  /\ d.prep \in [Keys -> PrepRow]
  /\ d.latest \in [Apps -> Keys \cup {NoKey}]
  /\ d.known \subseteq Apps
  /\ d.reviews \in [Runs -> [Apps -> Dispositions]]
  /\ d.runs \in 0 .. MaxRuns

DatabaseSound(d) ==
  /\ DatabaseTyped(d)
  /\ \A f \in Fences : d.attempts[f].state # "none" => f <= d.nextFence
  /\ \A a \in Apps : \A f, g \in Fences :
       OfAppIn(d, f, a) /\ LiveIn(d, f) /\ OfAppIn(d, g, a) /\ LiveIn(d, g) => f = g
  /\ \A a \in Apps \ d.known :
       d.apps[a].state = "DISCOVERED" /\ \A f \in Fences : ~OfAppIn(d, f, a)
  /\ \A r \in Runs, a \in Apps : d.reviews[r][a] = "receipt" =>
       \E f \in Fences : OfAppIn(d, f, a) /\ d.attempts[f].state = "CONFIRMED"

CopiesSound == \A d \in copies : DatabaseSound(d)

SentInv == TypeInv /\ FenceInv /\ Unsent /\ PastInv

RestoresInv == SentInv /\ ReviewInv /\ Held /\ CopiesSound

-----------------------------------------------------------------------------
(* What all steps of the pipeline but begin and the assertions of the owner *)
(* have in common: none makes anything of a vacancy without an application, *)
(* takes up what was asserted, or puts what was not submitted in a state    *)
(* past submission.                                                         *)

Steady(a) ==
  \/ apps'[a].state = apps[a].state
  \/ /\ a \in known /\ ~Asserted(a) /\ apps'[a].state # "HISTORICAL_SUBMITTED"
     /\ apps'[a].state \in Committed => apps[a].state \in Committed

\* A packet is drafted, or looked at, only for an application that is none of these.
Offered(a) == a \in known /\ ~Asserted(a)

DraftsSteady(w) ==
  worker'[w].pc \in {"drafted", "looked"} =>
    \/ worker'[w] = worker[w]
    \/ worker'[w].task = worker[w].task /\ Offered(AppOfWorker(w))

Kept ==
  /\ \A a \in Apps : Steady(a) /\ (packet'[a].valid => packet[a].valid \/ a \in known)
  /\ \A w \in Workers : DraftsSteady(w)
  /\ \A r \in requests' : r \in requests \/ (Offered(r.app) /\ UNCHANGED apps)
  /\ UNCHANGED <<quarantined, pastVars>>
  /\ control'.restoreBlocked = control.restoreBlocked

LEMMA KnownUnlessIdle ==
  ASSUME PastInv, NEW a \in Apps, apps[a].state # "DISCOVERED" \/ packet[a].valid
  PROVE  a \in known
  BY DEF PastInv, UnknownIdle

LEMMA SameIsSteady ==
  ASSUME UNCHANGED apps
  PROVE  \A a \in Apps : Steady(a)
  BY DEF Steady

LEMMA MoveIsSteady ==
  ASSUME TypeInv, NEW a \in known, a \in Apps, NEW state, NEW steps, MoveApp(a, state, steps),
         ~Asserted(a), state # "HISTORICAL_SUBMITTED",
         state \in Committed => apps[a].state \in Committed
  PROVE  \A b \in Apps : Steady(b)
  BY MoveAppKeeps DEF Steady

LEMMA RecoveryIsSteady ==
  ASSUME TypeInv, PastInv, NEW T, apps' = RecoveredApps(T)
  PROVE  \A a \in Apps : Steady(a)
<1> SUFFICES ASSUME NEW a \in Apps PROVE Steady(a)
  OBVIOUS
<1>1. apps[a] \in AppRow
  BY DEF TypeInv, TypeOK, QueueTypeOK
<1>2. CASE a \in Interrupted(T)
  <2>1. apps[a].state = "IN_FLIGHT" /\ apps'[a].state = "UNKNOWN"
    BY <1>1, <1>2 DEF RecoveredApps, Interrupted, AppRow
  <2>2. a \in known
    BY <2>1, KnownUnlessIdle
  <2> QED
    BY <2>1, <2>2 DEF Steady, Asserted, Committed, Uncertain
<1>3. CASE a \notin Interrupted(T)
  BY <1>3 DEF RecoveredApps, Steady
<1> QED
  BY <1>2, <1>3

LEMMA ClaimIsSteady ==
  ASSUME TypeInv, PastInv, NEW types, NEW t \in TaskIds, Claim(types, t)
  PROVE  \A a \in Apps : Steady(a)
<1> DEFINE rows == RecoveredApps(Expired)
<1>1. rows \in [Apps -> AppRow]
  BY RecoverTypes DEF TypeInv, TypeOK
<1>2. apps' \in {rows, [rows EXCEPT ![AppOf[t.key]].commitFence = nextFence + 1]}
  BY DEF Claim
<1>3. \A a \in Apps : \/ rows[a].state = apps[a].state
                      \/ apps[a].state = "IN_FLIGHT" /\ rows[a].state = "UNKNOWN"
  <2> SUFFICES ASSUME NEW a \in Apps
               PROVE  \/ rows[a].state = apps[a].state
                      \/ apps[a].state = "IN_FLIGHT" /\ rows[a].state = "UNKNOWN"
    OBVIOUS
  <2>1. apps[a] \in AppRow
    BY DEF TypeInv, TypeOK, QueueTypeOK
  <2> QED
    BY <2>1 DEF RecoveredApps, Interrupted, AppRow
<1> HIDE DEF rows
<1>4. \A a \in Apps : apps'[a].state = rows[a].state
  BY <1>1, <1>2 DEF AppRow
<1>5. \A a \in Apps : apps[a].state = "IN_FLIGHT" => a \in known
  BY KnownUnlessIdle
<1> QED
  BY <1>3, <1>4, <1>5 DEF Steady, Asserted, Committed, Uncertain

-----------------------------------------------------------------------------
(* The protocol's steps are among them                                      *)

LEMMA KeptFrom ==
  ASSUME \A a \in Apps : Steady(a), \A w \in Workers : DraftsSteady(w),
         UNCHANGED <<packet, requests, quarantined, pastVars>>,
         control'.restoreBlocked = control.restoreBlocked
  PROVE  Kept
  BY DEF Kept

LEMMA OtherStageDrafts ==
  ASSUME TypeInv, NEW w \in Workers, NEW memory, worker' = [worker EXCEPT ![w] = memory],
         memory.pc \notin {"drafted", "looked"}
  PROVE  \A v \in Workers : DraftsSteady(v)
  BY DEF TypeInv, TypeOK, DraftsSteady

LEMMA AdvanceDrafts ==
  ASSUME TypeInv, NEW w \in Workers, NEW pc \in WorkerStages, Advance(w, pc),
         pc \notin {"drafted", "looked"}
  PROVE  \A v \in Workers : DraftsSteady(v)
  BY AdvanceKeeps DEF DraftsSteady

LEMMA SameDrafts ==
  ASSUME UNCHANGED worker
  PROVE  \A w \in Workers : DraftsSteady(w)
  BY DEF DraftsSteady

\* What an attempt came to is written while its application is past submission.
LEMMA OutcomeIsSteady ==
  ASSUME TypeInv, PastInv, NEW w \in Workers,
         \/ AbortBeforeDispatch(w) \/ ConfirmReceipt(w)
         \/ RecordDefinitiveRejection(w) \/ ReconcileEvidence(w)
  PROVE  \A a \in Apps : Steady(a)
<1> DEFINE a == AppOfWorker(w)
<1>1. worker[w].pc # "idle"
  BY DEF AbortBeforeDispatch, ConfirmReceipt, RecordDefinitiveRejection, ReconcileEvidence
<1>2. a \in Apps
  BY <1>1, BusyWorker
<1>3. apps[a].state \in {"IN_FLIGHT", "UNKNOWN", "NEEDS_REVIEW"}
  BY DEF AbortBeforeDispatch, ConfirmReceipt, RecordDefinitiveRejection, ReconcileEvidence,
         InFlight
<1>4. \E state \in {"UNSUPPORTED", "CONFIRMED", "DEFINITIVE_FAILURE", "NEEDS_REVIEW"},
         steps \in {1, 2} : MoveApp(a, state, steps)
  BY DEF AbortBeforeDispatch, ConfirmReceipt, RecordDefinitiveRejection, ReconcileEvidence,
         Verdict
<1>5. a \in known
  BY <1>2, <1>3, KnownUnlessIdle
<1> HIDE DEF a
<1> QED
  BY <1>2, <1>3, <1>4, <1>5, MoveIsSteady DEF Asserted, Committed, Uncertain

LEMMA WorkerStepKept ==
  ASSUME TypeInv, PastInv, NEW w \in Workers, WorkerStep(w), UNCHANGED <<docVars, pastVars>>
  PROVE  Kept \/ Begin(w)
<1>1. UNCHANGED <<packet, requests>>
  BY DEF WorkerStep, ReadRevision, Begin, AbortBeforeDispatch, AuthorizeDispatch, Click,
         Respond, ConfirmReceipt, RecordDefinitiveRejection, Lookup, ReconcileEvidence,
         Acknowledge, GiveUp, docVars
<1>2. UNCHANGED <<control, quarantined>>
  BY DEF WorkerStep, ReadRevision, Begin, AbortBeforeDispatch, AuthorizeDispatch, Click,
         Respond, ConfirmReceipt, RecordDefinitiveRejection, Lookup, ReconcileEvidence,
         Acknowledge, GiveUp, Complete, Fail, queueVars
<1>3. CASE ReadRevision(w)
  <2> DEFINE memory == [worker[w] EXCEPT !.pc = "read", !.revision = apps[AppOfWorker(w)].revision]
  <2>1. worker[w] \in WorkerMemory
    BY DEF TypeInv, TypeOK
  <2>2. memory.pc = "read" /\ worker' = [worker EXCEPT ![w] = memory]
    BY <1>3, <2>1 DEF ReadRevision, WorkerMemory
  <2> HIDE DEF memory
  <2>3. \A v \in Workers : DraftsSteady(v)
    BY <2>2, OtherStageDrafts
  <2>4. \A a \in Apps : Steady(a)
    BY <1>3, SameIsSteady DEF ReadRevision, queueVars
  <2> QED
    BY <1>1, <1>2, <2>3, <2>4, KeptFrom
<1>4. CASE \/ AbortBeforeDispatch(w) \/ ConfirmReceipt(w)
           \/ RecordDefinitiveRejection(w) \/ ReconcileEvidence(w)
  <2>1. Advance(w, "settled")
    BY <1>4 DEF AbortBeforeDispatch, ConfirmReceipt, RecordDefinitiveRejection,
                ReconcileEvidence
  <2>2. \A v \in Workers : DraftsSteady(v)
    BY <2>1, AdvanceDrafts DEF WorkerStages
  <2> QED
    BY <1>1, <1>2, <1>4, <2>2, OutcomeIsSteady, KeptFrom
<1>5. CASE AuthorizeDispatch(w) \/ Click(w) \/ Respond(w) \/ Lookup(w)
  <2>1. \E pc \in {"permitted", "clicked", "accepted", "refused", "found", "missing"} :
          Advance(w, pc)
    BY <1>5 DEF AuthorizeDispatch, Click, Respond, Lookup
  <2>2. \A v \in Workers : DraftsSteady(v)
    BY <2>1, AdvanceDrafts DEF WorkerStages
  <2>3. \A a \in Apps : Steady(a)
    BY <1>5, SameIsSteady DEF AuthorizeDispatch, Click, Respond, Lookup, queueVars
  <2> QED
    BY <1>1, <1>2, <2>2, <2>3, KeptFrom
<1>6. CASE Acknowledge(w) \/ GiveUp(w)
  <2>1. \A v \in Workers : DraftsSteady(v)
    BY <1>6, OtherStageDrafts DEF Acknowledge, GiveUp, Idle
  <2>2. \/ UNCHANGED apps
        \/ \E retryable \in BOOLEAN : Fail(worker[w].task, worker[w].fence, retryable)
    BY <1>6 DEF Acknowledge, Complete, GiveUp, queueVars
  <2>3. UNCHANGED apps \/ apps' = RecoveredApps({worker[w].task})
    BY <2>2 DEF Fail, RecoverTasks
  <2>4. \A a \in Apps : Steady(a)
    BY <2>3, SameIsSteady, RecoveryIsSteady
  <2> QED
    BY <1>1, <1>2, <2>1, <2>4, KeptFrom
<1> QED
  BY <1>3, <1>4, <1>5, <1>6 DEF WorkerStep

LEMMA SubmissionStepKept ==
  ASSUME TypeInv, PastInv, SubmissionStep, UNCHANGED pastVars
  PROVE  Kept \/ \E w \in Workers : Begin(w)
<1>1. UNCHANGED docVars /\ UNCHANGED requests
  BY DEF SubmissionStep, docVars
<1>2. ASSUME NEW w \in Workers, WorkerStep(w) PROVE Kept \/ Begin(w)
  BY <1>1, <1>2, WorkerStepKept
<1>3. ASSUME NEW w \in Workers, ClaimTask(w) PROVE Kept
  <2>1. PICK types \in PollTypes, t \in TaskIds :
          /\ Claim(types, t)
          /\ worker' = [worker EXCEPT ![w] =
               [pc |-> "claimed", task |-> t, fence |-> nextFence + 1, revision |-> 0]]
    BY <1>3 DEF ClaimTask
  <2>2. UNCHANGED <<packet, control, quarantined>>
    BY <1>3, <2>1 DEF ClaimTask, Claim
  <2> QED
    BY <1>1, <2>1, <2>2, ClaimIsSteady, OtherStageDrafts, KeptFrom
<1>4. ASSUME NEW w \in Workers, PollNothing(w) PROVE Kept
  <2>1. /\ apps' = RecoveredApps(Expired)
        /\ UNCHANGED <<worker, packet, control, quarantined>>
    BY <1>4 DEF PollNothing, ClaimNothing, RecoverTasks, workVars
  <2> QED
    BY <1>1, <2>1, RecoveryIsSteady, SameDrafts, KeptFrom
<1>5. ASSUME NEW w \in Workers, Crash(w) PROVE Kept
  <2>1. \A v \in Workers : DraftsSteady(v)
    BY <1>5, OtherStageDrafts DEF Crash, Idle
  <2> QED
    BY <1>1, <1>5, <2>1, SameIsSteady, KeptFrom DEF Crash, queueVars
<1>6. ASSUME NEW w \in Workers, RenewLease(w) PROVE Kept
  BY <1>1, <1>6, SameDrafts, SameIsSteady, KeptFrom DEF RenewLease, Renew, workVars
<1>7. ASSUME NEW f \in Fences, NEW answer, EmployerAnswer(f, answer) PROVE Kept
  BY <1>1, <1>7, SameDrafts, SameIsSteady, KeptFrom DEF EmployerAnswer, queueVars
<1>8. ASSUME NEW t \in TaskIds, Elapse(t), UNCHANGED workVars PROVE Kept
  BY <1>1, <1>8, SameDrafts, SameIsSteady, KeptFrom DEF Elapse, workVars
<1> QED
  BY <1>2, <1>3, <1>4, <1>5, <1>6, <1>7, <1>8 DEF SubmissionStep, Poll

-----------------------------------------------------------------------------
(* So are the owner's                                                       *)

\* A form is filled only for an application that is on its way to submission.
LEMMA InspectionIsSteady ==
  ASSUME TypeInv, PastInv, NEW k \in Keys, NEW status, NEW queueSubmit,
         SavePreparation(k, status, queueSubmit)
  PROVE  \A a \in Apps : Steady(a)
<1> DEFINE a == AppOf[k]
<1>1. a \in Apps
  BY QueueAssumption
<1>2. packet[a].valid
  BY DEF SavePreparation
<1>3. apps[a].state = "INSPECTING" \/ CanTransition(apps[a].state, "INSPECTING")
  BY DEF SavePreparation
<1>4. a \in known
  BY <1>1, <1>2, KnownUnlessIdle
<1>5. ~Asserted(a)
  BY <1>3 DEF Asserted, CanTransition, Transitions, Precommit
<1>6. PICK steps : MoveApp(a, StateAfter(status), steps)
  BY DEF SavePreparation
<1>7. StateAfter(status) \notin Committed \cup {"HISTORICAL_SUBMITTED"}
  BY DEF StateAfter, Committed, Uncertain
<1> HIDE DEF a
<1> QED
  BY <1>1, <1>4, <1>5, <1>6, <1>7, MoveIsSteady

LEMMA PatchesKeepBlock ==
  ASSUME TypeInv,
         NEW patched \in ControlPatches \cup PreparationPatches \cup OpeningPatches
  PROVE  patched.restoreBlocked = control.restoreBlocked
<1>1. control \in ControlRow
  BY DEF TypeInv, TypeOK, QueueTypeOK
<1> QED
  BY <1>1 DEF ControlRow, ControlPatches, PreparationPatches, OpeningPatches

LEMMA OwnerSubmissionStepKept ==
  ASSUME TypeInv, PastInv, OwnerSubmissionStep, UNCHANGED pastVars
  PROVE  TypeInv' /\ Ordinary /\ Kept
<1>1. UNCHANGED docVars /\ UNCHANGED requests
  BY DEF OwnerSubmissionStep, docVars
<1>2. ASSUME NEW k \in Keys, NEW status \in Statuses, NEW queueSubmit \in BOOLEAN,
             Save(k, status, queueSubmit)
      PROVE  TypeInv' /\ Ordinary /\ Kept
  <2>1. TypeInv'
    BY <1>2, SaveTyped
  <2>2. SavePreparation(k, status, queueSubmit) /\ UNCHANGED worker
    BY <1>2 DEF Save
  <2>3. UNCHANGED <<control, quarantined, attempts, nextFence, packet, clicks>>
    BY <2>2 DEF SavePreparation
  <2>4. Ordinary
    BY <2>2, <2>3, UnchangedKeeps, QuietOrdinary
  <2>5. Kept
    BY <1>1, <2>2, <2>3, InspectionIsSteady, SameDrafts, KeptFrom
  <2> QED
    BY <2>1, <2>4, <2>5
<1>3. ASSUME SaveAuthorization(TRUE) \/ SaveAuthorization(FALSE) \/ RevokeAuthorization
      PROVE  TypeInv' /\ Ordinary /\ Kept
  <2>1. TypeInv'
    BY <1>3, PolicyTyped
  <2>2. RecoverTasks(LeasedSubmits, TRUE)
    BY <1>3 DEF SaveAuthorization, RevokeAuthorization
  <2>3. UNCHANGED <<quarantined, nextFence, packet, worker, clicks>>
    BY <1>3 DEF SaveAuthorization, RevokeAuthorization
  <2>4. control'.restoreBlocked = control.restoreBlocked
    BY <1>3 DEF SaveAuthorization, RevokeAuthorization, TypeInv, TypeOK, QueueTypeOK, ControlRow
  <2>5. Ordinary
    BY <2>2, <2>3, RecoveryKeeps, QuietOrdinary DEF RecoverTasks
  <2>6. Kept
    BY <1>1, <2>2, <2>3, <2>4, RecoveryIsSteady, SameDrafts, KeptFrom DEF RecoverTasks
  <2> QED
    BY <2>1, <2>5, <2>6
<1>4. ASSUME NEW patched \in ControlPatches \cup PreparationPatches \cup OpeningPatches,
             SetControl(patched), UNCHANGED workVars
      PROVE  TypeInv' /\ Ordinary /\ Kept
  <2>1. TypeInv'
    BY <1>4, PatchesTyped, SetControlTyped, QueueStepTyped DEF TypeInv, TypeOK
  <2>2. UNCHANGED <<quarantined, nextFence, packet, worker, clicks>> /\ control' = patched
    BY <1>4 DEF SetControl, workVars
  <2>3. Ordinary
    BY <1>4, <2>2, SetControlKeeps, QuietOrdinary
  <2>4. \/ UNCHANGED apps
        \/ apps' = RecoveredApps({t \in Leased : t.type = "submit"})
    BY <1>4 DEF SetControl, RecoverTasks
  <2>5. \A a \in Apps : Steady(a)
    BY <2>4, SameIsSteady, RecoveryIsSteady
  <2>6. Kept
    BY <1>1, <1>4, <2>2, <2>5, PatchesKeepBlock, SameDrafts, KeptFrom
  <2> QED
    BY <2>1, <2>3, <2>6
<1> QED
  BY <1>2, <1>3, <1>4 DEF OwnerSubmissionStep

-----------------------------------------------------------------------------
(* Work on documents                                                        *)

WorkerDocuments(w) ==
  /\ worker[w].pc # "idle"
  /\ \E pc \in DocumentStages :
       GoesOn(w, pc) /\ (pc \in {"drafted", "looked"} => Offered(AppOfWorker(w)))

TablesDocument ==
  /\ tasks' \in [TaskIds -> TaskRow] /\ apps' \in [Apps -> AppRow]
  /\ packet' \in [Apps -> PacketRow] /\ prep' \in [Keys -> PrepRow]
  /\ latest' \in [Apps -> Keys \cup {NoKey}]
  /\ UNCHANGED <<control, quarantined, attempts, nextFence, policy, authority, employer, clicks>>
  /\ \A a \in Apps : Steady(a) /\ (packet'[a].valid => packet[a].valid \/ a \in known)

LEMMA ReadingDocuments ==
  ASSUME TypeInv, tasks' \in [TaskIds -> TaskRow],
         UNCHANGED <<control, quarantined, apps, attempts, nextFence, policy, authority,
                     packet, prep, latest, employer, clicks>>
  PROVE  TablesDocument
  BY SameIsSteady DEF TypeInv, TypeOK, QueueTypeOK, TablesDocument

LEMMA MovingDocuments ==
  ASSUME TypeInv, NEW a \in known, a \in Apps, NEW state \in ApplicationStates,
         MoveApp(a, state, 1), ~Asserted(a), state \notin Committed \cup {"HISTORICAL_SUBMITTED"},
         tasks' \in [TaskIds -> TaskRow],
         UNCHANGED <<control, quarantined, attempts, nextFence, policy, authority,
                     packet, prep, latest, employer, clicks>>
  PROVE  TablesDocument
<1>1. 1 \in Nat
  OBVIOUS
<1>2. apps' \in [Apps -> AppRow]
  BY <1>1, MoveAppTyped
<1>3. \A b \in Apps : Steady(b)
  BY MoveIsSteady
<1> QED
  BY <1>2, <1>3 DEF TypeInv, TypeOK, QueueTypeOK, TablesDocument

LEMMA StoringDocuments ==
  ASSUME TypeInv, NEW a \in known, a \in Apps, ~Asserted(a), NEW made, NEW lacking \in BOOLEAN,
         StorePacket(a, made, lacking),
         UNCHANGED <<control, quarantined, tasks, attempts, nextFence, policy, authority,
                     prep, latest, employer, clicks>>
  PROVE  TablesDocument
<1>1. StateWith(a, lacking) \in ApplicationStates \ (Committed \cup {"HISTORICAL_SUBMITTED"})
  BY DEF StateWith, ApplicationStates, Committed, Uncertain
<1>2. MoveApp(a, StateWith(a, lacking), 1) /\ 1 \in Nat
  BY DEF StorePacket
<1> DEFINE state == StateWith(a, lacking)
<1>3. apps' \in [Apps -> AppRow] /\ \A b \in Apps : Steady(b)
  <2>1. state \in ApplicationStates /\ state \notin Committed \cup {"HISTORICAL_SUBMITTED"}
    BY <1>1
  <2> HIDE DEF state
  <2>2. MoveApp(a, state, 1)
    BY <1>2 DEF state
  <2>3. apps' \in [Apps -> AppRow]
    BY <1>2, <2>1, <2>2, MoveAppTyped
  <2>4. \A b \in Apps : Steady(b)
    BY <2>1, <2>2, MoveIsSteady
  <2> QED
    BY <2>3, <2>4
<1> DEFINE row == [serial |-> packet[a].serial + 1, policy |-> made, valid |-> TRUE]
<1>4. packet \in [Apps -> PacketRow] /\ packet[a].serial \in Nat /\ made \in Nat
  BY SubmissionAssumption DEF TypeInv, TypeOK, PacketRow, StorePacket
<1>5. row \in PacketRow /\ packet' = [packet EXCEPT ![a] = row]
  BY <1>4 DEF PacketRow, StorePacket
<1> HIDE DEF row
<1>6. /\ packet' \in [Apps -> PacketRow]
      /\ \A b \in Apps : b # a => packet'[b] = packet[b]
  BY <1>4, <1>5
<1> QED
  BY <1>3, <1>6 DEF TypeInv, TypeOK, QueueTypeOK, TablesDocument

LEMMA AfterPacketGoesOn ==
  ASSUME NEW w \in Workers, worker[w].pc # "idle", NEW serial \in Nat, NEW lacking,
         AfterPacket(w, serial, lacking)
  PROVE  WorkerDocuments(w)
  BY DEF AfterPacket, WorkerDocuments, GoesOn, DocumentStages

LEMMA PrepareDocuments ==
  ASSUME TypeInv, PastInv, NEW w \in Workers,
         \/ Retain(w) \/ StartPreparing(w) \/ Draft(w) \/ PreservePacket(w)
  PROVE  WorkerDocuments(w) /\ TablesDocument /\ UNCHANGED requests
<1> DEFINE a == AppOfWorker(w)
<1>1. worker[w].pc # "idle" /\ a \in Apps
  <2>1. worker[w].pc # "idle"
    BY DEF Retain, StartPreparing, Draft, PreservePacket
  <2> QED
    BY <2>1, BusyWorker
<1>2. /\ packet[a].serial \in Nat /\ policy \in Nat /\ tasks \in [TaskIds -> TaskRow]
      /\ apps \in [Apps -> AppRow]
  BY <1>1, SubmissionAssumption DEF TypeInv, TypeOK, QueueTypeOK, PacketRow
<1>3. CASE Retain(w) \/ PreservePacket(w)
  <2>1. AfterPacket(w, packet[a].serial, a \in incomplete)
    BY <1>3 DEF Retain, PreservePacket
  <2>2. WorkerDocuments(w)
    BY <1>1, <1>2, <2>1, AfterPacketGoesOn
  <2>3. UNCHANGED <<queueVars, policy, authority, packet, prep, latest, employer, clicks, docVars>>
    BY <1>3 DEF Retain, PreservePacket
  <2> QED
    BY <1>2, <2>2, <2>3, ReadingDocuments DEF queueVars, docVars
<1>4. CASE Draft(w)
  <2>1. /\ Remember(w, "drafted", policy) /\ apps[a].state \in Preparable
        /\ UNCHANGED <<queueVars, policy, authority, packet, prep, latest, employer, clicks, docVars>>
    BY <1>4 DEF Draft
  <2>2. Offered(a)
    BY <1>1, <2>1, KnownUnlessIdle DEF Offered, Asserted, Preparable
  <2>3. WorkerDocuments(w)
    BY <1>1, <1>2, <2>1, <2>2 DEF WorkerDocuments, GoesOn, DocumentStages
  <2> QED
    BY <1>2, <2>1, <2>3, ReadingDocuments DEF queueVars, docVars
<1>5. CASE StartPreparing(w)
  <2>1. /\ Advance(w, "preparing")
        /\ UNCHANGED <<control, quarantined, tasks, attempts, nextFence, policy, authority,
                       packet, prep, latest, employer, clicks, docVars>>
        /\ \/ UNCHANGED apps
           \/ apps[a].state = "ELIGIBLE" /\ MoveApp(a, "PREPARING", 1)
    BY <1>5 DEF StartPreparing
  <2>2. WorkerDocuments(w)
    BY <1>1, <2>1 DEF WorkerDocuments, GoesOn, DocumentStages
  <2>3. CASE UNCHANGED apps
    BY <1>2, <2>1, <2>2, <2>3, ReadingDocuments DEF docVars
  <2>4. CASE apps[a].state = "ELIGIBLE" /\ MoveApp(a, "PREPARING", 1)
    <3>1. a \in known
      BY <1>1, <2>4, KnownUnlessIdle
    <3>2. "PREPARING" \in ApplicationStates \ (Committed \cup {"HISTORICAL_SUBMITTED"})
      BY DEF ApplicationStates, Committed, Uncertain
    <3> HIDE DEF a
    <3> QED
      BY <1>1, <1>2, <2>1, <2>2, <2>4, <3>1, <3>2, MovingDocuments DEF docVars, Asserted
  <2> QED
    BY <2>1, <2>3, <2>4
<1> QED
  BY <1>3, <1>4, <1>5

LEMMA SavePacketDocuments ==
  ASSUME TypeInv, PastInv, NEW w \in Workers, NEW lacking \in BOOLEAN, SavePacket(w, lacking)
  PROVE  WorkerDocuments(w) /\ TablesDocument /\ UNCHANGED requests
<1> DEFINE a == AppOfWorker(w)
<1>1. worker[w].pc = "drafted" /\ a \in Apps
  BY BusyWorker DEF SavePacket
<1>2. a \in known /\ ~Asserted(a)
  BY <1>1 DEF PastInv, DraftsKnown, AssertedUndrafted, Drafting
<1>3. packet[a].serial + 1 \in Nat
  BY <1>1 DEF TypeInv, TypeOK, PacketRow
<1>4. /\ StorePacket(a, worker[w].revision, lacking)
      /\ AfterPacket(w, packet[a].serial + 1, lacking)
      /\ UNCHANGED <<control, quarantined, tasks, attempts, nextFence, policy, authority,
                     prep, latest, employer, clicks, requests>>
  BY DEF SavePacket
<1>5. WorkerDocuments(w)
  BY <1>1, <1>3, <1>4, AfterPacketGoesOn
<1> HIDE DEF a
<1>6. TablesDocument
  BY <1>1, <1>2, <1>4, StoringDocuments
<1> QED
  BY <1>4, <1>5, <1>6

LEMMA QueueingDocuments ==
  ASSUME TypeInv, NEW w \in Workers,
         QueueInspection(w) \/ \E k \in Keys : QueueAnswers(w, k)
  PROVE  WorkerDocuments(w) /\ TablesDocument /\ UNCHANGED requests
<1>1. worker[w].pc # "idle" /\ Advance(w, "settled")
  BY DEF QueueInspection, QueueAnswers
<1>2. WorkerDocuments(w)
  BY <1>1 DEF WorkerDocuments, GoesOn, DocumentStages
<1>3. \/ UNCHANGED tasks
      \/ \E k \in Keys, type \in {"prepare", "inspect"} : Enqueue(type, k)
  BY DEF QueueInspection, QueueAnswers
<1>4. tasks' \in [TaskIds -> TaskRow]
  BY <1>3, EnqueueTyped DEF TypeInv, TypeOK, QueueTypeOK
<1>5. UNCHANGED <<control, quarantined, apps, attempts, nextFence, policy, authority,
                  packet, prep, latest, employer, clicks, requests>>
  BY DEF QueueInspection, QueueAnswers
<1> QED
  BY <1>2, <1>4, <1>5, ReadingDocuments

LEMMA InspectDocuments ==
  ASSUME TypeInv, PastInv, NEW w \in Workers,
         \/ Look(w) \/ ConfirmLease(w) \/ DropInspection(w)
  PROVE  WorkerDocuments(w) /\ TablesDocument /\ UNCHANGED requests
<1> DEFINE a == AppOfWorker(w)
<1>1. worker[w].pc # "idle" /\ a \in Apps /\ worker[w].task \in TaskIds
  <2>1. worker[w].pc # "idle"
    BY DEF Look, ConfirmLease, DropInspection
  <2> QED
    BY <2>1, BusyWorker
<1>2. apps[a].revision \in Nat
  BY <1>1 DEF TypeInv, TypeOK, QueueTypeOK, AppRow
<1>3. tasks' \in [TaskIds -> TaskRow] /\ UNCHANGED <<control, quarantined, apps, attempts, nextFence>>
  <2>1. CASE Look(w) \/ ConfirmLease(w)
    <3>1. Renew(worker[w].task, worker[w].fence)
      BY <2>1 DEF Look, ConfirmLease
    <3> QED
      BY <1>1, <3>1, RenewTyped DEF Renew, TypeInv, TypeOK, QueueTypeOK
  <2>2. CASE DropInspection(w)
    BY <2>2 DEF DropInspection, queueVars, TypeInv, TypeOK, QueueTypeOK
  <2> QED
    BY <2>1, <2>2
<1>4. UNCHANGED <<policy, authority, packet, prep, latest, employer, clicks, docVars>>
  BY DEF Look, ConfirmLease, DropInspection
<1>5. WorkerDocuments(w)
  <2>1. CASE Advance(w, "settled") \/ Advance(w, "renewed")
    BY <1>1, <2>1 DEF WorkerDocuments, GoesOn, DocumentStages
  <2>2. CASE /\ apps[a].state \notin Beyond /\ LooksAtNewest(w)
             /\ Remember(w, "looked", apps[a].revision)
    <3>1. Offered(a)
      BY <1>1, <2>2, KnownUnlessIdle DEF Offered, Asserted, Beyond, LooksAtNewest
    <3> QED
      BY <1>1, <1>2, <2>2, <3>1 DEF WorkerDocuments, GoesOn, DocumentStages
  <2> QED
    BY <2>1, <2>2 DEF Look, ConfirmLease, DropInspection
<1> QED
  BY <1>3, <1>4, <1>5, ReadingDocuments DEF docVars

LEMMA RoutingDocuments ==
  ASSUME TypeInv, PastInv, NEW w \in Workers, RouteUnsupported(w)
  PROVE  WorkerDocuments(w) /\ TablesDocument /\ UNCHANGED requests
<1> DEFINE a == AppOfWorker(w)
<1>1. worker[w].pc = "looked" /\ a \in Apps
  BY BusyWorker DEF RouteUnsupported
<1>2. a \in known
  BY <1>1 DEF PastInv, DraftsKnown
<1>3. /\ Advance(w, "settled")
      /\ UNCHANGED <<control, quarantined, tasks, attempts, nextFence, policy, authority,
                     packet, prep, latest, employer, clicks, docVars>>
      /\ \/ UNCHANGED apps
         \/ CanTransition(apps[a].state, "UNSUPPORTED") /\ MoveApp(a, "UNSUPPORTED", 1)
  BY DEF RouteUnsupported
<1>4. WorkerDocuments(w)
  BY <1>1, <1>3 DEF WorkerDocuments, GoesOn, DocumentStages
<1>5. tasks' \in [TaskIds -> TaskRow]
  BY <1>3 DEF TypeInv, TypeOK, QueueTypeOK
<1>6. CASE UNCHANGED apps
  BY <1>3, <1>4, <1>5, <1>6, ReadingDocuments DEF docVars
<1>7. CASE CanTransition(apps[a].state, "UNSUPPORTED") /\ MoveApp(a, "UNSUPPORTED", 1)
  <2>1. ~Asserted(a)
    BY <1>7 DEF Asserted, CanTransition, Transitions, Precommit
  <2>2. "UNSUPPORTED" \in ApplicationStates \ (Committed \cup {"HISTORICAL_SUBMITTED"})
    BY DEF ApplicationStates, Committed, Uncertain
  <2> HIDE DEF a
  <2> QED
    BY <1>1, <1>2, <1>3, <1>4, <1>5, <1>7, <2>1, <2>2, MovingDocuments DEF docVars
<1> QED
  BY <1>3, <1>6, <1>7

LEMMA SaveInspectionDocuments ==
  ASSUME TypeInv, PastInv, NEW w \in Workers, NEW k \in Keys, NEW status \in Statuses,
         SaveInspection(w, k, status)
  PROVE  WorkerDocuments(w) /\ TablesDocument /\ UNCHANGED requests
<1>1. worker[w].pc # "idle"
  BY DEF SaveInspection
<1>2. PICK queueSubmit \in BOOLEAN : SavePreparation(k, status, queueSubmit)
  BY DEF SaveInspection
<1>3. policy \in Nat
  BY SubmissionAssumption DEF TypeInv, TypeOK
<1>4. Advance(w, "settled") \/ Remember(w, "unanswered", policy)
  BY DEF SaveInspection
<1>5. WorkerDocuments(w)
  BY <1>1, <1>3, <1>4 DEF WorkerDocuments, GoesOn, DocumentStages
<1>6. /\ apps' \in [Apps -> AppRow] /\ prep' \in [Keys -> PrepRow]
      /\ latest' \in [Apps -> Keys \cup {NoKey}]
      /\ tasks' \in [TaskIds -> TaskRow]
  BY <1>2, SavePreparationTyped
<1>7. \A a \in Apps : Steady(a)
  BY <1>2, InspectionIsSteady
<1>8. UNCHANGED <<control, quarantined, attempts, nextFence, policy, authority,
                  packet, employer, clicks>>
  BY <1>2 DEF SavePreparation
<1>9. TablesDocument
  BY <1>6, <1>7, <1>8 DEF TablesDocument, TypeInv, TypeOK
<1> QED
  BY <1>5, <1>9 DEF SaveInspection, docVars

LEMMA DocumentStepKept ==
  ASSUME TypeInv, PastInv, NEW w \in Workers, DocumentStep(w), UNCHANGED pastVars
  PROVE  TypeInv' /\ Ordinary /\ Kept
<1>1. WorkerDocuments(w) /\ TablesDocument /\ UNCHANGED requests
  BY PrepareDocuments, SavePacketDocuments, QueueingDocuments, InspectDocuments,
     RoutingDocuments, SaveInspectionDocuments
  DEF DocumentStep
<1>2. PICK pc \in DocumentStages :
        GoesOn(w, pc) /\ (pc \in {"drafted", "looked"} => Offered(AppOfWorker(w)))
  BY <1>1 DEF WorkerDocuments
<1>3. worker[w].pc # "idle" /\ worker[w] # Idle
  BY <1>1, BusyWorker DEF WorkerDocuments
<1>4. pc \in WorkerStages /\ pc \notin HoldsHandle \cup {"claimed", "read"}
  BY DEF DocumentStages, WorkerStages, HoldsHandle
<1>5. /\ worker' \in [Workers -> WorkerMemory] /\ WorkerHasTask'
      /\ worker'[w].pc = pc
      /\ worker'[w].task = worker[w].task /\ worker'[w].fence = worker[w].fence
      /\ \A v \in Workers : v # w => worker'[v] = worker[v]
  BY <1>2, <1>3, <1>4, GoesOnKeeps
<1>6. TypeInv'
  BY <1>1, <1>5 DEF TablesDocument, TypeInv, TypeOK, QueueTypeOK
<1>7. \A v \in Workers : NothingGained(v)
  BY <1>3, <1>4, <1>5 DEF NothingGained, HoldsHandle
<1>8. Ordinary
  BY <1>1, <1>7, UnchangedKeeps DEF TablesDocument, Ordinary
<1>9. \A v \in Workers : DraftsSteady(v)
  BY <1>2, <1>5 DEF DraftsSteady
<1>10. Kept
  BY <1>1, <1>9 DEF Kept, TablesDocument
<1> QED
  BY <1>6, <1>8, <1>10

-----------------------------------------------------------------------------
(* What the owner does to documents                                         *)

\* The workers are left alone.
LEMMA TablesKept ==
  ASSUME TypeInv, TablesDocument, UNCHANGED <<worker, pastVars>>,
         \A r \in requests' : r \in requests \/ (Offered(r.app) /\ UNCHANGED apps)
  PROVE  TypeInv' /\ Ordinary /\ Kept
<1>1. TypeInv'
  BY DEF TablesDocument, TypeInv, TypeOK, QueueTypeOK, WorkerHasTask
<1>2. Ordinary
  BY UnchangedKeeps, QuietOrdinary DEF TablesDocument
<1>3. Kept
  BY SameDrafts DEF TablesDocument, Kept
<1> QED
  BY <1>1, <1>2, <1>3

LEMMA RequestKept ==
  ASSUME TypeInv, PastInv, UNCHANGED pastVars,
         \/ \E a \in Apps : RequestPacket(a)
         \/ \E r \in requests : LoseRequest(r)
  PROVE  TypeInv' /\ Ordinary /\ Kept
<1>1. UNCHANGED vars
  BY DEF RequestPacket, LoseRequest
<1>2. TablesDocument
  BY <1>1, ReadingDocuments DEF vars, queueVars, workVars, TypeInv, TypeOK, QueueTypeOK
<1>3. \A r \in requests' : r \in requests \/ (Offered(r.app) /\ UNCHANGED apps)
  <2>1. ASSUME NEW a \in Apps, RequestPacket(a)
        PROVE  \A r \in requests' : Offered(r.app)
    <3>1. apps[a].state \in Preparable /\ requests' = {[app |-> a, policy |-> policy]}
      BY <2>1 DEF RequestPacket
    <3>2. Offered(a)
      BY <3>1, KnownUnlessIdle DEF Offered, Asserted, Preparable
    <3> QED
      BY <3>1, <3>2
  <2> QED
    BY <1>1, <2>1 DEF LoseRequest, vars, queueVars
<1> QED
  BY <1>1, <1>2, <1>3, TablesKept DEF vars, workVars

LEMMA SaveRequestedKept ==
  ASSUME TypeInv, PastInv, UNCHANGED pastVars,
         NEW r \in requests, NEW lacking \in BOOLEAN, SaveRequested(r, lacking)
  PROVE  TypeInv' /\ Ordinary /\ Kept
<1>1. r.app \in known /\ r.app \in Apps
  BY DEF PastInv, DraftsKnown
<1>2. ~Asserted(r.app)
  BY <1>1 DEF PastInv, AssertedUndrafted, Drafting
<1>3. /\ StorePacket(r.app, r.policy, lacking) /\ requests' \subseteq requests
      /\ UNCHANGED <<control, quarantined, tasks, attempts, nextFence, policy, authority,
                     prep, latest, worker, employer, clicks>>
  BY DEF SaveRequested
<1>4. TablesDocument
  BY <1>1, <1>2, <1>3, StoringDocuments
<1> QED
  BY <1>3, <1>4, TablesKept

LEMMA ResumeKept ==
  ASSUME TypeInv, PastInv, UNCHANGED pastVars, NEW k \in Keys, Resume(k)
  PROVE  TypeInv' /\ Ordinary /\ Kept
<1> DEFINE a == AppOf[k]
<1>1. a \in Apps
  BY QueueAssumption
<1>2. a \in known /\ ~Asserted(a)
  BY <1>1, KnownUnlessIdle DEF Resume, Resumable, Asserted
<1>3. tasks' \in [TaskIds -> TaskRow]
  <2>1. "cancelled" \in TaskStates /\ 0 \in 0 .. LeaseTerm
    BY QueueAssumption DEF TaskStates
  <2>2. tasks \in [TaskIds -> TaskRow]
    BY DEF TypeInv, TypeOK, QueueTypeOK
  <2>3. \A t \in TaskIds : [tasks[t] EXCEPT !.state = "cancelled", !.lease = 0] \in TaskRow
    BY <2>1, <2>2, TaskRowUpdate
  <2> QED
    BY <2>2, <2>3, ReadyRowTyped DEF Resume
<1>4. MoveApp(a, "PREPARING", 1)
      /\ UNCHANGED <<control, quarantined, attempts, nextFence, workVars, requests>>
  BY DEF Resume
<1>5. "PREPARING" \in ApplicationStates \ (Committed \cup {"HISTORICAL_SUBMITTED"})
  BY DEF ApplicationStates, Committed, Uncertain
<1> HIDE DEF a
<1>6. TablesDocument
  BY <1>1, <1>2, <1>3, <1>4, <1>5, MovingDocuments DEF workVars
<1> QED
  BY <1>4, <1>6, TablesKept DEF workVars

LEMMA OwnerDocumentStepKept ==
  ASSUME TypeInv, PastInv, OwnerDocumentStep, UNCHANGED pastVars
  PROVE  TypeInv' /\ Ordinary /\ Kept
<1>1. ~PublishNewProfile
  BY HistoryAssumption DEF PublishNewProfile
<1> QED
  BY <1>1, RequestKept, SaveRequestedKept, ResumeKept DEF OwnerDocumentStep

LEMMA MatchingKept ==
  ASSUME TypeInv, PastInv, UNCHANGED pastVars,
         \/ \E a \in Apps : Qualify(a)
         \/ \E k \in Keys : SaveAssessment(k, Profile)
  PROVE  TypeInv' /\ Ordinary /\ Kept
<1>1. UNCHANGED <<worker, requests>>
  BY DEF Qualify, SaveAssessment, workVars, docVars
<1>2. ASSUME NEW a \in Apps, Qualify(a) PROVE TablesDocument
  <2>1. a \in known /\ ~Asserted(a)
    BY <1>2, KnownUnlessIdle DEF Qualify, Asserted
  <2>2. tasks' \in [TaskIds -> TaskRow]
        /\ UNCHANGED <<control, quarantined, attempts, nextFence, policy, authority,
                       packet, prep, latest, employer, clicks>>
    BY <1>2 DEF Qualify, workVars, TypeInv, TypeOK, QueueTypeOK
  <2>3. MoveApp(a, "ASSESSED", 1) \/ MoveApp(a, "ELIGIBLE", 1)
    BY <1>2 DEF Qualify
  <2> QED
    BY <2>1, <2>2, <2>3, MovingDocuments DEF ApplicationStates, Committed, Uncertain
<1>3. ASSUME NEW k \in Keys, SaveAssessment(k, Profile) PROVE TablesDocument
  <2>1. /\ Enqueue("prepare", k)
        /\ UNCHANGED <<control, quarantined, apps, attempts, nextFence, workVars>>
    BY <1>3 DEF SaveAssessment
  <2> QED
    BY <2>1, EnqueueTyped, ReadingDocuments DEF workVars
<1> QED
  BY <1>1, <1>2, <1>3, TablesKept

-----------------------------------------------------------------------------
(* What such a step keeps                                                   *)

LEMMA PastKept ==
  ASSUME TypeInv, PastInv, AttemptsKept, Kept
  PROVE  PastInv'
<1>1. UNCHANGED <<known, history>>
  BY DEF Kept, pastVars
<1>2. \A f \in Fences, a \in Apps : OfApp(f, a)' <=> OfApp(f, a)
  BY KeptAttempts
<1>3. UnknownIdle'
  BY <1>1, <1>2 DEF PastInv, UnknownIdle, Kept, Steady
<1>4. DraftsKnown'
  BY <1>1 DEF PastInv, DraftsKnown, Kept, DraftsSteady, Offered, AppOfWorker
<1>5. AssertedUndrafted'
  <2> SUFFICES ASSUME NEW a \in Apps, Asserted(a)', Drafting(a)' PROVE FALSE
    BY DEF AssertedUndrafted
  <2>1. Asserted(a)
    BY DEF Kept, Steady, Asserted
  <2>2. ~Drafting(a)
    BY <2>1 DEF PastInv, AssertedUndrafted
  <2>3. \E w \in Workers : worker'[w].pc = "drafted" /\ AppOf[worker'[w].task.key] = a
    BY <2>1, <2>2 DEF Drafting, Kept, Offered, AppOfWorker
  <2> QED
    BY <2>1, <2>2, <2>3 DEF Drafting, Kept, DraftsSteady, Offered, AppOfWorker
<1> QED
  BY <1>1, <1>3, <1>4, <1>5 DEF PastInv

LEMMA ReviewsKept ==
  ASSUME TypeInv, ReviewInv, AttemptsKept, Kept, UNCHANGED reviewVars
  PROVE  ReviewInv'
<1>1. UNCHANGED <<known, history, quarantined, reviews, runs>>
      /\ control'.restoreBlocked = control.restoreBlocked
  BY DEF Kept, pastVars, reviewVars
<1>2. \A f \in Fences, a \in Apps : OfApp(f, a)' <=> OfApp(f, a)
  BY KeptAttempts
<1>3. ReviewTypeOK'
  BY <1>1 DEF ReviewInv, ReviewTypeOK
<1>4. BlockedIsIdle'
  BY <1>1 DEF ReviewInv, BlockedIsIdle, AttemptsKept, AttemptKept
<1>5. ReceiptsStand'
  BY <1>1, <1>2 DEF ReviewInv, ReceiptsStand, AttemptsKept, AttemptKept
<1>6. Unreviewed'
  BY <1>1, <1>2 DEF ReviewInv, Unreviewed, Kept, Steady, Asserted
<1>7. Exact'
  BY <1>1 DEF ReviewInv, Exact, OpenRuns
<1> QED
  BY <1>3, <1>4, <1>5, <1>6, <1>7 DEF ReviewInv

LEMMA ReachedKept ==
  ASSUME AttemptsKept, NEW a \in Apps, OnRecord(a)
  PROVE  OnRecord(a)'
<1>1. PICK f \in Fences : OfApp(f, a) /\ Reached(f)
  BY DEF OnRecord
<1>2. OfApp(f, a)'
  BY <1>1, KeptAttempts
<1>3. Reached(f)'
  BY <1>1 DEF AttemptsKept, AttemptKept, Reached
<1> QED
  BY <1>2, <1>3 DEF OnRecord

LEMMA HeldKept ==
  ASSUME AttemptsKept, Kept, NEW a \in Apps, HeldApp(a)
  PROVE  HeldApp(a)'
<1>1. UNCHANGED <<known, history, quarantined>>
  BY DEF Kept, pastVars
<1>2. Asserted(a) => Asserted(a)'
  BY DEF Kept, Steady, Asserted
<1> QED
  BY <1>1, <1>2, ReachedKept DEF HeldApp

LEMMA UnsentKept ==
  ASSUME Unsent, AttemptsKept, UNCHANGED clicks
  PROVE  Unsent'
<1>1. \A f \in Fences, a \in Apps : OfApp(f, a)' <=> OfApp(f, a)
  BY KeptAttempts
<1> QED
  BY <1>1 DEF Unsent, AttemptsKept, AttemptKept

\* A press puts the attempt pressed on record, and there is no other.
LEMMA ClickUnsent ==
  ASSUME TypeInv, FenceInv, Unsent, NEW w \in Workers, Click(w)
  PROVE  Unsent' /\ \A a \in Apps : clicks'[a] = clicks[a] \/ OnRecord(a)'
<1> DEFINE b == AppOfWorker(w)
           g == worker[w].fence
<1>1. /\ g \in Fences /\ b \in Apps
      /\ OfApp(g, b) /\ g \in LiveOf(b) /\ attempts[g].dispatched
      /\ \A a \in Apps : a # b => clicks'[a] = clicks[a]
      /\ UNCHANGED <<nextFence, attempts>>
  BY ClickUses
<1> HIDE DEF b, g
<1>2. \A a \in Apps : clicks'[a] = clicks[a] \/ OnRecord(a)'
  BY <1>1 DEF OnRecord, Reached, OfApp
<1>3. Unsent'
  <2> SUFFICES ASSUME NEW f \in Fences, NEW a \in Apps, OfApp(f, a),
                      attempts[f].state = "IN_FLIGHT", ~attempts[f].dispatched
               PROVE  clicks'[a] = 0
    BY <1>1 DEF Unsent, OfApp
  <2>1. clicks[a] = 0
    BY DEF Unsent
  <2>2. a # b
    BY <1>1 DEF FenceInv, SingleLiveAttempt, LiveOf, Live
  <2> QED
    BY <1>1, <2>1, <2>2
<1> QED
  BY <1>2, <1>3

LEMMA RestingKept ==
  ASSUME RestoresInv, TypeInv', FenceInv', AttemptsKept, Kept, UNCHANGED <<reviewVars, copies>>,
         \/ UNCHANGED clicks
         \/ \E w \in Workers : Click(w)
  PROVE  RestoresInv'
<1>1. TypeInv /\ FenceInv /\ Unsent /\ PastInv /\ ReviewInv /\ Held /\ CopiesSound
  BY DEF RestoresInv, SentInv
<1>2. Unsent' /\ \A a \in Apps : clicks'[a] = clicks[a] \/ OnRecord(a)'
  BY <1>1, UnsentKept, ClickUnsent
<1>3. PastInv' /\ ReviewInv'
  BY <1>1, PastKept, ReviewsKept
<1>4. Held'
  <2>1. control'.restoreBlocked = control.restoreBlocked
    BY DEF Kept
  <2> QED
    BY <1>1, <1>2, <2>1, HeldKept DEF Held, HeldApp
<1>5. CopiesSound'
  BY <1>1 DEF CopiesSound
<1> QED
  BY <1>2, <1>3, <1>4, <1>5 DEF RestoresInv, SentInv

-----------------------------------------------------------------------------
(* Begin takes up an application that is held by nothing                    *)

LEMMA BeginKept ==
  ASSUME RestoresInv, NEW w \in Workers, Begin(w), UNCHANGED <<docVars, pastVars, reviewVars, copies>>
  PROVE  RestoresInv' /\ \A a \in Apps : Asserted(a) => Asserted(a)'
<1>1. TypeInv /\ FenceInv /\ Unsent /\ PastInv /\ ReviewInv /\ Held /\ CopiesSound
  BY DEF RestoresInv, SentInv
<1>2. PICK f \in Fences, k \in Keys, b \in Apps :
        /\ k = worker[w].task.key /\ b = AppOf[k]
        /\ attempts[f].state = "none" /\ LiveOf(b) = {}
        /\ attempts'[f] = [key |-> k, state |-> "IN_FLIGHT", dispatched |-> FALSE,
                           policy |-> policy, packet |-> prep[k].packet]
        /\ \A g \in Fences : g # f => attempts'[g] = attempts[g]
  BY <1>1, BeginRecords
<1>3. /\ ~control.restoreBlocked /\ b \notin quarantined /\ apps[b].state = "READY"
      /\ MoveApp(b, "IN_FLIGHT", 2) /\ Advance(w, "begun") /\ worker[w].pc = "read"
      /\ UNCHANGED <<control, quarantined, nextFence, packet, clicks, requests, pastVars,
                     reviewVars, copies>>
  BY <1>2 DEF Begin, SubmissionsOpen, docVars
<1>4. TypeInv' /\ FenceInv'
  BY <1>1, BeginTyped, BeginFences
<1>5. b \in known
  BY <1>1, <1>2, <1>3, KnownUnlessIdle
<1>6. clicks[b] = 0
  <2>1. ~OnRecord(b)
    BY <1>2 DEF OnRecord, Reached, LiveOf, Live, OfApp
  <2>2. ~HeldApp(b)
    BY <1>3, <1>5, <2>1 DEF HeldApp, Asserted
  <2> QED
    BY <1>1, <1>2, <1>3, <2>2 DEF Held
<1>7. /\ apps'[b].state = "IN_FLIGHT"
      /\ \A a \in Apps : a # b => apps'[a] = apps[a]
  BY <1>1, <1>2, <1>3, MoveAppKeeps
<1>8. worker'[w].pc = "begun" /\ \A v \in Workers : v # w => worker'[v] = worker[v]
  BY <1>1, <1>3, AdvanceKeeps DEF WorkerStages
<1>9. \A a \in Apps : Asserted(a)' <=> Asserted(a)
  BY <1>3, <1>7 DEF Asserted
<1>10. /\ OfApp(f, b)'
       /\ \A a \in Apps : OfApp(f, a)' => a = b
       /\ \A g \in Fences, a \in Apps : g # f => (OfApp(g, a)' <=> OfApp(g, a))
       /\ \A a \in Apps : ~OfApp(f, a)
  BY <1>2 DEF OfApp
<1>11. Unsent'
  <2> SUFFICES ASSUME NEW g \in Fences, NEW a \in Apps, OfApp(g, a)',
                      attempts'[g].state = "IN_FLIGHT", ~attempts'[g].dispatched
               PROVE  clicks[a] = 0
    BY <1>3 DEF Unsent
  <2> QED
    BY <1>1, <1>2, <1>6, <1>10 DEF Unsent
<1>12. PastInv'
  <2>1. UNCHANGED <<known, history, requests, packet>>
    BY <1>3 DEF pastVars
  <2>2. UnknownIdle'
    BY <1>1, <1>5, <1>7, <1>10, <2>1 DEF PastInv, UnknownIdle
  <2>3. DraftsKnown'
    BY <1>1, <1>8, <2>1 DEF PastInv, DraftsKnown, AppOfWorker
  <2>4. \A a \in Apps : Drafting(a)' => Drafting(a)
    BY <1>8, <2>1 DEF Drafting, AppOfWorker
  <2>5. AssertedUndrafted'
    BY <1>1, <1>9, <2>4 DEF PastInv, AssertedUndrafted
  <2> QED
    BY <1>1, <2>1, <2>2, <2>3, <2>5 DEF PastInv
<1>13. ReviewInv'
  <2>1. UNCHANGED <<control, quarantined, reviews, runs>>
    BY <1>3 DEF reviewVars
  <2>2. ReceiptsStand'
    BY <1>1, <1>2, <1>10, <2>1 DEF ReviewInv, ReceiptsStand
  <2> QED
    BY <1>1, <1>3, <2>1, <2>2
    DEF ReviewInv, ReviewTypeOK, BlockedIsIdle, Unreviewed, Exact, OpenRuns
<1>14. Held'
  <2>1. \A a \in Apps : a # b /\ OnRecord(a) => OnRecord(a)'
    BY <1>2, <1>10 DEF OnRecord, Reached
  <2> QED
    BY <1>1, <1>3, <1>6, <1>9, <2>1 DEF Held, HeldApp, pastVars
<1>15. CopiesSound'
  BY <1>1, <1>3 DEF CopiesSound
<1> QED
  BY <1>4, <1>9, <1>11, <1>12, <1>13, <1>14, <1>15 DEF RestoresInv, SentInv

-----------------------------------------------------------------------------
(* The pipeline                                                             *)

LEMMA KeptAsserts ==
  ASSUME Kept
  PROVE  \A a \in Apps : Asserted(a) => Asserted(a)'
  BY DEF Kept, Steady, Asserted

LEMMA SubmissionFences ==
  ASSUME TypeInv, FenceInv, Unsent, SubmissionStep
  PROVE  /\ TypeInv' /\ FenceInv'
         /\ \/ AttemptsKept /\ UNCHANGED clicks
            \/ AttemptsKept /\ \E w \in Workers : Click(w)
            \/ \E w \in Workers : Begin(w)
<1>1. Next
  BY DEF SubmissionStep, Next
<1>2. TypeInv'
  BY <1>1, TypeStep
<1>3. CASE Ordinary
  BY <1>2, <1>3, OrdinaryFences DEF Ordinary
<1>4. ASSUME NEW w \in Workers, ClaimTask(w)
      PROVE  FenceInv' /\ AttemptsKept /\ UNCHANGED clicks
  BY <1>2, <1>4, ClaimTaskFences DEF ClaimTask
<1>5. ASSUME NEW w \in Workers, AuthorizeDispatch(w)
      PROVE  FenceInv' /\ AttemptsKept /\ UNCHANGED clicks
  <2>1. clicks[AppOfWorker(w)] = 0
    BY <1>5, AuthorizeFinds DEF Unsent
  <2> QED
    BY <1>2, <1>5, <2>1, AuthorizeDispatchFences DEF AuthorizeDispatch
<1>6. ASSUME NEW w \in Workers, Click(w)
      PROVE  FenceInv' /\ AttemptsKept
  <2>1. attempts' = attempts
    BY <1>6 DEF Click, queueVars
  <2> QED
    BY <1>2, <1>6, <2>1, ClickFences, UnchangedKeeps
<1>7. ASSUME NEW w \in Workers, Begin(w)
      PROVE  FenceInv'
  BY <1>2, <1>7, BeginFences
<1>8. Ordinary \/ \E w \in Workers : Extraordinary(w)
  BY <1>1, StepOrdinary
<1> QED
  BY <1>2, <1>3, <1>4, <1>5, <1>6, <1>7, <1>8 DEF Extraordinary

LEMMA OrdinaryKept ==
  ASSUME RestoresInv, TypeInv', Ordinary, Kept, UNCHANGED <<reviewVars, copies>>
  PROVE  RestoresInv' /\ \A a \in Apps : Asserted(a) => Asserted(a)'
<1>1. FenceInv'
  BY OrdinaryFences DEF RestoresInv, SentInv
<1> QED
  BY <1>1, RestingKept, KeptAsserts DEF Ordinary

LEMMA PresentKept ==
  ASSUME RestoresInv, Present, UNCHANGED <<reviewVars, copies>>
  PROVE  RestoresInv' /\ \A a \in Apps : Asserted(a) => Asserted(a)'
<1>1. TypeInv /\ FenceInv /\ Unsent /\ PastInv
  BY DEF RestoresInv, SentInv
<1>2. UNCHANGED pastVars
  BY DEF Present
<1>3. ASSUME SubmissionStep
      PROVE  RestoresInv' /\ \A a \in Apps : Asserted(a) => Asserted(a)'
  <2>1. ASSUME NEW w \in Workers, Begin(w)
        PROVE  RestoresInv' /\ \A a \in Apps : Asserted(a) => Asserted(a)'
    <3>1. UNCHANGED docVars
      BY <1>3 DEF SubmissionStep
    <3> QED
      BY <1>2, <2>1, <3>1, BeginKept
  <2>2. ASSUME ~ \E w \in Workers : Begin(w)
        PROVE  RestoresInv' /\ \A a \in Apps : Asserted(a) => Asserted(a)'
    <3>1. Kept
      BY <1>1, <1>2, <1>3, <2>2, SubmissionStepKept
    <3>2. /\ TypeInv' /\ FenceInv' /\ AttemptsKept
          /\ UNCHANGED clicks \/ \E w \in Workers : Click(w)
      BY <1>1, <1>3, <2>2, SubmissionFences
    <3> QED
      BY <3>1, <3>2, RestingKept, KeptAsserts
  <2> QED
    BY <2>1, <2>2
<1>4. \/ SubmissionStep
      \/ TypeInv' /\ Ordinary /\ Kept
  BY <1>1, <1>2, MatchingKept, DocumentStepKept, OwnerSubmissionStepKept, OwnerDocumentStepKept
  DEF Present
<1> QED
  BY <1>3, <1>4, OrdinaryKept

-----------------------------------------------------------------------------
(* How applications come to exist, and the owner's assertions               *)

LEMMA CreateKept ==
  ASSUME RestoresInv, NEW a \in Apps, Create(a), UNCHANGED <<reviewVars, copies>>
  PROVE  RestoresInv' /\ \A b \in Apps : Asserted(b) => Asserted(b)'
<1>1. TypeInv /\ FenceInv /\ Unsent /\ PastInv /\ ReviewInv /\ Held /\ CopiesSound
  BY DEF RestoresInv, SentInv
<1>2. /\ a \notin known \cup history /\ known' = known \cup {a}
      /\ UNCHANGED <<queueVars, workVars, docVars, history, reviewVars, copies>>
  BY DEF Create, prepVars, vars
<1>3. UNCHANGED <<control, quarantined, tasks, apps, attempts, nextFence, policy, authority,
                  packet, prep, latest, worker, employer, clicks, requests, reviews, runs>>
  BY <1>2 DEF queueVars, workVars, docVars, reviewVars
<1>4. TypeInv'
  BY <1>1, <1>3 DEF TypeInv, TypeOK, QueueTypeOK, WorkerHasTask
<1>5. AttemptsKept /\ Ordinary
  BY <1>3, UnchangedKeeps, QuietOrdinary
<1>6. FenceInv' /\ Unsent'
  BY <1>1, <1>3, <1>4, <1>5, OrdinaryFences, UnsentKept
<1>7. PastInv'
  BY <1>1, <1>2, <1>3
  DEF PastInv, UnknownIdle, DraftsKnown, AssertedUndrafted, OfApp, AppOfWorker, Asserted, Drafting
<1>8. ReviewInv'
  BY <1>1, <1>2, <1>3
  DEF ReviewInv, ReviewTypeOK, BlockedIsIdle, ReceiptsStand, Unreviewed, Exact, OpenRuns,
      OfApp, Asserted
<1>9. Held'
  BY <1>1, <1>2, <1>3 DEF Held, HeldApp, OnRecord, OfApp, Reached, Asserted
<1> QED
  BY <1>1, <1>2, <1>3, <1>4, <1>6, <1>7, <1>8, <1>9 DEF RestoresInv, SentInv, CopiesSound, Asserted

LEMMA NormalizeKept ==
  ASSUME RestoresInv, NEW a \in Apps, Normalize(a), UNCHANGED <<reviewVars, copies>>
  PROVE  RestoresInv' /\ \A b \in Apps : Asserted(b) => Asserted(b)'
<1>1. TypeInv /\ PastInv
  BY DEF RestoresInv, SentInv
<1>2. a \in known /\ ~Asserted(a) /\ MoveApp(a, "NORMALIZED", 1)
  BY DEF Normalize, Asserted
<1>3. UNCHANGED <<control, quarantined, tasks, attempts, nextFence, policy, authority,
                  packet, prep, latest, worker, employer, clicks, requests, pastVars>>
  BY DEF Normalize, workVars, docVars
<1>4. tasks' \in [TaskIds -> TaskRow]
  BY <1>1, <1>3 DEF TypeInv, TypeOK, QueueTypeOK
<1>5. TablesDocument
  BY <1>1, <1>2, <1>3, <1>4, MovingDocuments DEF ApplicationStates, Committed, Uncertain
<1> QED
  BY <1>1, <1>3, <1>5, TablesKept, OrdinaryKept

\* A record that changes nothing but what is known of the past: its vacancy has
\* no application yet, or one that is protected or asserted already.
LEMMA RecordedKept ==
  ASSUME RestoresInv, NEW a \in Apps, a \notin known \/ apps[a].state \in Protected,
         history' = history \cup {a},
         UNCHANGED <<known, queueVars, workVars, docVars, reviewVars, copies>>
  PROVE  RestoresInv' /\ \A b \in Apps : Asserted(b) => Asserted(b)'
<1>1. TypeInv /\ FenceInv /\ Unsent /\ PastInv /\ ReviewInv /\ Held /\ CopiesSound
  BY DEF RestoresInv, SentInv
<1>2. UNCHANGED <<control, quarantined, tasks, apps, attempts, nextFence, policy, authority,
                  packet, prep, latest, worker, employer, clicks, requests, reviews, runs>>
  BY DEF queueVars, workVars, docVars, reviewVars
<1>3. TypeInv'
  BY <1>1, <1>2 DEF TypeInv, TypeOK, QueueTypeOK, WorkerHasTask
<1>4. AttemptsKept /\ Ordinary
  BY <1>2, UnchangedKeeps, QuietOrdinary
<1>5. FenceInv' /\ Unsent'
  BY <1>1, <1>2, <1>3, <1>4, OrdinaryFences, UnsentKept
<1>6. PastInv'
  BY <1>1, <1>2
  DEF PastInv, UnknownIdle, DraftsKnown, AssertedUndrafted, OfApp, AppOfWorker, Asserted, Drafting
<1>7. Unreviewed'
  BY <1>1, <1>2 DEF ReviewInv, Unreviewed, OfApp, Asserted, Protected, Committed, Uncertain
<1>8. ReviewInv'
  BY <1>1, <1>2, <1>7
  DEF ReviewInv, ReviewTypeOK, BlockedIsIdle, ReceiptsStand, Exact, OpenRuns, OfApp
<1>9. Held'
  BY <1>1, <1>2 DEF Held, HeldApp, OnRecord, OfApp, Reached, Asserted
<1> QED
  BY <1>1, <1>2, <1>3, <1>5, <1>6, <1>8, <1>9 DEF RestoresInv, SentInv, CopiesSound, Asserted

LEMMA AppliedKept ==
  ASSUME RestoresInv, NEW a \in Apps, ~Drafting(a), apps[a].state \notin Protected,
         ApplyHistory(a), history' = history \cup {a},
         UNCHANGED <<control, quarantined, attempts, nextFence, workVars, docVars,
                     reviewVars, copies>>
  PROVE  RestoresInv' /\ \A b \in Apps : Asserted(b) => Asserted(b)'
<1>1. TypeInv /\ FenceInv /\ Unsent /\ PastInv /\ ReviewInv /\ Held /\ CopiesSound
  BY DEF RestoresInv, SentInv
<1>2. UNCHANGED <<control, quarantined, attempts, nextFence, policy, authority,
                  packet, prep, latest, worker, employer, clicks, requests, reviews, runs>>
  BY DEF workVars, docVars, reviewVars
<1>3. /\ \A f \in Fences : ~OfApp(f, a)
      /\ known' = known \cup {a}
      /\ MoveApp(a, "HISTORICAL_SUBMITTED", 1)
      /\ tasks' = [t \in TaskIds |->
            IF t \in CancelledByHistory(a)
            THEN [tasks[t] EXCEPT !.state = "cancelled", !.lease = 0]
            ELSE tasks[t]]
  BY DEF ApplyHistory
<1>4. /\ Asserted(a)'
      /\ \A b \in Apps : b # a => apps'[b] = apps[b]
  BY <1>1, <1>3, MoveAppKeeps DEF Asserted
<1>5. TypeInv'
  <2>1. apps' \in [Apps -> AppRow]
    <3>1. "HISTORICAL_SUBMITTED" \in ApplicationStates /\ 1 \in Nat
      BY DEF ApplicationStates
    <3> QED
      BY <1>1, <1>3, <3>1, MoveAppTyped
  <2>2. tasks' \in [TaskIds -> TaskRow]
    <3>1. "cancelled" \in TaskStates /\ 0 \in 0 .. LeaseTerm
      BY QueueAssumption DEF TaskStates
    <3>2. tasks \in [TaskIds -> TaskRow]
      BY <1>1 DEF TypeInv, TypeOK, QueueTypeOK
    <3>3. \A t \in TaskIds : [tasks[t] EXCEPT !.state = "cancelled", !.lease = 0] \in TaskRow
      BY <3>1, <3>2, TaskRowUpdate
    <3> QED
      BY <1>3, <3>2, <3>3
  <2> QED
    BY <1>1, <1>2, <2>1, <2>2 DEF TypeInv, TypeOK, QueueTypeOK, WorkerHasTask
<1>6. AttemptsKept /\ Ordinary
  BY <1>2, UnchangedKeeps, QuietOrdinary
<1>7. FenceInv' /\ Unsent'
  BY <1>1, <1>2, <1>5, <1>6, OrdinaryFences, UnsentKept
<1>8. \A f \in Fences, b \in Apps : OfApp(f, b)' <=> OfApp(f, b)
  BY <1>2 DEF OfApp
<1>9. PastInv'
  <2>1. known' \subseteq Apps /\ UnknownIdle'
    BY <1>1, <1>2, <1>3, <1>4, <1>8 DEF PastInv, UnknownIdle
  <2>2. DraftsKnown'
    BY <1>1, <1>2, <1>3 DEF PastInv, DraftsKnown, AppOfWorker
  <2>3. \A b \in Apps : Drafting(b)' <=> Drafting(b)
    BY <1>2 DEF Drafting, AppOfWorker
  <2>4. AssertedUndrafted'
    BY <1>1, <1>4, <2>3 DEF PastInv, AssertedUndrafted, Asserted
  <2> QED
    BY <2>1, <2>2, <2>4 DEF PastInv
<1>10. ReviewInv'
  <2>1. Unreviewed'
    BY <1>1, <1>2, <1>3, <1>4, <1>8 DEF ReviewInv, Unreviewed, Asserted, Committed, Uncertain
  <2> QED
    BY <1>1, <1>2, <1>8, <2>1
    DEF ReviewInv, ReviewTypeOK, BlockedIsIdle, ReceiptsStand, Exact, OpenRuns
<1>11. Held'
  BY <1>1, <1>2, <1>3, <1>4, <1>8 DEF Held, HeldApp, OnRecord, Reached, Asserted
<1> QED
  BY <1>1, <1>2, <1>4, <1>5, <1>7, <1>9, <1>10, <1>11
  DEF RestoresInv, SentInv, CopiesSound, Asserted

LEMMA PastStepKept ==
  ASSUME ~Overlapping, RestoresInv, Past, UNCHANGED <<reviewVars, copies>>
  PROVE  RestoresInv' /\ \A a \in Apps : Asserted(a) => Asserted(a)'
<1>1. ASSUME NEW a \in Apps, ImportHistory(a) \/ Ingest(a)
      PROVE  RestoresInv' /\ \A b \in Apps : Asserted(b) => Asserted(b)'
  <2>1. /\ ~Drafting(a)
        /\ UNCHANGED <<control, quarantined, attempts, nextFence, workVars, docVars>>
        /\ \/ ApplyHistory(a)
           \/ a \notin known /\ UNCHANGED <<known, tasks, apps>>
    BY <1>1 DEF ImportHistory, Ingest
  <2>2. history' = history \cup {a}
    BY <1>1 DEF ImportHistory, Ingest
  <2>3. CASE apps[a].state \in Protected \/ ~ApplyHistory(a)
    <3>1. /\ a \notin known \/ apps[a].state \in Protected
          /\ UNCHANGED <<known, tasks, apps>>
      BY <2>1, <2>3 DEF ApplyHistory
    <3> QED
      BY <2>1, <2>2, <3>1, RecordedKept DEF queueVars
  <2>4. CASE apps[a].state \notin Protected /\ ApplyHistory(a)
    BY <2>1, <2>2, <2>4, AppliedKept
  <2> QED
    BY <2>3, <2>4
<1> QED
  BY <1>1, CreateKept, NormalizeKept DEF Past

-----------------------------------------------------------------------------
(* block, on the database in use or on a copy                               *)

LEMMA DatabaseIsSound ==
  ASSUME RestoresInv
  PROVE  DatabaseSound(Database)
<1>1. TypeInv /\ FenceInv /\ PastInv /\ ReviewInv
  BY DEF RestoresInv, SentInv
<1>2. /\ Database.control = control /\ Database.tasks = tasks /\ Database.apps = apps
      /\ Database.attempts = attempts /\ Database.nextFence = nextFence
      /\ Database.policy = policy /\ Database.authority = authority
      /\ Database.packet = packet /\ Database.prep = prep /\ Database.latest = latest
      /\ Database.known = known /\ Database.reviews = reviews /\ Database.runs = runs
  BY DEF Database
<1>3. DatabaseTyped(Database)
  BY <1>1, <1>2
  DEF DatabaseTyped, TypeInv, TypeOK, QueueTypeOK, PastInv, ReviewInv, ReviewTypeOK
<1>4. \A f \in Fences, a \in Apps : OfAppIn(Database, f, a) <=> OfApp(f, a)
  BY <1>2 DEF OfAppIn, OfApp
<1>5. \A a \in Apps : \A f, g \in Fences :
        /\ OfAppIn(Database, f, a) /\ LiveIn(Database, f)
        /\ OfAppIn(Database, g, a) /\ LiveIn(Database, g)
        => f = g
  BY <1>1, <1>2, <1>4 DEF FenceInv, SingleLiveAttempt, LiveOf, LiveIn, Live, OfApp
<1> QED
  BY <1>1, <1>2, <1>3, <1>4, <1>5
  DEF DatabaseSound, FenceInv, FencesIssued, PastInv, UnknownIdle, ReviewInv, ReceiptsStand

LEMMA CutShortTyped ==
  ASSUME NEW t \in TaskIds, NEW row \in TaskRow
  PROVE  CutShort(row, t) \in TaskRow
<1>1. 0 \in 0 .. LeaseTerm /\ "cancelled" \in TaskStates /\ "ready" \in TaskStates
  BY QueueAssumption DEF TaskStates
<1>2. row.fence + 1 \in Nat
  BY DEF TaskRow
<1>3. /\ [row EXCEPT !.state = "cancelled", !.fence = row.fence + 1, !.lease = 0] \in TaskRow
      /\ [row EXCEPT !.state = "ready", !.fence = row.fence + 1, !.lease = 0] \in TaskRow
  BY <1>1, <1>2 DEF TaskRow
<1> QED
  BY <1>3 DEF CutShort

LEMMA BlockedAppTyped ==
  ASSUME NEW row \in AppRow
  PROVE  /\ BlockedApp(row) \in AppRow
         /\ BlockedApp(row).state =
              IF row.state = "IN_FLIGHT" THEN "UNKNOWN" ELSE row.state
  BY DEF BlockedApp, AppRow, ApplicationStates

\* What block does to the tables.
LEMMA BlockTyped ==
  ASSUME NEW d, DatabaseTyped(d), Block(d)
  PROVE  /\ QueueTypeOK'
         /\ policy' \in 0 .. MaxPolicy /\ authority' \in Authorities
         /\ packet' \in [Apps -> PacketRow] /\ prep' \in [Keys -> PrepRow]
         /\ latest' \in [Apps -> Keys \cup {NoKey}]
         /\ runs' \in Runs /\ ReviewTypeOK'
<1>1. control' \in ControlRow
  BY DEF DatabaseTyped, Block, ControlRow
<1>2. quarantined' \subseteq Apps
  BY DEF Block, Barred
<1>3. tasks' \in [TaskIds -> TaskRow]
  BY CutShortTyped, ReadyRowTyped DEF DatabaseTyped, Block, BlockedTasks
<1>4. apps' \in [Apps -> AppRow]
  BY BlockedAppTyped DEF DatabaseTyped, Block
<1>5. attempts' \in [Fences -> AttemptRow]
  <2>1. "UNKNOWN" \in AttemptStates
    BY DEF AttemptStates
  <2> QED
    BY <2>1, AttemptRowUpdate DEF DatabaseTyped, Block
<1>6. nextFence' \in 0 .. MaxFence /\ policy' \in 0 .. MaxPolicy /\ authority' \in Authorities
      /\ latest' \in [Apps -> Keys \cup {NoKey}]
  BY DEF DatabaseTyped, Block
<1>7. packet' \in [Apps -> PacketRow]
  <2>1. \A row \in PacketRow : [row EXCEPT !.valid = FALSE] \in PacketRow
    BY DEF PacketRow
  <2> QED
    BY <2>1 DEF DatabaseTyped, Block
<1>8. prep' \in [Keys -> PrepRow]
  <2>1. NoPrep \in PrepRow /\ \A row \in PrepRow : [row EXCEPT !.status = "expired"] \in PrepRow
    BY DEF PrepRow, NoPrep
  <2> QED
    BY <2>1 DEF DatabaseTyped, Block
<1>9. runs' \in Runs
  BY RestoresAssumption DEF DatabaseTyped, Block, Runs
<1>10. ReviewTypeOK'
  <2>1. [a \in Apps |-> IF a \in d.known THEN "pending" ELSE "none"] \in [Apps -> Dispositions]
    BY DEF Dispositions
  <2>2. reviews' \in [Runs -> [Apps -> Dispositions]]
    BY <2>1 DEF DatabaseTyped, Block
  <2> QED
    BY <1>9, <2>2, RestoresAssumption DEF ReviewTypeOK, Runs
<1> QED
  BY <1>1, <1>2, <1>3, <1>4, <1>5, <1>6, <1>7, <1>8, <1>9, <1>10 DEF QueueTypeOK

\* What it makes of the attempts.
LEMMA BlockAttempts ==
  ASSUME NEW d, DatabaseTyped(d), Block(d), NEW f \in Fences
  PROVE  /\ attempts'[f].state =
              IF d.attempts[f].state = "IN_FLIGHT" THEN "UNKNOWN" ELSE d.attempts[f].state
         /\ attempts'[f].key = d.attempts[f].key
         /\ attempts'[f].dispatched = d.attempts[f].dispatched
<1>1. d.attempts[f] \in AttemptRow
  BY DEF DatabaseTyped
<1> QED
  BY <1>1 DEF Block, AttemptRow

\* And what holds of the tables once it is done, whatever held before.
LEMMA BlockHolds ==
  ASSUME NEW d, DatabaseSound(d), Block(d)
  PROVE  /\ ReviewInv' /\ Unsent' /\ Held'
         /\ known' \subseteq Apps /\ UnknownIdle'
         /\ SingleLiveAttempt'
         /\ \A f \in Fences : attempts'[f].state # "none" => f <= nextFence'
<1>1. DatabaseTyped(d)
  BY DEF DatabaseSound
<1>2. runs' \in Runs /\ ReviewTypeOK'
  BY <1>1, BlockTyped
<1>3. control'.restoreBlocked /\ OpenRuns' = {runs'}
  BY <1>1 DEF Block, OpenRuns, DatabaseTyped, ControlRow
<1>4. /\ \A a \in Apps : reviews'[runs'][a] = IF a \in d.known THEN "pending" ELSE "none"
      /\ \A r \in Runs : r # runs' => reviews'[r] = d.reviews[r]
  BY <1>1, <1>2 DEF Block, DatabaseTyped
<1>5. \A f \in Fences :
        /\ attempts'[f].state # "IN_FLIGHT"
        /\ attempts'[f].state = "none" <=> d.attempts[f].state = "none"
        /\ attempts'[f].state = "BLOCKED_BEFORE_DISPATCH" <=>
             d.attempts[f].state = "BLOCKED_BEFORE_DISPATCH"
        /\ d.attempts[f].state = "CONFIRMED" => attempts'[f].state = "CONFIRMED"
        /\ attempts'[f].key = d.attempts[f].key
        /\ attempts'[f].dispatched = d.attempts[f].dispatched
  BY <1>1, BlockAttempts
<1>6. \A f \in Fences, a \in Apps : OfApp(f, a)' <=> OfAppIn(d, f, a)
  BY <1>5 DEF OfApp, OfAppIn
<1>7. \A f \in Fences : Live(f)' => LiveIn(d, f)
  BY <1>5 DEF Live, LiveIn
<1>8. known' = d.known /\ nextFence' = d.nextFence /\ known' \subseteq Apps
  BY <1>1 DEF Block, DatabaseTyped
<1>9. \A a \in Apps \ known' :
        /\ apps'[a].state = "DISCOVERED" /\ ~packet'[a].valid
        /\ \A f \in Fences : ~OfApp(f, a)'
  <2>1. \A a \in Apps \ known' : apps'[a].state = "DISCOVERED"
    BY <1>8 DEF Block, DatabaseSound
  <2>2. \A a \in Apps : ~packet'[a].valid
    BY <1>1 DEF Block, DatabaseTyped, PacketRow
  <2> QED
    BY <1>6, <1>8, <2>1, <2>2 DEF DatabaseSound
<1>10. BlockedIsIdle'
  BY <1>2, <1>5 DEF BlockedIsIdle
<1>11. ReceiptsStand'
  BY <1>4, <1>5, <1>6 DEF ReceiptsStand, DatabaseSound
<1>12. Unreviewed'
  BY <1>4, <1>8, <1>9 DEF Unreviewed, Committed, Uncertain
<1>13. Exact'
  BY <1>3 DEF Exact, Block
<1>14. Unsent' /\ Held'
  BY <1>3, <1>5 DEF Unsent, Held
<1>15. SingleLiveAttempt'
  BY <1>6, <1>7 DEF SingleLiveAttempt, LiveOf, DatabaseSound
<1>16. \A f \in Fences : attempts'[f].state # "none" => f <= nextFence'
  BY <1>5, <1>8 DEF DatabaseSound
<1> QED
  BY <1>2, <1>8, <1>9, <1>10, <1>11, <1>12, <1>13, <1>14, <1>15, <1>16
  DEF ReviewInv, UnknownIdle

LEMMA RestoreKept ==
  ASSUME RestoresInv, NEW d \in copies, Restore(d)
  PROVE  RestoresInv'
<1>1. TypeInv /\ FenceInv /\ CopiesSound
  BY DEF RestoresInv, SentInv
<1>2. DatabaseSound(d) /\ DatabaseTyped(d) /\ Block(d)
  BY <1>1 DEF CopiesSound, DatabaseSound, Restore
<1>3. /\ worker' = [w \in Workers |-> Idle] /\ requests' = {} /\ UNCHANGED <<clicks, copies>>
      /\ employer' = [f \in Fences |-> IF f <= d.nextFence THEN employer[f] ELSE "none"]
  BY DEF Restore
<1>4. \A w \in Workers : worker'[w] = Idle /\ worker'[w].pc = "idle" /\ worker'[w].fence = 0
  BY <1>3 DEF Idle
<1>5. TypeInv'
  <2>1. worker' \in [Workers -> WorkerMemory] /\ WorkerHasTask'
    BY <1>3, <1>4, IdleTyped DEF WorkerHasTask
  <2>2. employer' \in [Fences -> {"none", "sent", "recorded", "rejected", "lost"}]
    BY <1>1, <1>3 DEF TypeInv, TypeOK
  <2>3. clicks' \in [Apps -> Nat]
    BY <1>1, <1>3 DEF TypeInv, TypeOK
  <2> QED
    BY <1>2, <2>1, <2>2, <2>3, BlockTyped DEF TypeInv, TypeOK
<1>6. /\ ReviewInv' /\ Unsent' /\ Held'
      /\ known' \subseteq Apps /\ UnknownIdle'
      /\ SingleLiveAttempt'
      /\ \A f \in Fences : attempts'[f].state # "none" => f <= nextFence'
  BY <1>2, BlockHolds
<1>7. FenceInv'
  <2>1. FencesIssued'
    BY <1>4, <1>5, <1>6 DEF FencesIssued, TypeInv, TypeOK, QueueTypeOK
  <2>2. FencesDistinct' /\ NotBegunYet' /\ HandleIsOwn' /\ PermitUnused'
    BY <1>4 DEF FencesDistinct, NotBegunYet, HandleIsOwn, HoldsHandle, PermitUnused
  <2>3. AtMostOneClick'
    BY <1>1, <1>3 DEF FenceInv, AtMostOneClick
  <2> QED
    BY <1>6, <2>1, <2>2, <2>3 DEF FenceInv
<1>8. DraftsKnown' /\ AssertedUndrafted'
  BY <1>3, <1>4 DEF DraftsKnown, AssertedUndrafted, Drafting
<1>9. CopiesSound'
  BY <1>1, <1>3 DEF CopiesSound
<1> QED
  BY <1>5, <1>6, <1>7, <1>8, <1>9 DEF RestoresInv, SentInv, PastInv

\* A process blocks the database under the workers: what they hold is theirs
\* still, but nothing is in flight any more.
LEMMA StartMarkedKept ==
  ASSUME RestoresInv, StartMarked
  PROVE  RestoresInv' /\ \A a \in Apps : Asserted(a) => Asserted(a)'
<1>1. TypeInv /\ FenceInv /\ PastInv /\ CopiesSound
  BY DEF RestoresInv, SentInv
<1>2. DatabaseSound(Database) /\ DatabaseTyped(Database) /\ Block(Database)
  BY DatabaseIsSound DEF DatabaseSound, StartMarked
<1>3. UNCHANGED <<worker, requests, employer, clicks, copies>>
  BY DEF StartMarked
<1>4. TypeInv'
  BY <1>1, <1>2, <1>3, BlockTyped DEF TypeInv, TypeOK, WorkerHasTask
<1>5. /\ ReviewInv' /\ Unsent' /\ Held'
      /\ known' \subseteq Apps /\ UnknownIdle'
  BY <1>2, BlockHolds
<1>6. /\ Database.attempts = attempts /\ Database.nextFence = nextFence
      /\ Database.apps = apps /\ Database.known = known
  BY DEF Database
<1>7. AttemptsKept
  BY <1>2, <1>6, BlockAttempts DEF AttemptsKept, AttemptKept, Live
<1>8. nextFence' = nextFence /\ known' = known
  BY <1>2, <1>6 DEF Block
<1>9. FenceInv'
  BY <1>1, <1>3, <1>4, <1>7, <1>8, QuietOrdinary, OrdinaryFences
<1>10. \A a \in Apps : Asserted(a)' <=> Asserted(a)
  <2> SUFFICES ASSUME NEW a \in Apps PROVE Asserted(a)' <=> Asserted(a)
    OBVIOUS
  <2>1. apps[a] \in AppRow
    BY <1>1 DEF TypeInv, TypeOK, QueueTypeOK
  <2>2. apps'[a] = apps[a] \/ apps'[a] = BlockedApp(apps[a])
    BY <1>2, <1>6 DEF Block
  <2> QED
    BY <2>1, <2>2, BlockedAppTyped DEF Asserted
<1>11. DraftsKnown'
  BY <1>1, <1>3, <1>8 DEF PastInv, DraftsKnown, AppOfWorker
<1>12. AssertedUndrafted'
  BY <1>1, <1>3, <1>10 DEF PastInv, AssertedUndrafted, Drafting, AppOfWorker
<1>13. CopiesSound'
  BY <1>1, <1>3 DEF CopiesSound
<1> QED
  BY <1>4, <1>5, <1>9, <1>10, <1>11, <1>12, <1>13 DEF RestoresInv, SentInv, PastInv

-----------------------------------------------------------------------------
(* Copies and the owner's review                                            *)

\* Steps that leave the tables to themselves, but for who is held by a review.
LEMMA TablesStay ==
  ASSUME SentInv, control' \in ControlRow, quarantined' \subseteq Apps,
         UNCHANGED <<tasks, apps, attempts, nextFence, workVars, docVars, pastVars>>
  PROVE  /\ SentInv'
         /\ \A a \in Apps : /\ Asserted(a)' <=> Asserted(a)
                            /\ OnRecord(a)' <=> OnRecord(a)
                            /\ \A f \in Fences : OfApp(f, a)' <=> OfApp(f, a)
<1>1. UNCHANGED <<tasks, apps, attempts, nextFence, policy, authority, packet, prep, latest,
                  worker, employer, clicks, requests, known, history>>
  BY DEF workVars, docVars, pastVars
<1>2. TypeInv'
  BY <1>1 DEF SentInv, TypeInv, TypeOK, QueueTypeOK, WorkerHasTask
<1>3. AttemptsKept /\ Ordinary
  BY <1>1, UnchangedKeeps, QuietOrdinary
<1>4. FenceInv' /\ Unsent'
  BY <1>1, <1>2, <1>3, OrdinaryFences, UnsentKept DEF SentInv
<1>5. PastInv'
  BY <1>1 DEF SentInv, PastInv, UnknownIdle, DraftsKnown, AssertedUndrafted, OfApp,
              AppOfWorker, Asserted, Drafting
<1> QED
  BY <1>1, <1>2, <1>4, <1>5 DEF SentInv, Asserted, OnRecord, Reached, OfApp

LEMMA CopyKept ==
  ASSUME RestoresInv, Copy \/ ReviewLegacyBoundary
  PROVE  RestoresInv' /\ \A a \in Apps : Asserted(a) => Asserted(a)'
<1>1. UNCHANGED <<queueVars, workVars, docVars, pastVars, reviews, runs>>
  BY DEF Copy, ReviewLegacyBoundary, historyVars, prepVars, vars, reviewVars
<1>2. UNCHANGED <<control, quarantined, tasks, apps, attempts, nextFence, known, history, clicks>>
  BY <1>1 DEF queueVars, pastVars, workVars
<1>3. control \in ControlRow /\ quarantined \subseteq Apps
  BY DEF RestoresInv, SentInv, TypeInv, TypeOK, QueueTypeOK
<1>4. SentInv' /\ \A a \in Apps : /\ Asserted(a)' <=> Asserted(a)
                                  /\ OnRecord(a)' <=> OnRecord(a)
                                  /\ \A f \in Fences : OfApp(f, a)' <=> OfApp(f, a)
  BY <1>1, <1>2, <1>3, TablesStay DEF RestoresInv
<1>5. ReviewInv'
  BY <1>1, <1>2, <1>4
  DEF RestoresInv, ReviewInv, ReviewTypeOK, BlockedIsIdle, ReceiptsStand, Unreviewed, Exact,
      OpenRuns
<1>6. Held'
  BY <1>2, <1>4 DEF RestoresInv, Held, HeldApp
<1>7. CopiesSound'
  BY DatabaseIsSound DEF RestoresInv, CopiesSound, Copy, ReviewLegacyBoundary
<1> QED
  BY <1>4, <1>5, <1>6, <1>7 DEF RestoresInv

LEMMA ReceiptIsOnRecord ==
  ASSUME NEW a \in Apps, NEW f \in Fences, OfApp(f, a), attempts[f].state = "CONFIRMED"
  PROVE  OnRecord(a)
  BY DEF OnRecord, Reached

LEMMA ReviewKept ==
  ASSUME RestoresInv, NEW r \in Runs, NEW a \in Apps,
         NEW disposition \in {"quarantined", "receipt"}, Review(r, a, disposition)
  PROVE  RestoresInv' /\ \A b \in Apps : Asserted(b) => Asserted(b)'
<1>1. /\ UNCHANGED <<control, tasks, apps, attempts, nextFence, workVars, docVars, pastVars,
                     runs, copies>>
      /\ reviews' = [reviews EXCEPT ![r][a] = disposition]
      /\ quarantined' = Barred(reviews', OpenRuns)
      /\ reviews[r][a] \in {"pending", "quarantined"}
      /\ disposition = "receipt" => ValidReceipt(a)
      /\ disposition = "quarantined" => r \in OpenRuns
  BY DEF Review
<1>2. UNCHANGED <<clicks, known, history>>
  BY <1>1 DEF workVars, pastVars
<1>3. control \in ControlRow /\ quarantined' \subseteq Apps
  BY <1>1 DEF RestoresInv, SentInv, TypeInv, TypeOK, QueueTypeOK, Barred
<1>4. SentInv' /\ \A b \in Apps : /\ Asserted(b)' <=> Asserted(b)
                                  /\ OnRecord(b)' <=> OnRecord(b)
                                  /\ \A f \in Fences : OfApp(f, b)' <=> OfApp(f, b)
  BY <1>1, <1>3, TablesStay DEF RestoresInv
<1>5. /\ reviews \in [Runs -> [Apps -> Dispositions]]
      /\ reviews' \in [Runs -> [Apps -> Dispositions]]
      /\ reviews'[r][a] = disposition
      /\ \A s \in Runs, b \in Apps : s # r \/ b # a => reviews'[s][b] = reviews[s][b]
  BY <1>1 DEF RestoresInv, ReviewInv, ReviewTypeOK, Dispositions
<1>6. ReviewInv'
  <2>1. ReviewTypeOK' /\ BlockedIsIdle'
    BY <1>1, <1>5 DEF RestoresInv, ReviewInv, ReviewTypeOK, BlockedIsIdle
  <2>2. ReceiptsStand'
    BY <1>1, <1>4, <1>5 DEF RestoresInv, ReviewInv, ReceiptsStand, ValidReceipt
  <2>3. Unreviewed'
    BY <1>1, <1>2, <1>4, <1>5 DEF RestoresInv, ReviewInv, Unreviewed, BlockedIsIdle
  <2>4. Exact'
    BY <1>1 DEF Exact, OpenRuns
  <2> QED
    BY <2>1, <2>2, <2>3, <2>4 DEF ReviewInv
<1>7. Held'
  <2> SUFFICES ASSUME ~control.restoreBlocked, NEW b \in Apps, clicks[b] # 0
               PROVE  HeldApp(b)'
    BY <1>1, <1>2 DEF Held
  <2>1. HeldApp(b)
    BY DEF RestoresInv, Held
  <2>2. OpenRuns = {}
    BY DEF OpenRuns
  <2>3. CASE b \in quarantined
    <3>1. quarantined = Barred(reviews, {})
      BY <2>2 DEF RestoresInv, ReviewInv, Exact
    <3>2. PICK s \in Runs : reviews[s][b] \in {"pending", "quarantined"}
      BY <2>3, <3>1 DEF Barred
    <3>3. CASE s = r /\ b = a
      <4>1. ValidReceipt(b)
        BY <1>1, <2>2, <3>3
      <4> QED
        BY <1>4, <4>1, ReceiptIsOnRecord DEF HeldApp, ValidReceipt
    <3>4. CASE s # r \/ b # a
      BY <1>1, <1>5, <3>2, <3>4 DEF HeldApp, Barred
    <3> QED
      BY <3>3, <3>4
  <2>4. CASE b \notin quarantined
    BY <1>2, <1>4, <2>1, <2>4 DEF HeldApp
  <2> QED
    BY <2>3, <2>4
<1>8. CopiesSound'
  BY <1>1 DEF RestoresInv, CopiesSound
<1> QED
  BY <1>4, <1>6, <1>7, <1>8 DEF RestoresInv

\* What an employer was sent is reviewed, or asserted, when the run is released.
LEMMA ReleaseKept ==
  ASSUME RestoresInv, Release
  PROVE  RestoresInv' /\ \A a \in Apps : Asserted(a) => Asserted(a)'
<1>1. /\ UNCHANGED <<tasks, apps, attempts, nextFence, workVars, docVars, pastVars,
                     reviewVars, copies>>
      /\ control.restoreBlocked /\ Attested
      /\ control' = [control EXCEPT !.restoreBlocked = FALSE, !.submissionsPaused = TRUE]
      /\ quarantined' = Barred(reviews, {})
  BY DEF Release
<1>2. UNCHANGED <<clicks, known, history, reviews, runs>>
  BY <1>1 DEF workVars, pastVars, reviewVars
<1>3. control' \in ControlRow /\ quarantined' \subseteq Apps /\ ~control'.restoreBlocked
  BY <1>1 DEF RestoresInv, SentInv, TypeInv, TypeOK, QueueTypeOK, ControlRow, Barred
<1>4. SentInv' /\ \A a \in Apps : /\ Asserted(a)' <=> Asserted(a)
                                  /\ OnRecord(a)' <=> OnRecord(a)
                                  /\ \A f \in Fences : OfApp(f, a)' <=> OfApp(f, a)
  BY <1>1, <1>3, TablesStay DEF RestoresInv
<1>5. ReviewInv'
  BY <1>1, <1>2, <1>3, <1>4
  DEF RestoresInv, ReviewInv, ReviewTypeOK, BlockedIsIdle, ReceiptsStand, Unreviewed, Exact,
      OpenRuns
<1>6. Held'
  <2> SUFFICES ASSUME NEW a \in Apps, clicks[a] # 0
               PROVE  HeldApp(a)'
    BY <1>2 DEF Held
  <2>1. clicks[a] > 0
    BY DEF RestoresInv, SentInv, TypeInv, TypeOK
  <2>2. runs \in Runs /\ reviews \in [Runs -> [Apps -> Dispositions]]
    BY <1>1 DEF RestoresInv, ReviewInv, BlockedIsIdle, ReviewTypeOK
  <2>3. ASSUME NEW r \in Runs, reviews[r][a] # "none"
        PROVE  HeldApp(a)'
    <3>1. CASE reviews[r][a] = "receipt"
      BY <1>4, <3>1, ReceiptIsOnRecord DEF RestoresInv, ReviewInv, ReceiptsStand, HeldApp
    <3>2. CASE reviews[r][a] # "receipt"
      BY <1>1, <2>2, <2>3, <3>2 DEF HeldApp, Barred, Dispositions
    <3> QED
      BY <3>1, <3>2
  <2>4. CASE a \in history /\ reviews[runs][a] = "none"
    BY <1>1, <1>2, <1>4, <2>4 DEF RestoresInv, ReviewInv, Unreviewed, HeldApp
  <2> QED
    BY <1>1, <2>1, <2>2, <2>3, <2>4 DEF Attested
<1>7. CopiesSound'
  BY <1>1 DEF RestoresInv, CopiesSound
<1> QED
  BY <1>4, <1>5, <1>6, <1>7 DEF RestoresInv

-----------------------------------------------------------------------------
(* The theorems                                                             *)

LEMMA RestoresInitial == RestoresInit => RestoresInv
<1> SUFFICES ASSUME RestoresInit PROVE RestoresInv
  OBVIOUS
<1>1. NothingPrepared /\ apps = AppsIn("DISCOVERED") /\ known = {} /\ history = {}
      /\ QueueInit /\ requests = {}
  BY DEF RestoresInit, HistoryInit, NothingPrepared
<1>2. QueueTypeOK
  <2>1. control \in ControlRow /\ quarantined \subseteq Apps
    BY <1>1 DEF QueueInit, ControlRow
  <2>2. tasks \in [TaskIds -> TaskRow]
    BY <1>1, NoTaskRowTyped DEF QueueInit
  <2>3. apps \in [Apps -> AppRow]
    BY <1>1 DEF AppsIn, AppRow, ApplicationStates
  <2>4. attempts \in [Fences -> AttemptRow]
    BY <1>1 DEF QueueInit, NoAttempt, AttemptRow, AttemptStates
  <2>5. nextFence \in 0 .. MaxFence
    BY <1>1, QueueAssumption DEF QueueInit
  <2> QED
    BY <2>1, <2>2, <2>3, <2>4, <2>5 DEF QueueTypeOK
<1>3. packet \in [Apps -> PacketRow] /\ prep \in [Keys -> PrepRow]
  BY <1>1 DEF NothingPrepared, PacketRow, PrepRow, NoPrep
<1>4. worker \in [Workers -> WorkerMemory] /\ WorkerHasTask
      /\ \A w \in Workers : worker[w].pc = "idle"
  BY <1>1, IdleTyped DEF NothingPrepared, WorkerHasTask, Idle
<1>5. TypeInv
  BY <1>1, <1>2, <1>3, <1>4, SubmissionAssumption
  DEF NothingPrepared, TypeInv, TypeOK, Authorities
<1>6. FenceInv
  BY <1>1, FenceInit DEF NothingPrepared
<1>7. \A f \in Fences : attempts[f].state = "none"
  BY <1>1 DEF QueueInit, NoAttempt
<1>8. \A a \in Apps : apps[a].state = "DISCOVERED" /\ ~packet[a].valid /\ clicks[a] = 0
  BY <1>1 DEF AppsIn, NothingPrepared
<1>9. Unsent /\ Held
  BY <1>8 DEF Unsent, Held
<1>10. PastInv
  <2>1. UnknownIdle
    BY <1>7, <1>8 DEF UnknownIdle, OfApp
  <2>2. DraftsKnown /\ AssertedUndrafted
    BY <1>1, <1>4, <1>8 DEF DraftsKnown, AssertedUndrafted, Asserted
  <2> QED
    BY <1>1, <2>1, <2>2 DEF PastInv
<1>11. ReviewInv
  <2>1. reviews = [r \in Runs |-> [a \in Apps |-> "none"]] /\ runs = 0
    BY DEF RestoresInit
  <2>2. ~control.restoreBlocked /\ quarantined = {}
    BY <1>1 DEF QueueInit
  <2>3. Exact
    BY <2>1, <2>2 DEF Exact, Barred, OpenRuns
  <2>4. ReviewTypeOK
    BY <2>1, RestoresAssumption DEF ReviewTypeOK, Dispositions
  <2> QED
    BY <2>1, <2>2, <2>3, <2>4 DEF ReviewInv, BlockedIsIdle, ReceiptsStand, Unreviewed
<1>12. CopiesSound
  BY DEF RestoresInit, CopiesSound
<1> QED
  BY <1>5, <1>6, <1>9, <1>10, <1>11, <1>12 DEF RestoresInv, SentInv

\* No step takes up what was asserted, but for a restore.
AssertionsStand ==
  (\E d \in copies : Restore(d)) \/ \A a \in Apps : Asserted(a) => Asserted(a)'

LEMMA RestoresStep ==
  ASSUME ~Overlapping, RestoresInv, [RestoresNext]_restoreVars
  PROVE  RestoresInv' /\ AssertionsStand
<1>1. ASSUME HistoryNext, UNCHANGED <<reviewVars, copies, restores>>
      PROVE  RestoresInv' /\ AssertionsStand
  BY <1>1, PastStepKept, PresentKept DEF HistoryNext, AssertionsStand
<1>2. ASSUME RestoreStep PROVE RestoresInv' /\ AssertionsStand
  BY <1>2, CopyKept, RestoreKept, StartMarkedKept, ReviewKept, ReleaseKept
  DEF RestoreStep, AssertionsStand
<1>3. ASSUME UNCHANGED restoreVars PROVE RestoresInv' /\ AssertionsStand
  <2>1. UNCHANGED <<queueVars, workVars, docVars, pastVars, reviews, runs, copies>>
    BY <1>3 DEF restoreVars, historyVars, prepVars, vars, reviewVars
  <2>2. UNCHANGED <<control, quarantined, tasks, apps, attempts, nextFence, known, history,
                    clicks>>
    BY <2>1 DEF queueVars, pastVars, workVars
  <2>3. SentInv' /\ \A a \in Apps : /\ Asserted(a)' <=> Asserted(a)
                                    /\ OnRecord(a)' <=> OnRecord(a)
                                    /\ \A f \in Fences : OfApp(f, a)' <=> OfApp(f, a)
    BY <2>1, <2>2, TablesStay DEF RestoresInv, SentInv, TypeInv, TypeOK, QueueTypeOK
  <2>4. ReviewInv'
    BY <2>1, <2>2, <2>3
    DEF RestoresInv, ReviewInv, ReviewTypeOK, BlockedIsIdle, ReceiptsStand, Unreviewed,
        Exact, OpenRuns
  <2> QED
    BY <2>1, <2>2, <2>3, <2>4 DEF RestoresInv, Held, HeldApp, CopiesSound, AssertionsStand
<1> QED
  BY <1>1, <1>2, <1>3 DEF RestoresNext

LEMMA RestoresInvariance ==
  ASSUME ~Overlapping
  PROVE  RestoresSpec => []RestoresInv
<1>1. RestoresInv /\ [RestoresNext]_restoreVars => RestoresInv'
  BY RestoresStep
<1> QED
  BY <1>1, RestoresInitial, PTL DEF RestoresSpec

\* However old the copy a database is restored from: once the owner has
\* released it, what an employer was ever sent is reviewed, on record or
\* asserted, and claim and begin refuse what the reviews hold (block, review,
\* release and assertNoRestoreReplay of restore-repository.ts).
THEOREM RestoredIsHeld ==
  ASSUME ~Overlapping
  PROVE  RestoresSpec => []SubmittedIsHeld
<1>1. RestoresInv => SubmittedIsHeld
  <2> SUFFICES ASSUME RestoresInv PROVE SubmittedIsHeld
    OBVIOUS
  <2>1. \A a \in Apps : OnRecord(a) => LiveOf(a) # {}
    BY DEF OnRecord, Reached, LiveOf, Live, OfApp
  <2>2. \A a \in Apps : clicks[a] > 0 => clicks[a] # 0
    BY DEF RestoresInv, SentInv, TypeInv, TypeOK
  <2> QED
    BY <2>1, <2>2
    DEF RestoresInv, ReviewInv, Exact, Held, HeldApp, Asserted, SubmittedIsHeld
<1> QED
  BY <1>1, RestoresInvariance, PTL

\* So the employer's final button is pressed at most once for an application,
\* across restores of the database as well (begin's search for a prior attempt
\* and its look at the reviews together).
THEOREM RestoredPressesOnce ==
  ASSUME ~Overlapping
  PROVE  RestoresSpec => []AtMostOneClick
<1>1. RestoresInv => AtMostOneClick
  BY DEF RestoresInv, SentInv, FenceInv
<1> QED
  BY <1>1, RestoresInvariance, PTL

\* What the owner asserted as submitted is not taken up again but by a restore
\* of a copy that does not know the assertion (applyHistory in
\* discovery-repository.ts, and every step that moves an application).
THEOREM AssertionsHold ==
  ASSUME ~Overlapping
  PROVE  RestoresSpec => AssertedStays
<1> DEFINE Counted == restores \in Nat
<1>1. RestoresInit => Counted
  BY DEF RestoresInit
<1>2. Counted /\ [RestoresNext]_restoreVars => Counted'
  BY DEF RestoresNext, RestoreStep, Copy, Restore, StartMarked, ReviewLegacyBoundary, Review,
         Release, reviewVars, restoreVars
<1>3. RestoresInv /\ Counted /\ [RestoresNext]_restoreVars =>
        [restores' = restores => \A a \in Apps :
           apps[a].state = "HISTORICAL_SUBMITTED" =>
             apps'[a].state = "HISTORICAL_SUBMITTED"]_restoreVars
  BY RestoresStep DEF AssertionsStand, Asserted, Restore
<1> QED
  BY <1>1, <1>2, <1>3, RestoresInvariance, PTL DEF RestoresSpec, AssertedStays

=============================================================================
