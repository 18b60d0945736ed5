-------------------------- MODULE PreparationProofs --------------------------
(***************************************************************************)
(* What is proved of module Preparation, for all sets of applications,     *)
(* preparations and workers and any number of packets and policies: its    *)
(* type correctness, that an application shown as ready is ready with what *)
(* would be sent, that nothing made for a replaced profile stays on offer, *)
(* and that the leases of all types of task stay admissible together.  The *)
(* steps it shares with module Submission are typed by TypeStep of         *)
(* SubmissionProofs; of the documents they leave all but the owner's       *)
(* inspection alone (Quiet), and are treated as one.                       *)
(***************************************************************************)
EXTENDS Preparation, SubmissionProofs

-----------------------------------------------------------------------------
(* The inductive invariant                                                  *)

\* A worker that will have the packet made once more remembers the policy the
\* answers were found under.
AnswersKnown ==
  \A w \in Workers :
    worker[w].pc = "unanswered" => worker[w].revision \in 0 .. MaxPolicy

\* Every variable about documents has the shape of the row it models.
DocTypeOK ==
  /\ profileOf \in [0 .. MaxPolicy -> Nat]
  /\ brief \in [Keys -> [profile : Nat, refresh : BOOLEAN]]
  /\ looks \in [Keys -> Nat]
  /\ incomplete \subseteq Apps
  /\ requests \subseteq [app : Apps, policy : 0 .. MaxPolicy]

PrepTypeInv == TypeInv /\ DocTypeOK /\ AnswersKnown

\* A packet an inspection is about, or will be, was saved before now, and
\* lacked nothing if it is still the newest.
CompletePacket(a, serial) ==
  serial <= packet[a].serial /\ (serial = packet[a].serial => a \notin incomplete)

InspectedComplete == \A k \in Keys : CompletePacket(AppOf[k], looks[k])

QueuedComplete ==
  \A w \in Workers :
    worker[w].pc = "saved" => CompletePacket(AppOfWorker(w), worker[w].revision)

\* The profile of a version is that of every version after it, up to the next
\* one that is published.
ProfileStands == \A p \in 0 .. MaxPolicy : p >= policy => profileOf[p] = Profile

DocInv ==
  /\ ReadyIsInspected /\ PreparedForProfile
  /\ ProfileStands /\ InspectedComplete /\ QueuedComplete

PrepInv == PrepTypeInv /\ DocInv

-----------------------------------------------------------------------------
(* Steps that put nothing on offer                                          *)

\* No worker gets to know a packet or a policy to act upon ...
WorkersQuiet ==
  \A w \in Workers : worker'[w].pc \in {"saved", "unanswered"} => worker'[w] = worker[w]

\* ... and no application comes to be shown as prepared or ready.
AppsQuiet ==
  \A a \in Apps :
    apps'[a].state \in {"PREPARED", "READY"} => apps'[a].state = apps[a].state

Quiet ==
  /\ WorkersQuiet /\ AppsQuiet
  /\ policy' \in 0 .. MaxPolicy /\ policy' >= policy
  /\ UNCHANGED <<packet, prep, latest>>

LEMMA QuietKeeps ==
  ASSUME PrepInv, Quiet, UNCHANGED <<profileOf, looks, incomplete>>
  PROVE  DocInv' /\ AnswersKnown'
<1>1. policy \in 0 .. MaxPolicy /\ policy' \in 0 .. MaxPolicy /\ policy' >= policy
  BY DEF PrepInv, PrepTypeInv, TypeInv, TypeOK, Quiet
<1>2. Profile' = Profile
  BY <1>1 DEF PrepInv, DocInv, ProfileStands, Profile
<1>3. ProfileStands'
  <2> SUFFICES ASSUME NEW p \in 0 .. MaxPolicy, p >= policy'
               PROVE  profileOf'[p] = Profile'
    BY DEF ProfileStands, Profile
  <2>1. p >= policy
    BY <1>1, SubmissionAssumption
  <2> QED
    BY <1>2, <2>1 DEF PrepInv, DocInv, ProfileStands
<1>4. ReadyIsInspected'
  BY DEF PrepInv, DocInv, ReadyIsInspected, Quiet, AppsQuiet
<1>5. PreparedForProfile'
  BY <1>2 DEF PrepInv, DocInv, PreparedForProfile, Quiet, AppsQuiet
<1>6. InspectedComplete'
  BY DEF PrepInv, DocInv, InspectedComplete, CompletePacket, Quiet
<1>7. QueuedComplete'
  BY DEF PrepInv, DocInv, QueuedComplete, CompletePacket, AppOfWorker, Quiet, WorkersQuiet
<1>8. AnswersKnown'
  BY DEF PrepInv, PrepTypeInv, AnswersKnown, Quiet, WorkersQuiet
<1> QED
  BY <1>3, <1>4, <1>5, <1>6, <1>7, <1>8 DEF DocInv

LEMMA AdvanceQuiet ==
  ASSUME TypeInv, NEW w \in Workers, NEW pc \in WorkerStages, Advance(w, pc),
         pc \notin {"saved", "unanswered"}
  PROVE  WorkersQuiet
  BY AdvanceKeeps DEF WorkersQuiet

\* What Remember changes in the worker's memory, and what it keeps.
LEMMA RememberKeeps ==
  ASSUME TypeInv, NEW w \in Workers, NEW pc \in WorkerStages, NEW value \in Nat,
         worker[w].pc # "idle", Remember(w, pc, value)
  PROVE  /\ worker' \in [Workers -> WorkerMemory] /\ WorkerHasTask'
         /\ worker'[w].pc = pc /\ worker'[w].revision = value
         /\ worker'[w].task = worker[w].task /\ worker'[w].fence = worker[w].fence
         /\ \A v \in Workers : v # w => worker'[v] = worker[v]
<1> DEFINE memory == [worker[w] EXCEPT !.pc = pc, !.revision = value]
<1>1. worker \in [Workers -> WorkerMemory] /\ worker[w] \in WorkerMemory
  BY DEF TypeInv, TypeOK
<1>2. /\ memory \in WorkerMemory
      /\ memory.pc = pc /\ memory.revision = value
      /\ memory.task = worker[w].task /\ memory.fence = worker[w].fence
  BY <1>1 DEF WorkerMemory
<1>3. worker' = [worker EXCEPT ![w] = memory]
  BY <1>1 DEF Remember
<1> HIDE DEF memory
<1>4. /\ worker' \in [Workers -> WorkerMemory] /\ worker'[w] = memory
      /\ \A v \in Workers : v # w => worker'[v] = worker[v]
  BY <1>1, <1>2, <1>3
<1>5. WorkerHasTask'
  BY <1>2, <1>4, BusyWorker DEF TypeInv, WorkerHasTask
<1> QED
  BY <1>2, <1>4, <1>5

\* A worker that gets on with its task, and remembers something or not.
GoesOn(w, pc) == Advance(w, pc) \/ \E value \in Nat : Remember(w, pc, value)

LEMMA GoesOnKeeps ==
  ASSUME TypeInv, NEW w \in Workers, NEW pc \in WorkerStages, worker[w].pc # "idle",
         GoesOn(w, pc)
  PROVE  /\ worker' \in [Workers -> WorkerMemory] /\ WorkerHasTask'
         /\ worker'[w].pc = pc
         /\ worker'[w].task = worker[w].task /\ worker'[w].fence = worker[w].fence
         /\ \A v \in Workers : v # w => worker'[v] = worker[v]
  BY AdvanceKeeps, AdvanceTyped, RememberKeeps DEF GoesOn

\* The stages that work on documents leads to.
DocumentStages ==
  {"preparing", "drafted", "saved", "looked", "renewed", "unanswered", "settled"}

LEMMA MoveAppQuiet ==
  ASSUME TypeInv, NEW a \in Apps, NEW state, NEW steps, MoveApp(a, state, steps),
         state \notin {"PREPARED", "READY"}
  PROVE  AppsQuiet
<1>1. apps \in [Apps -> AppRow] /\ apps[a] \in AppRow
  BY DEF TypeInv, TypeOK, QueueTypeOK
<1>2. apps' = [apps EXCEPT ![a] =
        [apps[a] EXCEPT !.state = state, !.revision = apps[a].revision + steps]]
  BY DEF MoveApp
<1> DEFINE row == [apps[a] EXCEPT !.state = state, !.revision = apps[a].revision + steps]
<1>3. row.state = state
  BY <1>1 DEF AppRow
<1>4. apps' = [apps EXCEPT ![a] = row]
  BY <1>2
<1> HIDE DEF row
<1> QED
  BY <1>1, <1>3, <1>4 DEF AppsQuiet

\* Recovery shows an application in no other new state than UNKNOWN.
LEMMA RecoveredAppsQuiet ==
  ASSUME TypeInv, NEW T, NEW a \in Apps
  PROVE  RecoveredApps(T)[a].state \in {apps[a].state, "UNKNOWN"}
<1>1. apps[a] \in AppRow
  BY DEF TypeInv, TypeOK, QueueTypeOK
<1> QED
  BY <1>1 DEF RecoveredApps, AppRow

LEMMA RecoverQuiet ==
  ASSUME TypeInv, NEW T, NEW cancelled, RecoverTasks(T, cancelled)
  PROVE  AppsQuiet
  BY RecoveredAppsQuiet DEF RecoverTasks, AppsQuiet

LEMMA ClaimQuiet ==
  ASSUME TypeInv, NEW types, NEW t \in TaskIds, Claim(types, t)
  PROVE  AppsQuiet
<1> DEFINE rows == RecoveredApps(Expired)
<1>1. rows \in [Apps -> AppRow]
  BY RecoverTypes DEF TypeInv, TypeOK
<1>2. \A a \in Apps : rows[a].state \in {apps[a].state, "UNKNOWN"}
  BY RecoveredAppsQuiet
<1>3. apps' \in {rows, [rows EXCEPT ![AppOf[t.key]].commitFence = nextFence + 1]}
  BY DEF Claim
<1> HIDE DEF rows
<1>4. \A a \in Apps : apps'[a].state = rows[a].state
  BY <1>1, <1>3 DEF AppRow
<1> QED
  BY <1>2, <1>4 DEF AppsQuiet

-----------------------------------------------------------------------------
(* What goes on beside the documents                                        *)

\* A worker that forgets its task, or takes one up.
LEMMA OtherStageQuiet ==
  ASSUME TypeInv, NEW w \in Workers, NEW memory, worker' = [worker EXCEPT ![w] = memory],
         memory.pc \notin {"saved", "unanswered"}
  PROVE  WorkersQuiet
  BY DEF TypeInv, TypeOK, WorkersQuiet

LEMMA WorkerStepQuiet ==
  ASSUME TypeInv, NEW w \in Workers, WorkerStep(w)
  PROVE  WorkersQuiet /\ AppsQuiet
<1>1. CASE ReadRevision(w)
  <2> DEFINE memory == [worker[w] EXCEPT !.pc = "read", !.revision = apps[AppOfWorker(w)].revision]
  <2>1. worker[w] \in WorkerMemory
    BY DEF TypeInv, TypeOK
  <2>2. memory.pc = "read" /\ worker' = [worker EXCEPT ![w] = memory]
    BY <1>1, <2>1 DEF ReadRevision, WorkerMemory
  <2> HIDE DEF memory
  <2>3. WorkersQuiet
    BY <2>2, OtherStageQuiet
  <2> QED
    BY <1>1, <2>3 DEF ReadRevision, queueVars, AppsQuiet
<1>2. CASE \/ Begin(w) \/ AbortBeforeDispatch(w) \/ ConfirmReceipt(w)
           \/ RecordDefinitiveRejection(w) \/ ReconcileEvidence(w)
  <2>1. worker[w].pc # "idle"
    BY <1>2 DEF Begin, AbortBeforeDispatch, ConfirmReceipt, RecordDefinitiveRejection,
                ReconcileEvidence
  <2>2. AppOfWorker(w) \in Apps
    BY <2>1, BusyWorker
  <2>3. Advance(w, "begun") \/ Advance(w, "settled")
    BY <1>2 DEF Begin, AbortBeforeDispatch, ConfirmReceipt, RecordDefinitiveRejection,
                ReconcileEvidence
  <2>4. WorkersQuiet
    BY <2>3, AdvanceQuiet DEF WorkerStages
  <2>5. \E state \in {"IN_FLIGHT", "UNSUPPORTED", "CONFIRMED", "DEFINITIVE_FAILURE",
                      "NEEDS_REVIEW"}, steps \in {1, 2} :
          MoveApp(AppOfWorker(w), state, steps)
    BY <1>2 DEF Begin, AbortBeforeDispatch, ConfirmReceipt, RecordDefinitiveRejection,
                ReconcileEvidence, Verdict, AppOfWorker
  <2>6. AppsQuiet
    BY <2>2, <2>5, MoveAppQuiet
  <2> QED
    BY <2>4, <2>6
<1>3. CASE AuthorizeDispatch(w) \/ Click(w) \/ Respond(w) \/ Lookup(w)
  <2>1. \E pc \in {"permitted", "clicked", "accepted", "refused", "found", "missing"} :
          Advance(w, pc)
    BY <1>3 DEF AuthorizeDispatch, Click, Respond, Lookup
  <2>2. WorkersQuiet
    BY <2>1, AdvanceQuiet DEF WorkerStages
  <2> QED
    BY <1>3, <2>2 DEF AuthorizeDispatch, Click, Respond, Lookup, queueVars, AppsQuiet
<1>4. CASE Acknowledge(w) \/ GiveUp(w)
  <2>1. WorkersQuiet
    BY <1>4, OtherStageQuiet DEF Acknowledge, GiveUp, Idle
  <2>2. AppsQuiet \/ \E retryable \in BOOLEAN :
                        Fail(worker[w].task, worker[w].fence, retryable)
    BY <1>4 DEF Acknowledge, Complete, GiveUp, queueVars, AppsQuiet
  <2>3. ASSUME NEW retryable \in BOOLEAN, Fail(worker[w].task, worker[w].fence, retryable)
        PROVE  AppsQuiet
    BY <2>3, RecoverQuiet DEF Fail, AppsQuiet
  <2> QED
    BY <2>1, <2>2, <2>3
<1> QED
  BY <1>1, <1>2, <1>3, <1>4 DEF WorkerStep

LEMMA PollQuiet ==
  ASSUME TypeInv, NEW w \in Workers, Poll(w)
  PROVE  WorkersQuiet /\ AppsQuiet
<1>1. CASE ClaimTask(w)
  <2>1. PICK types \in PollTypes, t \in TaskIds :
          /\ Claim(types, t)
          /\ worker' = [worker EXCEPT ![w] =
               [pc |-> "claimed", task |-> t, fence |-> nextFence + 1, revision |-> 0]]
    BY <1>1 DEF ClaimTask
  <2> QED
    BY <2>1, ClaimQuiet, OtherStageQuiet
<1>2. CASE PollNothing(w)
  <2>1. RecoverTasks(Expired, FALSE) /\ UNCHANGED worker
    BY <1>2 DEF PollNothing, ClaimNothing, workVars
  <2> QED
    BY <2>1, RecoverQuiet DEF WorkersQuiet
<1> QED
  BY <1>1, <1>2 DEF Poll

\* What goes on beside the documents neither makes nor offers any.
LEMMA SubmissionStepQuiet ==
  ASSUME TypeInv, SubmissionStep
  PROVE  WorkersQuiet /\ AppsQuiet /\ UNCHANGED <<policy, packet, prep, latest>>
<1>1. WorkersQuiet /\ AppsQuiet
  <2>1. ASSUME NEW w \in Workers, WorkerStep(w) \/ Poll(w)
        PROVE  WorkersQuiet /\ AppsQuiet
    BY <2>1, WorkerStepQuiet, PollQuiet
  <2>2. ASSUME NEW w \in Workers, Crash(w)
        PROVE  WorkersQuiet /\ AppsQuiet
    <3>1. WorkersQuiet
      BY <2>2, OtherStageQuiet DEF Crash, Idle
    <3> QED
      BY <2>2, <3>1 DEF Crash, queueVars, AppsQuiet
  <2>3. ASSUME NEW w \in Workers, RenewLease(w)
        PROVE  WorkersQuiet /\ AppsQuiet
    BY <2>3 DEF RenewLease, Renew, workVars, WorkersQuiet, AppsQuiet
  <2>4. ASSUME NEW f \in Fences, NEW answer, EmployerAnswer(f, answer)
        PROVE  WorkersQuiet /\ AppsQuiet
    BY <2>4 DEF EmployerAnswer, queueVars, WorkersQuiet, AppsQuiet
  <2>5. ASSUME NEW t \in TaskIds, Elapse(t), UNCHANGED workVars
        PROVE  WorkersQuiet /\ AppsQuiet
    BY <2>5 DEF Elapse, workVars, WorkersQuiet, AppsQuiet
  <2> QED
    BY <2>1, <2>2, <2>3, <2>4, <2>5 DEF SubmissionStep
<1>2. UNCHANGED <<policy, packet, prep, latest>>
  <2>1. ASSUME NEW w \in Workers, WorkerStep(w)
        PROVE  UNCHANGED <<policy, packet, prep, latest>>
    BY <2>1 DEF WorkerStep, ReadRevision, Begin, AbortBeforeDispatch, AuthorizeDispatch,
      Click, Respond, ConfirmReceipt, RecordDefinitiveRejection, Lookup,
      ReconcileEvidence, Acknowledge, GiveUp
  <2>2. ASSUME NEW w \in Workers, Poll(w) \/ Crash(w) \/ RenewLease(w)
        PROVE  UNCHANGED <<policy, packet, prep, latest>>
    BY <2>2 DEF Poll, ClaimTask, PollNothing, Crash, RenewLease, workVars
  <2>3. ASSUME NEW f \in Fences, NEW answer, EmployerAnswer(f, answer)
        PROVE  UNCHANGED <<policy, packet, prep, latest>>
    BY <2>3 DEF EmployerAnswer
  <2>4. ASSUME UNCHANGED workVars
        PROVE  UNCHANGED <<policy, packet, prep, latest>>
    BY <2>4 DEF workVars
  <2> QED
    BY <2>1, <2>2, <2>3, <2>4 DEF SubmissionStep
<1> QED
  BY <1>1, <1>2

\* Such a step is one of the protocol's, and leaves the documents alone.
LEMMA SubmissionStepKeeps ==
  ASSUME PrepInv, SubmissionStep
  PROVE  PrepInv'
<1>1. TypeInv /\ policy \in 0 .. MaxPolicy
  BY DEF PrepInv, PrepTypeInv, TypeInv, TypeOK
<1>2. TypeInv'
  <2>1. Next
    BY DEF SubmissionStep, Next
  <2> QED
    BY <1>1, <2>1, TypeStep
<1>3. Quiet
  BY <1>1, SubmissionStepQuiet, SubmissionAssumption DEF Quiet
<1>4. UNCHANGED docVars
  BY DEF SubmissionStep
<1>5. DocInv' /\ AnswersKnown'
  BY <1>3, <1>4, QuietKeeps DEF docVars
<1>6. DocTypeOK'
  BY <1>4 DEF docVars, PrepInv, PrepTypeInv, DocTypeOK
<1> QED
  BY <1>2, <1>5, <1>6 DEF PrepInv, PrepTypeInv

-----------------------------------------------------------------------------
(* What the owner does to submissions                                       *)

\* A preparation is saved of the packet that is valid now, made under the
\* policy that holds now; the key was free, so no other application's newest
\* preparation is overwritten.
LEMMA SavedIsInspected ==
  ASSUME TypeInv, ReadyIsInspected, NEW k \in Keys, NEW status \in Statuses,
         NEW queueSubmit \in BOOLEAN, SavePreparation(k, status, queueSubmit),
         status = "ready" => AppOf[k] \notin incomplete, UNCHANGED incomplete
  PROVE  /\ ReadyIsInspected'
         /\ apps'[AppOf[k]].state # "PREPARED"
         /\ \A b \in Apps : b # AppOf[k] => apps'[b] = apps[b]
         /\ packet[AppOf[k]].valid /\ packet[AppOf[k]].policy = policy
         /\ UNCHANGED <<packet, policy>>
<1> DEFINE a == AppOf[k]
           state == StateAfter(status)
<1>1. /\ a \in Apps
      /\ apps \in [Apps -> AppRow] /\ apps[a] \in AppRow
      /\ latest \in [Apps -> Keys \cup {NoKey}] /\ prep \in [Keys -> PrepRow]
  BY QueueAssumption DEF TypeInv, TypeOK, QueueTypeOK
<1>2. state # "PREPARED" /\ (state = "READY" => status = "ready")
  BY SubmissionAssumption DEF StateAfter
<1>3. PICK steps \in {1, 2} : MoveApp(a, state, steps)
  BY DEF SavePreparation
<1> HIDE DEF state
<1>4. apps'[a].state = state /\ \A b \in Apps : b # a => apps'[b] = apps[b]
  <2> DEFINE row == [apps[a] EXCEPT !.state = state, !.revision = apps[a].revision + steps]
  <2>1. row.state = state
    BY <1>1 DEF AppRow
  <2>2. apps' = [apps EXCEPT ![a] = row]
    BY <1>3 DEF MoveApp
  <2> HIDE DEF row
  <2> QED
    BY <1>1, <2>1, <2>2
<1>5. /\ packet[a].valid /\ packet[a].policy = policy /\ prep[k].status = "none"
      /\ UNCHANGED <<packet, policy>>
      /\ prep' = [prep EXCEPT ![k] =
           [status |-> status, policy |-> policy, packet |-> packet[a].serial]]
      /\ latest' = [latest EXCEPT ![a] = k]
  BY DEF SavePreparation
<1>6. ReadyIsInspected'
  <2> SUFFICES ASSUME NEW b \in Apps, apps'[b].state = "READY"
               PROVE  /\ latest'[b] \in Keys
                      /\ prep'[latest'[b]].status = "ready"
                      /\ packet'[b].valid /\ prep'[latest'[b]].packet = packet'[b].serial
                      /\ b \notin incomplete'
    BY DEF ReadyIsInspected
  <2>1. CASE b = a
    BY <1>1, <1>2, <1>4, <1>5, <2>1
  <2>2. CASE b # a
    <3>1. /\ latest[b] \in Keys /\ prep[latest[b]].status = "ready"
          /\ packet[b].valid /\ prep[latest[b]].packet = packet[b].serial
          /\ b \notin incomplete
      BY <1>4, <2>2 DEF ReadyIsInspected
    <3>2. latest'[b] = latest[b] /\ latest[b] # k
      BY <1>1, <1>5, <2>2, <3>1
    <3> QED
      BY <1>1, <1>5, <3>1, <3>2
  <2> QED
    BY <2>1, <2>2
<1> QED
  BY <1>2, <1>4, <1>5, <1>6

LEMMA SavePreparationKeeps ==
  ASSUME PrepInv, NEW k \in Keys, NEW status \in Statuses, NEW queueSubmit \in BOOLEAN,
         SavePreparation(k, status, queueSubmit),
         status = "ready" => AppOf[k] \notin incomplete,
         UNCHANGED <<profileOf, looks, incomplete>>
  PROVE  /\ ReadyIsInspected' /\ PreparedForProfile'
         /\ ProfileStands' /\ InspectedComplete'
<1>1. /\ ReadyIsInspected' /\ apps'[AppOf[k]].state # "PREPARED"
      /\ \A b \in Apps : b # AppOf[k] => apps'[b] = apps[b]
      /\ packet[AppOf[k]].valid /\ packet[AppOf[k]].policy = policy
      /\ UNCHANGED <<packet, policy>>
  BY SavedIsInspected DEF PrepInv, PrepTypeInv, DocInv
<1>2. PreparedForProfile'
  BY <1>1, QueueAssumption DEF PrepInv, DocInv, PreparedForProfile, Profile
<1>3. ProfileStands' /\ InspectedComplete'
  BY <1>1 DEF PrepInv, DocInv, ProfileStands, Profile, InspectedComplete, CompletePacket
<1> QED
  BY <1>1, <1>2, <1>3

\* Workers that know of no packet but those they knew of.
LEMMA QueuedStays ==
  ASSUME PrepInv, UNCHANGED <<packet, incomplete>>,
         \A w \in Workers : worker'[w].pc = "saved" => worker'[w] = worker[w]
  PROVE  QueuedComplete'
  BY DEF PrepInv, DocInv, QueuedComplete, CompletePacket, AppOfWorker

LEMMA OwnerSaveKeeps ==
  ASSUME PrepInv, NEW k \in Keys, NEW status \in Statuses, NEW queueSubmit \in BOOLEAN,
         AppOf[k] \notin incomplete, Save(k, status, queueSubmit), UNCHANGED docVars
  PROVE  PrepInv'
<1>1. TypeInv'
  BY SaveTyped DEF PrepInv, PrepTypeInv
<1>2. DocInv'
  <2>1. SavePreparation(k, status, queueSubmit) /\ UNCHANGED <<packet, worker>>
    BY DEF Save, SavePreparation
  <2> QED
    BY <2>1, SavePreparationKeeps, QueuedStays DEF DocInv, docVars
<1>3. DocTypeOK' /\ AnswersKnown'
  BY DEF Save, docVars, PrepInv, PrepTypeInv, DocTypeOK, AnswersKnown
<1> QED
  BY <1>1, <1>2, <1>3 DEF PrepInv, PrepTypeInv

LEMMA QuietOwnerKeeps ==
  ASSUME PrepInv, TypeInv', Quiet, UNCHANGED docVars
  PROVE  PrepInv'
<1>1. DocInv' /\ AnswersKnown'
  BY QuietKeeps DEF docVars
<1>2. DocTypeOK'
  BY DEF docVars, PrepInv, PrepTypeInv, DocTypeOK
<1> QED
  BY <1>1, <1>2 DEF PrepInv, PrepTypeInv

\* saveAuthorization and revokeAuthorization: the profile stays what it was.
LEMMA AuthorityKeeps ==
  ASSUME PrepInv, NEW autoSubmit \in BOOLEAN, UNCHANGED docVars,
         SaveAuthorization(autoSubmit) \/ RevokeAuthorization
  PROVE  PrepInv'
<1>1. TypeInv /\ policy \in 0 .. MaxPolicy
  BY DEF PrepInv, PrepTypeInv, TypeInv, TypeOK
<1>2. TypeInv'
  <2>1. autoSubmit = TRUE \/ autoSubmit = FALSE
    OBVIOUS
  <2> QED
    BY <1>1, <2>1, PolicyTyped
<1>3. policy' \in 0 .. MaxPolicy /\ policy' >= policy
  <2>1. \/ policy < MaxPolicy /\ policy' = policy + 1
      \/ policy' = policy
    BY DEF SaveAuthorization, RevokeAuthorization
  <2> QED
    BY <1>1, <2>1, SubmissionAssumption
<1>4. RecoverTasks(LeasedSubmits, TRUE)
  BY DEF SaveAuthorization, RevokeAuthorization
<1>5. AppsQuiet
  BY <1>1, <1>4, RecoverQuiet
<1>6. UNCHANGED <<packet, prep, latest, worker>>
  BY DEF SaveAuthorization, RevokeAuthorization
<1> QED
  BY <1>2, <1>3, <1>5, <1>6, QuietOwnerKeeps DEF Quiet, WorkersQuiet

LEMMA ControlQuiet ==
  ASSUME TypeInv, NEW patched, SetControl(patched)
  PROVE  AppsQuiet
<1> DEFINE T == {t \in Leased : t.type = "submit"}
<1>1. RecoverTasks(T, TRUE) \/ UNCHANGED apps
  BY DEF SetControl
<1> HIDE DEF T
<1>2. CASE RecoverTasks(T, TRUE)
  BY <1>2, RecoverQuiet
<1>3. CASE UNCHANGED apps
  BY <1>3 DEF AppsQuiet
<1> QED
  BY <1>1, <1>2, <1>3

LEMMA ControlKeeps ==
  ASSUME PrepInv, NEW patched \in ControlRow, SetControl(patched),
         UNCHANGED <<workVars, docVars>>
  PROVE  PrepInv'
<1>1. TypeInv /\ policy \in 0 .. MaxPolicy
  BY DEF PrepInv, PrepTypeInv, TypeInv, TypeOK
<1>2. TypeInv'
  BY <1>1, SetControlTyped, QueueStepTyped DEF TypeInv, TypeOK
<1>3. AppsQuiet
  BY <1>1, ControlQuiet
<1>4. policy' \in 0 .. MaxPolicy /\ policy' >= policy
  BY <1>1, SubmissionAssumption DEF workVars
<1> QED
  BY <1>2, <1>3, <1>4, QuietOwnerKeeps DEF Quiet, WorkersQuiet, workVars

LEMMA PatchesTyped ==
  ASSUME TypeInv
  PROVE  ControlPatches \cup PreparationPatches \cup OpeningPatches \subseteq ControlRow
<1>1. QueueTypeOK /\ control \in ControlRow
  BY DEF TypeInv, TypeOK, QueueTypeOK
<1>2. PreparationPatches \subseteq ControlRow
  BY <1>1 DEF PreparationPatches, ControlRow
<1>3. OpeningPatches \subseteq ControlRow
  BY <1>1 DEF OpeningPatches, ControlRow
<1> QED
  BY <1>1, <1>2, <1>3, ControlPatchesTyped

LEMMA OwnerSubmissionStepKeeps ==
  ASSUME PrepInv, OwnerSubmissionStep
  PROVE  PrepInv'
<1>1. UNCHANGED docVars
  BY DEF OwnerSubmissionStep
<1>2. ASSUME NEW k \in Keys, NEW status \in Statuses, NEW queueSubmit \in BOOLEAN,
             AppOf[k] \notin incomplete, Save(k, status, queueSubmit)
      PROVE  PrepInv'
  BY <1>1, <1>2, OwnerSaveKeeps
<1>3. ASSUME NEW autoSubmit \in BOOLEAN, SaveAuthorization(autoSubmit)
      PROVE  PrepInv'
  BY <1>1, <1>3, AuthorityKeeps
<1>4. ASSUME RevokeAuthorization
      PROVE  PrepInv'
  BY <1>1, <1>4, AuthorityKeeps
<1>5. ASSUME NEW patched \in ControlPatches \cup PreparationPatches \cup OpeningPatches,
             SetControl(patched), UNCHANGED workVars
      PROVE  PrepInv'
  BY <1>1, <1>5, PatchesTyped, ControlKeeps DEF PrepInv, PrepTypeInv
<1> QED
  BY <1>2, <1>3, <1>4, <1>5 DEF OwnerSubmissionStep

-----------------------------------------------------------------------------
(* Documents: types                                                         *)

LEMMA EnqueueTyped ==
  ASSUME TypeInv, NEW type \in {"prepare", "inspect"}, NEW k \in Keys, Enqueue(type, k)
  PROVE  tasks' \in [TaskIds -> TaskRow]
<1>1. Task(type, k) \in TaskIds
  BY PreparationAssumption DEF Task, TaskIds
<1> QED
  BY <1>1, ReadyRowTyped DEF Enqueue, TypeInv, TypeOK, QueueTypeOK

\* The tables and memories that work on documents writes.
LEMMA DocumentTyped ==
  ASSUME TypeInv, tasks' \in [TaskIds -> TaskRow], apps' \in [Apps -> AppRow],
         worker' \in [Workers -> WorkerMemory], WorkerHasTask',
         packet' \in [Apps -> PacketRow],
         UNCHANGED <<control, quarantined, attempts, nextFence, policy, authority, prep,
                     latest, employer, clicks>>
  PROVE  TypeInv'
  BY DEF TypeInv, TypeOK, QueueTypeOK

LEMMA TablesTyped ==
  ASSUME PrepInv
  PROVE  /\ TypeInv /\ policy \in 0 .. MaxPolicy /\ policy \in Nat /\ Profile \in Nat
         /\ tasks \in [TaskIds -> TaskRow] /\ apps \in [Apps -> AppRow]
         /\ attempts \in [Fences -> AttemptRow]
         /\ worker \in [Workers -> WorkerMemory] /\ WorkerHasTask
         /\ packet \in [Apps -> PacketRow] /\ \A a \in Apps : packet[a].serial \in Nat
         /\ profileOf \in [0 .. MaxPolicy -> Nat]
         /\ brief \in [Keys -> [profile : Nat, refresh : BOOLEAN]]
         /\ looks \in [Keys -> Nat] /\ incomplete \subseteq Apps
         /\ requests \subseteq [app : Apps, policy : 0 .. MaxPolicy]
<1>1. /\ TypeInv /\ policy \in 0 .. MaxPolicy
      /\ tasks \in [TaskIds -> TaskRow] /\ apps \in [Apps -> AppRow]
      /\ attempts \in [Fences -> AttemptRow]
      /\ worker \in [Workers -> WorkerMemory] /\ WorkerHasTask
      /\ packet \in [Apps -> PacketRow]
  BY DEF PrepInv, PrepTypeInv, TypeInv, TypeOK, QueueTypeOK
<1>2. DocTypeOK
  BY DEF PrepInv, PrepTypeInv
<1>3. \A a \in Apps : packet[a].serial \in Nat
  BY <1>1 DEF PacketRow
<1>4. policy \in Nat /\ Profile \in Nat
  BY <1>1, <1>2, SubmissionAssumption DEF DocTypeOK, Profile
<1> QED
  BY <1>1, <1>2, <1>3, <1>4 DEF DocTypeOK

\* A step of a worker that goes on to another stage of its task, and may move
\* its application, or enqueue work.
LEMMA WorkerGoesOn ==
  ASSUME PrepInv, NEW w \in Workers, NEW pc \in WorkerStages \ {"saved", "unanswered"},
         worker[w].pc # "idle", Advance(w, pc),
         tasks' \in [TaskIds -> TaskRow], apps' \in [Apps -> AppRow], AppsQuiet,
         UNCHANGED <<control, quarantined, attempts, nextFence, policy, authority, packet,
                     prep, latest, employer, clicks, profileOf, looks, incomplete>>,
         DocTypeOK'
  PROVE  PrepInv'
<1>1. TypeInv'
  BY AdvanceTyped, TablesTyped, DocumentTyped
<1>2. Quiet
  BY AdvanceQuiet, TablesTyped DEF Quiet
<1> QED
  BY <1>1, <1>2, QuietKeeps DEF PrepInv, PrepTypeInv

LEMMA MovedApp ==
  ASSUME PrepInv, NEW a \in Apps, NEW state \in ApplicationStates \ {"PREPARED", "READY"},
         MoveApp(a, state, 1)
  PROVE  apps' \in [Apps -> AppRow] /\ AppsQuiet
<1>1. TypeInv /\ 1 \in Nat
  BY TablesTyped
<1>2. apps' \in [Apps -> AppRow]
  BY <1>1, MoveAppTyped
<1>3. AppsQuiet
  BY <1>1, MoveAppQuiet
<1> QED
  BY <1>2, <1>3

-----------------------------------------------------------------------------
(* Matching                                                                 *)

LEMMA QualifyKeeps ==
  ASSUME PrepInv, NEW a \in Apps, Qualify(a)
  PROVE  PrepInv'
<1>1. MoveApp(a, "ASSESSED", 1) \/ MoveApp(a, "ELIGIBLE", 1)
  BY DEF Qualify
<1>2. apps' \in [Apps -> AppRow] /\ AppsQuiet
  BY <1>1, MovedApp DEF ApplicationStates
<1>3. UNCHANGED <<control, quarantined, tasks, attempts, nextFence, workVars, docVars>>
  BY DEF Qualify
<1>4. TypeInv'
  BY <1>2, <1>3, TablesTyped, DocumentTyped DEF workVars, WorkerHasTask
<1> QED
  BY <1>2, <1>3, <1>4, TablesTyped, QuietOwnerKeeps DEF Quiet, WorkersQuiet, workVars

LEMMA SaveAssessmentKeeps ==
  ASSUME PrepInv, NEW k \in Keys, NEW p \in 0 .. policy, SaveAssessment(k, profileOf[p])
  PROVE  PrepInv'
<1>1. profileOf[p] \in Nat
  BY TablesTyped, SubmissionAssumption
<1>2. brief' \in [Keys -> [profile : Nat, refresh : BOOLEAN]]
  <2>1. brief[k] \in [profile : Nat, refresh : BOOLEAN]
    BY TablesTyped
  <2>2. [brief[k] EXCEPT !.profile = profileOf[p]] \in [profile : Nat, refresh : BOOLEAN]
    BY <1>1, <2>1
  <2>3. brief' = [brief EXCEPT ![k] = [brief[k] EXCEPT !.profile = profileOf[p]]]
    BY TablesTyped DEF SaveAssessment
  <2> QED
    BY <2>2, <2>3, TablesTyped
<1>3. UNCHANGED <<control, quarantined, apps, attempts, nextFence, workVars,
                  profileOf, looks, incomplete, requests>>
  BY DEF SaveAssessment
<1>4. TypeInv'
  <2>1. tasks' \in [TaskIds -> TaskRow]
    BY TablesTyped, EnqueueTyped DEF SaveAssessment
  <2> QED
    BY <1>3, <2>1, TablesTyped, DocumentTyped DEF workVars, WorkerHasTask
<1>5. Quiet
  BY <1>3, TablesTyped DEF Quiet, WorkersQuiet, AppsQuiet, workVars
<1>6. DocInv' /\ AnswersKnown'
  BY <1>3, <1>5, QuietKeeps
<1>7. DocTypeOK'
  BY <1>2, <1>3, TablesTyped DEF DocTypeOK
<1> QED
  BY <1>4, <1>6, <1>7 DEF PrepInv, PrepTypeInv

-----------------------------------------------------------------------------
(* The prepare task                                                         *)

\* What the worker knows once it has got hold of a packet.
LEMMA AfterPacketKeeps ==
  ASSUME PrepInv, NEW w \in Workers, worker[w].pc # "idle", NEW serial \in Nat,
         NEW lacking \in BOOLEAN, AfterPacket(w, serial, lacking)
  PROVE  /\ worker' \in [Workers -> WorkerMemory] /\ WorkerHasTask' /\ AnswersKnown'
         /\ \A v \in Workers : worker'[v].pc = "saved" =>
              \/ worker'[v] = worker[v]
              \/ /\ v = w /\ ~lacking /\ worker'[v].revision = serial
                 /\ worker'[v].task = worker[v].task
<1>1. CASE lacking
  <2>1. Advance(w, "settled")
    BY <1>1 DEF AfterPacket
  <2>2. /\ worker' \in [Workers -> WorkerMemory] /\ WorkerHasTask'
        /\ worker'[w].pc = "settled" /\ \A v \in Workers : v # w => worker'[v] = worker[v]
    BY <2>1, TablesTyped, AdvanceTyped, AdvanceKeeps DEF WorkerStages
  <2> QED
    BY <2>2 DEF PrepInv, PrepTypeInv, AnswersKnown
<1>2. CASE ~lacking
  <2>1. Remember(w, "saved", serial)
    BY <1>2 DEF AfterPacket
  <2>2. /\ worker' \in [Workers -> WorkerMemory] /\ WorkerHasTask'
        /\ worker'[w].pc = "saved" /\ worker'[w].revision = serial
        /\ worker'[w].task = worker[w].task
        /\ \A v \in Workers : v # w => worker'[v] = worker[v]
    BY <2>1, TablesTyped, RememberKeeps DEF WorkerStages
  <2> QED
    BY <1>2, <2>2 DEF PrepInv, PrepTypeInv, AnswersKnown
<1> QED
  BY <1>1, <1>2

\* A packet is retained or preserved only as complete as it is known to be.
LEMMA KeptPacketKeeps ==
  ASSUME PrepInv, NEW w \in Workers, worker[w].pc # "idle",
         AfterPacket(w, packet[AppOfWorker(w)].serial, AppOfWorker(w) \in incomplete),
         UNCHANGED <<queueVars, policy, authority, packet, prep, latest, employer,
                     clicks, docVars>>
  PROVE  PrepInv'
<1> DEFINE a == AppOfWorker(w)
           serial == packet[a].serial
           lacking == (a \in incomplete)
<1>1. a \in Apps /\ serial \in Nat /\ lacking \in BOOLEAN
  BY TablesTyped, BusyWorker
<1>2. AfterPacket(w, serial, lacking)
  OBVIOUS
<1>3. /\ worker' \in [Workers -> WorkerMemory] /\ WorkerHasTask' /\ AnswersKnown'
      /\ \A v \in Workers : worker'[v].pc = "saved" =>
           \/ worker'[v] = worker[v]
           \/ /\ v = w /\ ~lacking /\ worker'[v].revision = serial
              /\ worker'[v].task = worker[v].task
  <2> HIDE DEF serial, lacking
  <2> QED
    BY <1>1, <1>2, AfterPacketKeeps
<1>4. TypeInv'
  BY <1>3, TablesTyped, DocumentTyped DEF queueVars
<1>5. DocTypeOK'
  BY TablesTyped DEF docVars, DocTypeOK
<1>6. QueuedComplete'
  <2> SUFFICES ASSUME NEW v \in Workers, worker'[v].pc = "saved"
               PROVE  CompletePacket(AppOf[worker'[v].task.key], worker'[v].revision)
    BY DEF QueuedComplete, CompletePacket, AppOfWorker, docVars
  <2>1. CASE worker'[v] = worker[v]
    BY <2>1 DEF PrepInv, DocInv, QueuedComplete, AppOfWorker
  <2>2. CASE worker'[v] # worker[v]
    <3>1. /\ a \notin incomplete /\ worker'[v].revision = serial
          /\ AppOf[worker'[v].task.key] = a
      BY <1>3, <2>2 DEF AppOfWorker
    <3> QED
      BY <1>1, <3>1 DEF CompletePacket
  <2> QED
    BY <2>1, <2>2
<1>7. ReadyIsInspected' /\ PreparedForProfile' /\ ProfileStands' /\ InspectedComplete'
  BY DEF PrepInv, DocInv, ReadyIsInspected, PreparedForProfile, ProfileStands,
    InspectedComplete, CompletePacket, Profile, docVars, queueVars
<1> QED
  BY <1>3, <1>4, <1>5, <1>6, <1>7 DEF PrepInv, PrepTypeInv, DocInv

LEMMA RetainKeeps ==
  ASSUME PrepInv, NEW w \in Workers, Retain(w) \/ PreservePacket(w)
  PROVE  PrepInv'
<1>1. worker[w].pc # "idle"
  BY DEF Retain, PreservePacket
<1>2. /\ AfterPacket(w, packet[AppOfWorker(w)].serial, AppOfWorker(w) \in incomplete)
      /\ UNCHANGED <<queueVars, policy, authority, packet, prep, latest, employer,
                     clicks, docVars>>
  BY DEF Retain, PreservePacket
<1> QED
  BY <1>1, <1>2, KeptPacketKeeps

LEMMA StartPreparingKeeps ==
  ASSUME PrepInv, NEW w \in Workers, StartPreparing(w)
  PROVE  PrepInv'
<1>1. worker[w].pc # "idle" /\ Advance(w, "preparing")
  BY DEF StartPreparing
<1>2. AppOfWorker(w) \in Apps
  BY <1>1, TablesTyped, BusyWorker
<1>3. MoveApp(AppOfWorker(w), "PREPARING", 1) \/ UNCHANGED apps
  BY DEF StartPreparing
<1>4. apps' \in [Apps -> AppRow] /\ AppsQuiet
  <2>1. CASE MoveApp(AppOfWorker(w), "PREPARING", 1)
    BY <1>2, <2>1, MovedApp DEF ApplicationStates
  <2>2. CASE UNCHANGED apps
    BY <2>2, TablesTyped DEF AppsQuiet
  <2> QED
    BY <1>3, <2>1, <2>2
<1>5. UNCHANGED <<control, quarantined, tasks, attempts, nextFence, policy, authority,
                  packet, prep, latest, employer, clicks, docVars>>
  BY DEF StartPreparing
<1>6. DocTypeOK'
  BY <1>5, TablesTyped DEF docVars, DocTypeOK
<1>7. tasks' \in [TaskIds -> TaskRow] /\ UNCHANGED <<profileOf, looks, incomplete>>
  BY <1>5, TablesTyped DEF docVars
<1> QED
  BY <1>1, <1>4, <1>5, <1>6, <1>7, WorkerGoesOn DEF WorkerStages

LEMMA DraftKeeps ==
  ASSUME PrepInv, NEW w \in Workers, Draft(w)
  PROVE  PrepInv'
<1>1. worker[w].pc # "idle" /\ Remember(w, "drafted", policy)
  BY DEF Draft
<1>2. /\ worker' \in [Workers -> WorkerMemory] /\ WorkerHasTask' /\ worker'[w].pc = "drafted"
      /\ \A v \in Workers : v # w => worker'[v] = worker[v]
  BY <1>1, TablesTyped, RememberKeeps DEF WorkerStages
<1>3. UNCHANGED <<queueVars, policy, authority, packet, prep, latest, employer,
                  clicks, docVars>>
  BY DEF Draft
<1>4. TypeInv'
  BY <1>2, <1>3, TablesTyped, DocumentTyped DEF queueVars
<1>5. Quiet
  BY <1>2, <1>3, TablesTyped DEF Quiet, WorkersQuiet, AppsQuiet, queueVars
<1> QED
  BY <1>3, <1>4, <1>5, QuietOwnerKeeps

\* A new packet: what was complete as the newest, or was not the newest, is not
\* the newest any more; and the application is offered only with this packet.
LEMMA PacketIsNewest ==
  ASSUME TypeInv, ReadyIsInspected, NEW a \in Apps, NEW made, NEW lacking \in BOOLEAN,
         StorePacket(a, made, lacking), UNCHANGED <<prep, latest>>
  PROVE  /\ packet' \in [Apps -> PacketRow] /\ apps' \in [Apps -> AppRow]
         /\ packet'[a].policy = policy /\ packet'[a].valid
         /\ \A b \in Apps : b # a => packet'[b] = packet[b] /\ apps'[b] = apps[b]
         /\ \A b \in Apps : \A serial \in Nat :
              CompletePacket(b, serial) => CompletePacket(b, serial)'
         /\ \A serial \in Nat :
              ~lacking /\ serial = packet[a].serial + 1 => CompletePacket(a, serial)'
         /\ ReadyIsInspected'
<1> DEFINE row == [serial |-> packet[a].serial + 1, policy |-> policy, valid |-> TRUE]
<1>1. /\ packet \in [Apps -> PacketRow] /\ packet[a].serial \in Nat /\ policy \in Nat
      /\ \A b \in Apps : packet[b].serial \in Nat
      /\ apps \in [Apps -> AppRow] /\ apps[a] \in AppRow
  BY SubmissionAssumption DEF TypeInv, TypeOK, QueueTypeOK, PacketRow
<1>2. row \in PacketRow /\ row.serial = packet[a].serial + 1 /\ row.policy = policy /\ row.valid
  BY <1>1 DEF PacketRow
<1>3. packet' = [packet EXCEPT ![a] = row]
  BY DEF StorePacket
<1> HIDE DEF row
<1>4. /\ packet' \in [Apps -> PacketRow] /\ packet'[a] = row
      /\ \A b \in Apps : b # a => packet'[b] = packet[b]
  BY <1>1, <1>2, <1>3
<1>5. incomplete' = IF lacking THEN incomplete \cup {a} ELSE incomplete \ {a}
  BY DEF StorePacket
<1>6. /\ MoveApp(a, StateWith(a, lacking), 1)
      /\ StateWith(a, lacking) \in ApplicationStates /\ StateWith(a, lacking) # "READY"
  BY DEF StorePacket, StateWith, ApplicationStates
<1>7. apps' \in [Apps -> AppRow]
  <2>1. 1 \in Nat
    OBVIOUS
  <2> QED
    BY <1>6, <2>1, MoveAppTyped
<1>8. apps'[a].state # "READY" /\ \A b \in Apps : b # a => apps'[b] = apps[b]
  <2> DEFINE new == [apps[a] EXCEPT !.state = StateWith(a, lacking), !.revision = apps[a].revision + 1]
  <2>1. new.state = StateWith(a, lacking)
    BY <1>1 DEF AppRow
  <2>2. apps' = [apps EXCEPT ![a] = new]
    BY <1>6 DEF MoveApp
  <2> HIDE DEF new
  <2> QED
    BY <1>1, <1>6, <2>1, <2>2
<1>9. \A b \in Apps : \A serial \in Nat :
        CompletePacket(b, serial) => CompletePacket(b, serial)'
  <2> SUFFICES ASSUME NEW b \in Apps, NEW serial \in Nat, CompletePacket(b, serial)
               PROVE  /\ serial <= packet'[b].serial
                      /\ serial = packet'[b].serial => b \notin incomplete'
    BY DEF CompletePacket
  <2>1. serial <= packet[b].serial /\ (serial = packet[b].serial => b \notin incomplete)
    BY DEF CompletePacket
  <2>2. CASE b = a
    BY <1>1, <1>2, <1>4, <2>1, <2>2
  <2>3. CASE b # a
    BY <1>4, <1>5, <2>1, <2>3
  <2> QED
    BY <2>2, <2>3
<1>10. \A serial \in Nat :
         ~lacking /\ serial = packet[a].serial + 1 => CompletePacket(a, serial)'
  <2> SUFFICES ASSUME NEW serial \in Nat, ~lacking, serial = packet[a].serial + 1
               PROVE  /\ serial <= packet'[a].serial
                      /\ serial = packet'[a].serial => a \notin incomplete'
    BY DEF CompletePacket
  <2> QED
    BY <1>1, <1>2, <1>4, <1>5
<1>11. ReadyIsInspected'
  BY <1>4, <1>5, <1>8 DEF ReadyIsInspected
<1> QED
  BY <1>2, <1>4, <1>7, <1>8, <1>9, <1>10, <1>11

LEMMA StoredPacket ==
  ASSUME PrepInv, NEW a \in Apps, NEW made, NEW lacking \in BOOLEAN,
         StorePacket(a, made, lacking), UNCHANGED <<policy, profileOf, prep, latest>>
  PROVE  /\ packet' \in [Apps -> PacketRow] /\ apps' \in [Apps -> AppRow]
         /\ incomplete' \subseteq Apps
         /\ \A b \in Apps : \A serial \in Nat :
              CompletePacket(b, serial) => CompletePacket(b, serial)'
         /\ \A serial \in Nat :
              ~lacking /\ serial = packet[a].serial + 1 => CompletePacket(a, serial)'
         /\ ReadyIsInspected' /\ PreparedForProfile'
<1>1. TypeInv /\ ReadyIsInspected /\ incomplete \subseteq Apps
  BY TablesTyped DEF PrepInv, DocInv
<1>2. incomplete' \subseteq Apps
  BY <1>1 DEF StorePacket
<1>3. /\ packet'[a].policy = policy /\ packet'[a].valid
      /\ \A b \in Apps : b # a => packet'[b] = packet[b] /\ apps'[b] = apps[b]
  BY <1>1, PacketIsNewest
<1>4. PreparedForProfile'
  BY <1>3 DEF PrepInv, DocInv, PreparedForProfile, Profile
<1> QED
  BY <1>1, <1>2, <1>4, PacketIsNewest

LEMMA SavePacketKeeps ==
  ASSUME PrepInv, NEW w \in Workers, NEW lacking \in BOOLEAN, SavePacket(w, lacking)
  PROVE  PrepInv'
<1>1. worker[w].pc # "idle"
  BY DEF SavePacket
<1>2. PICK a \in Apps : a = AppOfWorker(w)
  BY <1>1, TablesTyped, BusyWorker
<1>3. PICK serial \in Nat : serial = packet[a].serial + 1
  BY TablesTyped
<1>4. /\ StorePacket(a, worker[w].revision, lacking)
      /\ AfterPacket(w, serial, lacking)
  BY <1>2, <1>3 DEF SavePacket
<1>5. UNCHANGED <<control, quarantined, tasks, attempts, nextFence, policy, authority,
                  prep, latest, employer, clicks, profileOf, brief, looks, requests>>
  BY DEF SavePacket
<1>6. /\ packet' \in [Apps -> PacketRow] /\ apps' \in [Apps -> AppRow]
      /\ incomplete' \subseteq Apps
      /\ \A b \in Apps : \A n \in Nat : CompletePacket(b, n) => CompletePacket(b, n)'
      /\ \A n \in Nat : ~lacking /\ n = packet[a].serial + 1 => CompletePacket(a, n)'
      /\ ReadyIsInspected' /\ PreparedForProfile'
  BY <1>4, <1>5, StoredPacket
<1>7. /\ worker' \in [Workers -> WorkerMemory] /\ WorkerHasTask' /\ AnswersKnown'
      /\ \A v \in Workers : worker'[v].pc = "saved" =>
           \/ worker'[v] = worker[v]
           \/ /\ v = w /\ ~lacking /\ worker'[v].revision = serial
              /\ worker'[v].task = worker[v].task
  BY <1>1, <1>4, AfterPacketKeeps
<1>8. TypeInv'
  BY <1>5, <1>6, <1>7, TablesTyped, DocumentTyped
<1>9. DocTypeOK'
  BY <1>5, <1>6, TablesTyped DEF DocTypeOK
<1>10. QueuedComplete'
  <2> SUFFICES ASSUME NEW v \in Workers, worker'[v].pc = "saved"
               PROVE  CompletePacket(AppOfWorker(v), worker[v].revision)'
    BY DEF QueuedComplete
  <2>1. PICK b \in Apps, n \in Nat :
          b = AppOf[worker'[v].task.key] /\ n = worker'[v].revision
    <3>1. AppOfWorker(v)' \in Apps
      <4>1. worker'[v] # Idle
        BY DEF Idle
      <4>2. worker'[v].task \in TaskIds
        BY <1>7, <4>1 DEF WorkerHasTask
      <4> QED
        BY <4>2, AppOfTask DEF AppOfWorker
    <3>2. worker'[v].revision \in Nat
      BY <1>7 DEF WorkerMemory
    <3> QED
      BY <3>1, <3>2 DEF AppOfWorker
  <2>2. CompletePacket(b, n)'
    <3>1. CASE worker'[v] = worker[v]
      <4>1. CompletePacket(b, n)
        BY <2>1, <3>1 DEF PrepInv, DocInv, QueuedComplete, AppOfWorker
      <4> QED
        BY <1>6, <4>1
    <3>2. CASE worker'[v] # worker[v]
      <4>1. b = a /\ ~lacking /\ n = packet[a].serial + 1
        BY <1>2, <1>3, <1>7, <2>1, <3>2 DEF AppOfWorker
      <4> QED
        BY <1>6, <4>1
    <3> QED
      BY <3>1, <3>2
  <2> QED
    BY <2>1, <2>2 DEF CompletePacket, AppOfWorker
<1>11. InspectedComplete'
  <2> SUFFICES ASSUME NEW k \in Keys
               PROVE  CompletePacket(AppOf[k], looks[k])'
    BY DEF InspectedComplete
  <2>1. PICK n \in Nat : n = looks[k]
    BY TablesTyped
  <2>2. AppOf[k] \in Apps /\ CompletePacket(AppOf[k], n)
    BY <2>1, QueueAssumption DEF PrepInv, DocInv, InspectedComplete
  <2>3. CompletePacket(AppOf[k], n)'
    BY <1>6, <2>2
  <2> QED
    BY <1>5, <2>1, <2>3 DEF CompletePacket
<1>12. ProfileStands'
  BY <1>5 DEF PrepInv, DocInv, ProfileStands, Profile
<1> QED
  BY <1>6, <1>7, <1>8, <1>9, <1>10, <1>11, <1>12 DEF PrepInv, PrepTypeInv, DocInv

\* The inspect task it enqueues is about the packet it has got hold of.
LEMMA QueueInspectionKeeps ==
  ASSUME PrepInv, NEW w \in Workers, QueueInspection(w)
  PROVE  PrepInv'
<1> DEFINE a == AppOfWorker(w)
           serial == worker[w].revision
<1>1. worker[w].pc = "saved" /\ Advance(w, "settled")
  BY DEF QueueInspection
<1>2. a \in Apps /\ serial \in Nat /\ CompletePacket(a, serial)
  BY <1>1, TablesTyped, BusyWorker DEF PrepInv, DocInv, QueuedComplete, WorkerMemory
<1>3. UNCHANGED <<control, quarantined, apps, attempts, nextFence, policy, authority,
                  packet, prep, latest, employer, clicks, profileOf, brief, incomplete,
                  requests>>
  BY DEF QueueInspection
<1>4. \/ UNCHANGED <<tasks, looks>>
      \/ \E k \in Keys : /\ AppOf[k] = a /\ Enqueue("inspect", k)
                         /\ looks' = [looks EXCEPT ![k] = serial]
  BY DEF QueueInspection, AppOfWorker
<1>5. tasks' \in [TaskIds -> TaskRow]
  BY <1>4, TablesTyped, EnqueueTyped
<1>6. looks' \in [Keys -> Nat]
  BY <1>2, <1>4, TablesTyped
<1>7. /\ worker' \in [Workers -> WorkerMemory] /\ WorkerHasTask'
      /\ WorkersQuiet
  BY <1>1, TablesTyped, AdvanceTyped, AdvanceQuiet DEF WorkerStages
<1>8. TypeInv'
  BY <1>3, <1>5, <1>7, TablesTyped, DocumentTyped
<1>9. DocTypeOK' /\ AnswersKnown'
  BY <1>3, <1>6, <1>7, TablesTyped DEF DocTypeOK, AnswersKnown, WorkersQuiet, PrepInv, PrepTypeInv
<1>10. InspectedComplete'
  <2> SUFFICES ASSUME NEW k \in Keys
               PROVE  CompletePacket(AppOf[k], looks'[k])
    BY <1>3 DEF InspectedComplete, CompletePacket
  <2>1. CASE looks'[k] = looks[k]
    BY <2>1 DEF PrepInv, DocInv, InspectedComplete
  <2>2. CASE looks'[k] # looks[k]
    <3>1. AppOf[k] = a /\ looks'[k] = serial
      BY <1>4, <2>2, TablesTyped
    <3> QED
      BY <1>2, <3>1
  <2> QED
    BY <2>1, <2>2
<1>11. QueuedComplete'
  BY <1>3, <1>7, QueuedStays DEF WorkersQuiet
<1>12. ReadyIsInspected' /\ PreparedForProfile' /\ ProfileStands'
  BY <1>3 DEF PrepInv, DocInv, ReadyIsInspected, PreparedForProfile, ProfileStands, Profile
<1> QED
  BY <1>8, <1>9, <1>10, <1>11, <1>12 DEF PrepInv, PrepTypeInv, DocInv

-----------------------------------------------------------------------------
(* The inspect task                                                         *)

LEMMA LookKeeps ==
  ASSUME PrepInv, NEW w \in Workers, Look(w)
  PROVE  PrepInv'
<1>1. worker[w].pc # "idle" /\ Renew(worker[w].task, worker[w].fence)
  BY DEF Look
<1>2. worker[w].task \in TaskIds /\ AppOfWorker(w) \in Apps
  BY <1>1, TablesTyped, BusyWorker
<1>3. QueueTypeOK' /\ UNCHANGED <<control, quarantined, apps, attempts, nextFence>>
  BY <1>1, <1>2, TablesTyped, RenewTyped DEF Renew, TypeInv, TypeOK
<1>4. worker' \in [Workers -> WorkerMemory] /\ WorkerHasTask' /\ WorkersQuiet
  <2>1. CASE Advance(w, "settled")
    BY <1>1, <2>1, TablesTyped, AdvanceTyped, AdvanceQuiet DEF WorkerStages
  <2>2. CASE Remember(w, "looked", apps[AppOfWorker(w)].revision)
    <3>1. apps[AppOfWorker(w)].revision \in Nat
      BY <1>2, TablesTyped DEF AppRow
    <3>2. /\ worker' \in [Workers -> WorkerMemory] /\ WorkerHasTask'
          /\ worker'[w].pc = "looked"
          /\ \A v \in Workers : v # w => worker'[v] = worker[v]
      BY <1>1, <2>2, <3>1, TablesTyped, RememberKeeps DEF WorkerStages
    <3> QED
      BY <3>2 DEF WorkersQuiet
  <2> QED
    BY <2>1, <2>2 DEF Look
<1>5. UNCHANGED <<policy, authority, packet, prep, latest, employer, clicks, docVars>>
  BY DEF Look
<1>6. TypeInv'
  BY <1>3, <1>4, <1>5, TablesTyped, DocumentTyped DEF QueueTypeOK
<1>7. Quiet
  BY <1>3, <1>4, <1>5, TablesTyped DEF Quiet, AppsQuiet
<1> QED
  BY <1>5, <1>6, <1>7, QuietOwnerKeeps

LEMMA RouteUnsupportedKeeps ==
  ASSUME PrepInv, NEW w \in Workers, RouteUnsupported(w)
  PROVE  PrepInv'
<1>1. worker[w].pc # "idle" /\ Advance(w, "settled")
  BY DEF RouteUnsupported
<1>2. AppOfWorker(w) \in Apps
  BY <1>1, TablesTyped, BusyWorker
<1>3. MoveApp(AppOfWorker(w), "UNSUPPORTED", 1) \/ UNCHANGED apps
  BY DEF RouteUnsupported
<1>4. apps' \in [Apps -> AppRow] /\ AppsQuiet
  <2>1. CASE MoveApp(AppOfWorker(w), "UNSUPPORTED", 1)
    BY <1>2, <2>1, MovedApp DEF ApplicationStates
  <2>2. CASE UNCHANGED apps
    BY <2>2, TablesTyped DEF AppsQuiet
  <2> QED
    BY <1>3, <2>1, <2>2
<1>5. UNCHANGED <<control, quarantined, tasks, attempts, nextFence, policy, authority,
                  packet, prep, latest, employer, clicks, docVars>>
  BY DEF RouteUnsupported
<1>6. DocTypeOK' /\ tasks' \in [TaskIds -> TaskRow] /\ UNCHANGED <<profileOf, looks, incomplete>>
  BY <1>5, TablesTyped DEF docVars, DocTypeOK
<1> QED
  BY <1>1, <1>4, <1>5, <1>6, WorkerGoesOn DEF WorkerStages

LEMMA InspectorGoesOnKeeps ==
  ASSUME PrepInv, NEW w \in Workers, ConfirmLease(w) \/ DropInspection(w)
  PROVE  PrepInv'
<1>1. worker[w].pc # "idle" /\ (Advance(w, "renewed") \/ Advance(w, "settled"))
  BY DEF ConfirmLease, DropInspection
<1>2. worker[w].task \in TaskIds
  BY <1>1, TablesTyped, BusyWorker
<1>3. /\ tasks' \in [TaskIds -> TaskRow]
      /\ UNCHANGED <<control, quarantined, apps, attempts, nextFence>>
  <2>1. CASE ConfirmLease(w)
    <3>1. Renew(worker[w].task, worker[w].fence)
      BY <2>1 DEF ConfirmLease
    <3> QED
      BY <1>2, <3>1, TablesTyped, RenewTyped DEF Renew, TypeInv, TypeOK, QueueTypeOK
  <2>2. CASE DropInspection(w)
    BY <2>2, TablesTyped DEF DropInspection, queueVars
  <2> QED
    BY <2>1, <2>2
<1>4. UNCHANGED <<policy, authority, packet, prep, latest, employer, clicks, docVars>>
  BY DEF ConfirmLease, DropInspection
<1>5. /\ apps' \in [Apps -> AppRow] /\ AppsQuiet
      /\ DocTypeOK' /\ UNCHANGED <<profileOf, looks, incomplete>>
  BY <1>3, <1>4, TablesTyped DEF AppsQuiet, docVars, DocTypeOK
<1> QED
  BY <1>1, <1>3, <1>4, <1>5, WorkerGoesOn DEF WorkerStages

\* The packet the task is about still is the newest, so nothing is lacking.
LEMMA SaveInspectionKeeps ==
  ASSUME PrepInv, NEW w \in Workers, NEW k \in Keys, NEW status \in Statuses,
         SaveInspection(w, k, status)
  PROVE  PrepInv'
<1>1. worker[w].pc # "idle"
  BY DEF SaveInspection
<1>2. worker[w].task.key \in Keys
  BY <1>1, TablesTyped, BusyWorker
<1>3. PICK queueSubmit \in BOOLEAN : SavePreparation(k, status, queueSubmit)
  BY DEF SaveInspection
<1>4. AppOf[k] \notin incomplete
  <2>1. /\ AppOf[k] = AppOf[worker[w].task.key]
        /\ looks[worker[w].task.key] = packet[AppOf[k]].serial
    BY DEF SaveInspection, LooksAtNewest, AppOfWorker
  <2> QED
    BY <1>2, <2>1 DEF PrepInv, DocInv, InspectedComplete, CompletePacket
<1>5. UNCHANGED docVars
  BY DEF SaveInspection
<1>6. /\ ReadyIsInspected' /\ PreparedForProfile'
      /\ ProfileStands' /\ InspectedComplete'
  BY <1>3, <1>4, <1>5, SavePreparationKeeps DEF docVars
<1>7. /\ worker' \in [Workers -> WorkerMemory] /\ WorkerHasTask' /\ AnswersKnown'
      /\ \A v \in Workers : worker'[v].pc = "saved" => worker'[v] = worker[v]
  <2>1. CASE Advance(w, "settled")
    <3>1. /\ worker' \in [Workers -> WorkerMemory] /\ WorkerHasTask' /\ WorkersQuiet
      BY <1>1, <2>1, TablesTyped, AdvanceTyped, AdvanceQuiet DEF WorkerStages
    <3> QED
      BY <3>1 DEF WorkersQuiet, AnswersKnown, PrepInv, PrepTypeInv
  <2>2. CASE Remember(w, "unanswered", policy)
    <3>1. /\ worker' \in [Workers -> WorkerMemory] /\ WorkerHasTask'
          /\ worker'[w].pc = "unanswered" /\ worker'[w].revision = policy
          /\ \A v \in Workers : v # w => worker'[v] = worker[v]
      BY <1>1, <2>2, TablesTyped, RememberKeeps DEF WorkerStages
    <3> QED
      BY <3>1, TablesTyped DEF AnswersKnown, PrepInv, PrepTypeInv
  <2> QED
    BY <2>1, <2>2 DEF SaveInspection
<1>8. UNCHANGED <<control, quarantined, attempts, nextFence, policy, authority,
                  packet, employer, clicks>>
  BY <1>3 DEF SavePreparation
<1>9. TypeInv'
  <2>1. /\ apps' \in [Apps -> AppRow] /\ prep' \in [Keys -> PrepRow]
        /\ latest' \in [Apps -> Keys \cup {NoKey}]
        /\ tasks' \in [TaskIds -> TaskRow]
    BY <1>3, TablesTyped, SavePreparationTyped
  <2> QED
    BY <1>7, <1>8, <2>1, TablesTyped DEF TypeInv, TypeOK, QueueTypeOK
<1>10. QueuedComplete'
  BY <1>5, <1>7, <1>8, QueuedStays DEF docVars
<1>11. DocTypeOK'
  BY <1>5, TablesTyped DEF docVars, DocTypeOK
<1> QED
  BY <1>6, <1>7, <1>9, <1>10, <1>11 DEF PrepInv, PrepTypeInv, DocInv

LEMMA QueueAnswersKeeps ==
  ASSUME PrepInv, NEW w \in Workers, NEW k \in Keys, QueueAnswers(w, k)
  PROVE  PrepInv'
<1>1. worker[w].pc = "unanswered" /\ Advance(w, "settled")
  BY DEF QueueAnswers
<1>2. profileOf[worker[w].revision] \in Nat
  BY <1>1, TablesTyped DEF PrepInv, PrepTypeInv, AnswersKnown
<1>3. UNCHANGED <<control, quarantined, apps, attempts, nextFence, policy, authority,
                  packet, prep, latest, employer, clicks, profileOf, looks, incomplete,
                  requests>>
  BY DEF QueueAnswers
<1>4. DocTypeOK'
  <2>1. brief' = [brief EXCEPT ![k] =
          [profile |-> profileOf[worker[w].revision], refresh |-> TRUE]]
    BY DEF QueueAnswers
  <2>2. brief' \in [Keys -> [profile : Nat, refresh : BOOLEAN]]
    BY <1>2, <2>1, TablesTyped
  <2> QED
    BY <1>3, <2>2, TablesTyped DEF DocTypeOK
<1>5. tasks' \in [TaskIds -> TaskRow]
  BY TablesTyped, EnqueueTyped DEF QueueAnswers
<1>6. apps' \in [Apps -> AppRow] /\ AppsQuiet
  BY <1>3, TablesTyped DEF AppsQuiet
<1> QED
  BY <1>1, <1>3, <1>4, <1>5, <1>6, WorkerGoesOn DEF WorkerStages

LEMMA DocumentStepKeeps ==
  ASSUME PrepInv, NEW w \in Workers, DocumentStep(w)
  PROVE  PrepInv'
  BY RetainKeeps, StartPreparingKeeps, DraftKeeps, SavePacketKeeps, QueueInspectionKeeps,
     LookKeeps, RouteUnsupportedKeeps, InspectorGoesOnKeeps, SaveInspectionKeeps,
     QueueAnswersKeeps
  DEF DocumentStep

-----------------------------------------------------------------------------
(* What the owner does to documents                                         *)

\* A request that comes or goes without a packet being saved.
LEMMA RequestKeeps ==
  ASSUME PrepInv,
         \/ \E a \in Apps : RequestPacket(a)
         \/ \E r \in requests : LoseRequest(r)
  PROVE  PrepInv'
<1>1. UNCHANGED <<vars, profileOf, brief, looks, incomplete>>
  BY DEF RequestPacket, LoseRequest
<1>2. requests' \subseteq [app : Apps, policy : 0 .. MaxPolicy]
  BY TablesTyped DEF RequestPacket, LoseRequest
<1>3. TypeInv'
  BY <1>1, TablesTyped, TypeStep
<1>4. Quiet
  BY <1>1, TablesTyped DEF Quiet, WorkersQuiet, AppsQuiet, vars, queueVars, workVars
<1>5. DocInv' /\ AnswersKnown'
  BY <1>1, <1>4, QuietKeeps
<1>6. DocTypeOK'
  BY <1>1, <1>2, TablesTyped DEF DocTypeOK
<1> QED
  BY <1>3, <1>5, <1>6 DEF PrepInv, PrepTypeInv

LEMMA SaveRequestedKeeps ==
  ASSUME PrepInv, NEW r \in requests, NEW lacking \in BOOLEAN, SaveRequested(r, lacking)
  PROVE  PrepInv'
<1>1. PICK a \in Apps : a = r.app
  BY TablesTyped
<1>2. StorePacket(a, r.policy, lacking)
  BY <1>1 DEF SaveRequested
<1>3. UNCHANGED <<control, quarantined, tasks, attempts, nextFence, policy, authority,
                  prep, latest, worker, employer, clicks, profileOf, brief, looks>>
  BY DEF SaveRequested
<1>4. /\ packet' \in [Apps -> PacketRow] /\ apps' \in [Apps -> AppRow]
      /\ incomplete' \subseteq Apps
      /\ \A b \in Apps : \A n \in Nat : CompletePacket(b, n) => CompletePacket(b, n)'
      /\ ReadyIsInspected' /\ PreparedForProfile'
  BY <1>2, <1>3, StoredPacket
<1>5. TypeInv'
  BY <1>3, <1>4, TablesTyped, DocumentTyped DEF WorkerHasTask
<1>6. DocTypeOK' /\ AnswersKnown'
  <2>1. requests' \subseteq requests
    BY DEF SaveRequested
  <2> QED
    BY <1>3, <1>4, <2>1, TablesTyped DEF DocTypeOK, AnswersKnown, PrepInv, PrepTypeInv
<1>7. QueuedComplete'
  <2> SUFFICES ASSUME NEW v \in Workers, worker[v].pc = "saved"
               PROVE  CompletePacket(AppOfWorker(v), worker[v].revision)'
    BY <1>3 DEF QueuedComplete
  <2>1. AppOfWorker(v) \in Apps /\ worker[v].revision \in Nat
    BY TablesTyped, BusyWorker DEF WorkerMemory
  <2>2. PICK b \in Apps, n \in Nat : b = AppOfWorker(v) /\ n = worker[v].revision
    BY <2>1
  <2>3. CompletePacket(b, n)
    BY <2>2 DEF PrepInv, DocInv, QueuedComplete
  <2>4. CompletePacket(b, n)'
    BY <1>4, <2>3
  <2> QED
    BY <1>3, <2>2, <2>4 DEF CompletePacket, AppOfWorker
<1>8. InspectedComplete'
  <2> SUFFICES ASSUME NEW k \in Keys
               PROVE  CompletePacket(AppOf[k], looks[k])'
    BY DEF InspectedComplete
  <2>1. PICK n \in Nat : n = looks[k]
    BY TablesTyped
  <2>2. AppOf[k] \in Apps /\ CompletePacket(AppOf[k], n)
    BY <2>1, QueueAssumption DEF PrepInv, DocInv, InspectedComplete
  <2>3. CompletePacket(AppOf[k], n)'
    BY <1>4, <2>2
  <2> QED
    BY <1>3, <2>1, <2>3 DEF CompletePacket
<1>9. ProfileStands'
  BY <1>3 DEF PrepInv, DocInv, ProfileStands, Profile
<1> QED
  BY <1>4, <1>5, <1>6, <1>7, <1>8, <1>9 DEF PrepInv, PrepTypeInv, DocInv

LEMMA ResumeKeeps ==
  ASSUME PrepInv, NEW k \in Keys, Resume(k)
  PROVE  PrepInv'
<1>1. AppOf[k] \in Apps /\ MoveApp(AppOf[k], "PREPARING", 1)
  BY QueueAssumption DEF Resume
<1>2. apps' \in [Apps -> AppRow] /\ AppsQuiet
  BY <1>1, MovedApp DEF ApplicationStates
<1>3. UNCHANGED <<control, quarantined, attempts, nextFence, workVars, profileOf,
                  looks, incomplete, requests>>
  BY DEF Resume
<1>4. tasks' \in [TaskIds -> TaskRow]
  <2>1. "cancelled" \in TaskStates /\ 0 \in 0 .. LeaseTerm
    BY QueueAssumption DEF TaskStates
  <2>2. \A t \in TaskIds : [tasks[t] EXCEPT !.state = "cancelled", !.lease = 0] \in TaskRow
    BY <2>1, TablesTyped, TaskRowUpdate
  <2> QED
    BY <2>2, TablesTyped, ReadyRowTyped DEF Resume
<1>5. TypeInv'
  BY <1>2, <1>3, <1>4, TablesTyped, DocumentTyped DEF workVars, WorkerHasTask
<1>6. Quiet
  BY <1>2, <1>3, TablesTyped DEF Quiet, WorkersQuiet, workVars
<1>7. DocInv' /\ AnswersKnown'
  BY <1>3, <1>6, QuietKeeps
<1>8. DocTypeOK'
  <2>1. brief' = [brief EXCEPT ![k] = [profile |-> Profile, refresh |-> TRUE]]
    BY DEF Resume
  <2>2. brief' \in [Keys -> [profile : Nat, refresh : BOOLEAN]]
    BY <2>1, TablesTyped
  <2> QED
    BY <1>3, <2>2, TablesTyped DEF DocTypeOK
<1> QED
  BY <1>5, <1>7, <1>8 DEF PrepInv, PrepTypeInv

\* The application is taken off offer together with its packet, unless it may
\* already have been sent.
LEMMA InvalidateKeeps ==
  ASSUME PrepInv, NEW a \in Apps, NEW letter \in BOOLEAN, Invalidate(a, letter)
  PROVE  PrepInv'
<1>1. UNCHANGED <<control, quarantined, tasks, attempts, nextFence, policy, authority,
                  prep, latest, worker, employer, clicks, docVars>>
  BY DEF Invalidate
<1>2. /\ packet \in [Apps -> PacketRow] /\ packet[a] \in PacketRow
      /\ apps \in [Apps -> AppRow]
  BY TablesTyped
<1>3. /\ packet' \in [Apps -> PacketRow]
      /\ \A b \in Apps : packet'[b].serial = packet[b].serial
      /\ \A b \in Apps : b # a => packet'[b] = packet[b]
  <2> DEFINE row == [packet[a] EXCEPT !.valid = FALSE]
  <2>1. row \in PacketRow /\ row.serial = packet[a].serial
    BY <1>2 DEF PacketRow
  <2>2. packet' = [packet EXCEPT ![a] = row]
    BY DEF Invalidate
  <2> HIDE DEF row
  <2> QED
    BY <1>2, <2>1, <2>2
<1>4. /\ apps' \in [Apps -> AppRow] /\ AppsQuiet
      /\ apps'[a].state \notin {"PREPARED", "READY"}
  <2>1. CASE apps[a].state \in Untouched
    <3>1. UNCHANGED apps
      BY <2>1 DEF Invalidate
    <3> QED
      BY <1>2, <2>1, <3>1 DEF AppsQuiet, Untouched
  <2>2. CASE apps[a].state \notin Untouched
    <3>1. PICK state \in {"NEEDS_INPUT", "NEEDS_REVIEW"} : MoveApp(a, state, 1)
      BY <2>2 DEF Invalidate
    <3>2. apps' \in [Apps -> AppRow] /\ AppsQuiet
      BY <3>1, MovedApp DEF ApplicationStates
    <3> DEFINE row == [apps[a] EXCEPT !.state = state, !.revision = apps[a].revision + 1]
    <3>3. row.state = state
      BY <1>2 DEF AppRow
    <3>4. apps' = [apps EXCEPT ![a] = row]
      BY <3>1 DEF MoveApp
    <3> HIDE DEF row
    <3>5. apps'[a].state = state
      BY <1>2, <3>3, <3>4
    <3> QED
      BY <3>2, <3>5
  <2> QED
    BY <2>1, <2>2
<1>5. TypeInv'
  BY <1>1, <1>3, <1>4, TablesTyped, DocumentTyped DEF WorkerHasTask
<1>6. DocTypeOK' /\ AnswersKnown'
  BY <1>1, TablesTyped DEF docVars, DocTypeOK, AnswersKnown, PrepInv, PrepTypeInv
<1>7. ReadyIsInspected'
  <2> SUFFICES ASSUME NEW b \in Apps, apps'[b].state = "READY"
               PROVE  /\ latest'[b] \in Keys
                      /\ prep'[latest'[b]].status = "ready"
                      /\ packet'[b].valid /\ prep'[latest'[b]].packet = packet'[b].serial
                      /\ b \notin incomplete'
    BY DEF ReadyIsInspected
  <2>1. b # a /\ apps[b].state = "READY"
    BY <1>4 DEF AppsQuiet
  <2> QED
    BY <1>1, <1>3, <2>1 DEF PrepInv, DocInv, ReadyIsInspected, docVars
<1>8. PreparedForProfile'
  <2> SUFFICES ASSUME NEW b \in Apps, apps'[b].state \in {"PREPARED", "READY"}
               PROVE  packet'[b].valid /\ profileOf'[packet'[b].policy] = Profile'
    BY DEF PreparedForProfile
  <2>1. b # a /\ apps[b].state \in {"PREPARED", "READY"}
    BY <1>4 DEF AppsQuiet
  <2> QED
    BY <1>1, <1>3, <2>1 DEF PrepInv, DocInv, PreparedForProfile, Profile, docVars
<1>9. ProfileStands' /\ InspectedComplete' /\ QueuedComplete'
  <2>1. ProfileStands'
    BY <1>1 DEF PrepInv, DocInv, ProfileStands, Profile, docVars
  <2>2. InspectedComplete'
    BY <1>1, <1>3, QueueAssumption
    DEF PrepInv, DocInv, InspectedComplete, CompletePacket, docVars
  <2>3. QueuedComplete'
    <3> SUFFICES ASSUME NEW v \in Workers, worker[v].pc = "saved"
                 PROVE  CompletePacket(AppOfWorker(v), worker[v].revision)'
      BY <1>1 DEF QueuedComplete
    <3>1. AppOfWorker(v) \in Apps
      BY TablesTyped, BusyWorker
    <3> QED
      BY <1>1, <1>3, <3>1 DEF PrepInv, DocInv, QueuedComplete, CompletePacket, AppOfWorker, docVars
  <2> QED
    BY <2>1, <2>2, <2>3
<1> QED
  BY <1>5, <1>6, <1>7, <1>8, <1>9 DEF PrepInv, PrepTypeInv, DocInv

\* A new profile leaves nothing on offer.
LEMMA PublishingClears ==
  ASSUME TypeInv, PublishProfile
  PROVE  \A a \in Apps : apps'[a].state \notin {"PREPARED", "READY"}
<1> DEFINE moved == RecoveredApps(LeasedSubmits \ Cancelled)
<1> SUFFICES ASSUME NEW a \in Apps
             PROVE  apps'[a].state \notin {"PREPARED", "READY"}
  OBVIOUS
<1>1. moved[a].state \in {apps[a].state, "UNKNOWN"}
  BY RecoveredAppsQuiet
<1>2. apps' = [b \in Apps |->
        IF b \in Discarded
        THEN [apps[b] EXCEPT !.state = "NORMALIZED", !.revision = @ + 1]
        ELSE moved[b]]
  BY DEF PublishProfile
<1> HIDE DEF moved
<1>3. CASE a \in Discarded
  <2>1. apps[a] \in AppRow
    BY DEF TypeInv, TypeOK, QueueTypeOK
  <2>2. [apps[a] EXCEPT !.state = "NORMALIZED", !.revision = @ + 1].state = "NORMALIZED"
    BY <2>1 DEF AppRow
  <2> QED
    BY <1>2, <1>3, <2>2
<1>4. CASE a \notin Discarded
  <2>1. apps'[a].state \in {apps[a].state, "UNKNOWN"}
    BY <1>1, <1>2, <1>4
  <2> QED
    BY <1>4, <2>1 DEF Discarded, Parked, Uncertain
<1> QED
  BY <1>3, <1>4

\* What the new profile was not asked about is discarded, and what is spared
\* was never on offer.
LEMMA PublishNewProfileKeeps ==
  ASSUME PrepInv, PublishNewProfile
  PROVE  PrepInv'
<1>1. /\ PublishProfile /\ UNCHANGED <<brief, looks, incomplete, requests>>
      /\ profileOf' = [p \in 0 .. MaxPolicy |-> IF p > policy THEN policy + 1 ELSE profileOf[p]]
  BY DEF PublishNewProfile
<1>2. /\ policy \in Nat /\ policy < MaxPolicy /\ policy' = policy + 1
      /\ UNCHANGED <<prep, latest, worker>>
      /\ packet' = [a \in Apps |->
           IF a \in Discarded THEN [packet[a] EXCEPT !.valid = FALSE] ELSE packet[a]]
  BY <1>1, TablesTyped DEF PublishProfile
<1>3. TypeInv'
  BY <1>1, TablesTyped, PublishProfileTyped
<1>4. \A a \in Apps : apps'[a].state \notin {"PREPARED", "READY"}
  BY <1>1, TablesTyped, PublishingClears
<1>5. ReadyIsInspected' /\ PreparedForProfile'
  BY <1>4 DEF ReadyIsInspected, PreparedForProfile
<1>6. ProfileStands'
  <2>1. policy + 1 \in 0 .. MaxPolicy
    BY <1>2, SubmissionAssumption
  <2>2. Profile' = policy + 1
    BY <1>1, <1>2, <2>1 DEF Profile
  <2>3. \A p \in 0 .. MaxPolicy : p >= policy + 1 => profileOf'[p] = policy + 1
    BY <1>1, <1>2, SubmissionAssumption
  <2> QED
    BY <1>2, <2>2, <2>3 DEF ProfileStands
<1>7. \A a \in Apps : packet'[a].serial = packet[a].serial
  <2>1. \A a \in Apps : packet[a] \in PacketRow
    BY TablesTyped
  <2>2. \A a \in Apps : [packet[a] EXCEPT !.valid = FALSE].serial = packet[a].serial
    BY <2>1 DEF PacketRow
  <2> QED
    BY <1>2, <2>2
<1>8. InspectedComplete'
  BY <1>1, <1>7, QueueAssumption
  DEF PrepInv, DocInv, InspectedComplete, CompletePacket
<1>9. QueuedComplete'
  <2> SUFFICES ASSUME NEW v \in Workers, worker[v].pc = "saved"
               PROVE  CompletePacket(AppOfWorker(v), worker[v].revision)'
    BY <1>2 DEF QueuedComplete
  <2>1. AppOfWorker(v) \in Apps
    BY TablesTyped, BusyWorker
  <2> QED
    BY <1>1, <1>2, <1>7, <2>1 DEF PrepInv, DocInv, QueuedComplete, CompletePacket, AppOfWorker
<1>10. DocTypeOK' /\ AnswersKnown'
  <2>1. profileOf' \in [0 .. MaxPolicy -> Nat]
    BY <1>1, <1>2, TablesTyped
  <2> QED
    BY <1>1, <1>2, <2>1, TablesTyped DEF DocTypeOK, AnswersKnown, PrepInv, PrepTypeInv
<1> QED
  BY <1>3, <1>5, <1>6, <1>8, <1>9, <1>10 DEF PrepInv, PrepTypeInv, DocInv

LEMMA OwnerDocumentStepKeeps ==
  ASSUME PrepInv, OwnerDocumentStep
  PROVE  PrepInv'
  BY RequestKeeps, SaveRequestedKeeps, ResumeKeeps, PublishNewProfileKeeps
  DEF OwnerDocumentStep

-----------------------------------------------------------------------------
(* The invariant                                                            *)

LEMMA PrepInitial == PrepInit => PrepInv
<1> SUFFICES ASSUME PrepInit PROVE PrepInv
  OBVIOUS
<1> USE DEF PrepInit, NothingPrepared
<1>1. QueueTypeOK
  <2>1. control \in ControlRow /\ quarantined \subseteq Apps
    BY DEF QueueInit, ControlRow
  <2>2. tasks \in [TaskIds -> TaskRow]
    BY NoTaskRowTyped DEF QueueInit
  <2>3. apps \in [Apps -> AppRow]
    BY DEF AppsIn, AppRow, ApplicationStates
  <2>4. attempts \in [Fences -> AttemptRow]
    BY DEF QueueInit, NoAttempt, AttemptRow, AttemptStates
  <2>5. nextFence \in 0 .. MaxFence
    BY QueueAssumption DEF QueueInit
  <2> QED
    BY <2>1, <2>2, <2>3, <2>4, <2>5 DEF QueueTypeOK
<1>2. packet \in [Apps -> PacketRow] /\ prep \in [Keys -> PrepRow]
  BY DEF PacketRow, PrepRow, NoPrep
<1>3. /\ worker \in [Workers -> WorkerMemory] /\ WorkerHasTask
      /\ \A w \in Workers : worker[w].pc = "idle"
  BY IdleTyped DEF WorkerHasTask, Idle
<1>4. TypeInv
  BY <1>1, <1>2, <1>3, SubmissionAssumption DEF TypeInv, TypeOK, Authorities
<1>5. DocTypeOK /\ AnswersKnown
  BY <1>3, SubmissionAssumption DEF DocTypeOK, NoBrief, AnswersKnown
<1>6. \A a \in Apps : apps[a].state = "NORMALIZED" /\ packet[a].serial = 0
  BY DEF AppsIn
<1>7. ReadyIsInspected /\ PreparedForProfile
  BY <1>6 DEF ReadyIsInspected, PreparedForProfile
<1>8. ProfileStands /\ InspectedComplete /\ QueuedComplete
  BY <1>3, <1>6, QueueAssumption, SubmissionAssumption
  DEF ProfileStands, Profile, InspectedComplete, CompletePacket, QueuedComplete
<1> QED
  BY <1>4, <1>5, <1>7, <1>8 DEF PrepInv, PrepTypeInv, DocInv

LEMMA PrepStep == PrepInv /\ [PrepNext]_prepVars => PrepInv'
<1> SUFFICES ASSUME PrepInv, [PrepNext]_prepVars PROVE PrepInv'
  OBVIOUS
<1>1. ASSUME Matching PROVE PrepInv'
  BY <1>1, QualifyKeeps, SaveAssessmentKeeps DEF Matching
<1>2. ASSUME NEW w \in Workers, DocumentStep(w) PROVE PrepInv'
  BY <1>2, DocumentStepKeeps
<1>3. ASSUME NEW a \in Apps, NEW letter \in BOOLEAN, Invalidate(a, letter) PROVE PrepInv'
  BY <1>3, InvalidateKeeps
<1>4. ASSUME SubmissionStep PROVE PrepInv'
  BY <1>4, SubmissionStepKeeps
<1>5. ASSUME OwnerSubmissionStep PROVE PrepInv'
  BY <1>5, OwnerSubmissionStepKeeps
<1>6. ASSUME OwnerDocumentStep PROVE PrepInv'
  BY <1>6, OwnerDocumentStepKeeps
<1>7. CASE UNCHANGED prepVars
  <2>1. UNCHANGED vars /\ UNCHANGED docVars
    BY <1>7 DEF prepVars
  <2>2. TypeInv'
    BY <2>1, TablesTyped, TypeStep
  <2>3. Quiet
    BY <2>1, TablesTyped DEF Quiet, WorkersQuiet, AppsQuiet, vars, queueVars, workVars
  <2> QED
    BY <2>1, <2>2, <2>3, QuietOwnerKeeps
<1> QED
  BY <1>1, <1>2, <1>3, <1>4, <1>5, <1>6, <1>7 DEF PrepNext

LEMMA PrepInvariance == PrepSpec => []PrepInv
  BY PrepInitial, PrepStep, PTL DEF PrepSpec

\* Type correctness of the tables and memories, whatever prepares documents
\* for them: the preparation of packets writes rows of the tables' types.
THEOREM PrepTypeCorrect == PrepSpec => [](TypeOK /\ DocTypeOK)
<1>1. PrepInv => TypeOK /\ DocTypeOK
  BY DEF PrepInv, PrepTypeInv, TypeInv
<1> QED
  BY <1>1, PrepInvariance, PTL

\* An application shown as ready is ready with what would be sent: its newest
\* preparation was filled in without a gap from the packet that is valid now
\* (browser-repository.ts save, document-repository.ts savePacket, invalidate).
THEOREM ReadyMeansInspected == PrepSpec => []ReadyIsInspected
<1>1. PrepInv => ReadyIsInspected
  BY DEF PrepInv, DocInv
<1> QED
  BY <1>1, PrepInvariance, PTL

\* Nothing made for a replaced profile stays on offer: publishProfile discards
\* what it finds, and what was under way is refused when it is saved.
THEOREM OfferedForProfile == PrepSpec => []PreparedForProfile
<1>1. PrepInv => PreparedForProfile
  BY DEF PrepInv, DocInv
<1> QED
  BY <1>1, PrepInvariance, PTL

-----------------------------------------------------------------------------
(* Leases                                                                   *)

\* The tasks of every type share the leases: the lemmas about each operation of
\* the queue are those of SubmissionProofs.  Besides them, documents add
\* rows that are not leased, and cancel leases.
LEMMA EnqueueLeases ==
  ASSUME TypeInv, LeaseInv, NEW type, NEW k \in Keys, Enqueue(type, k), UNCHANGED control
  PROVE  LeaseInv'
<1>1. \A t \in TaskIds : tasks'[t] = tasks[t] \/ tasks'[t] = ReadyRow
  BY DEF Enqueue, TypeInv, TypeOK, QueueTypeOK
<1>2. ReadyRow.state = "ready"
  BY DEF ReadyRow, NoTaskRow
<1>3. \A t \in Leased' : t \in Leased
  BY <1>1, <1>2 DEF Leased
<1> QED
  BY <1>3, LeasesShrink DEF Closed

LEMMA RenewLeases ==
  ASSUME TypeInv, LeaseInv, NEW w \in Workers, worker[w] # Idle,
         Renew(worker[w].task, worker[w].fence)
  PROVE  LeaseInv'
<1>1. PICK t \in TaskIds : t = worker[w].task
  BY DEF TypeInv, WorkerHasTask
<1>2. /\ tasks[t].state = "leased" /\ tasks' = [tasks EXCEPT ![t].lease = LeaseTerm]
      /\ UNCHANGED control
  BY <1>1 DEF Renew, HasLease
<1> QED
  BY <1>2, ClockLeases

\* What a worker does with a task of either module's types.
LEMMA WorkerLeases ==
  ASSUME TypeInv, LeaseInv, NEW w \in Workers,
         WorkerStep(w) \/ Poll(w) \/ Crash(w) \/ RenewLease(w)
  PROVE  LeaseInv'
<1>1. CASE UNCHANGED <<tasks, control>>
  BY <1>1, SameLeases
<1>2. ASSUME worker[w] # Idle
      PROVE  worker[w].task \in TaskIds
  BY <1>2 DEF TypeInv, WorkerHasTask
<1>3. CASE Acknowledge(w) \/ GiveUp(w) \/ Crash(w)
  <2>1. worker[w] # Idle
    BY <1>3 DEF Acknowledge, GiveUp, Crash, Idle
  <2>2. \/ UNCHANGED queueVars
        \/ Complete(worker[w].task, worker[w].fence)
        \/ \E retryable \in BOOLEAN : Fail(worker[w].task, worker[w].fence, retryable)
    BY <1>3 DEF Acknowledge, GiveUp, Crash
  <2> QED
    BY <1>1, <1>2, <2>1, <2>2, CompleteLeases, FailLeases DEF queueVars
<1>4. CASE Poll(w)
  BY <1>4, ClaimLeases, ClaimNothingLeases DEF Poll, ClaimTask, PollNothing
<1>5. CASE RenewLease(w)
  <2>1. worker[w] # Idle /\ Renew(worker[w].task, worker[w].fence)
    BY <1>5 DEF RenewLease
  <2> QED
    BY <2>1, RenewLeases
<1>6. ASSUME WorkerStep(w), ~(Acknowledge(w) \/ GiveUp(w))
      PROVE  UNCHANGED <<tasks, control>>
  BY <1>6
  DEF WorkerStep, ReadRevision, Begin, AbortBeforeDispatch, AuthorizeDispatch, Click, Respond,
      ConfirmReceipt, RecordDefinitiveRejection, Lookup, ReconcileEvidence, queueVars
<1> QED
  BY <1>1, <1>3, <1>4, <1>5, <1>6 DEF WorkerStep

LEMMA DocumentLeases ==
  ASSUME PrepInv, LeaseInv, NEW w \in Workers, DocumentStep(w)
  PROVE  LeaseInv'
<1>1. TypeInv
  BY TablesTyped
<1>2. CASE UNCHANGED <<tasks, control>>
  BY <1>2, SameLeases
<1>3. ASSUME NEW type, NEW k \in Keys, Enqueue(type, k), UNCHANGED control
      PROVE  LeaseInv'
  BY <1>1, <1>3, EnqueueLeases
<1>4. CASE QueueInspection(w) \/ \E k \in Keys : QueueAnswers(w, k)
  BY <1>2, <1>3, <1>4 DEF QueueInspection, QueueAnswers
<1>5. CASE Look(w) \/ ConfirmLease(w)
  <2>1. worker[w] # Idle /\ Renew(worker[w].task, worker[w].fence)
    BY <1>5 DEF Look, ConfirmLease, Idle
  <2> QED
    BY <1>1, <2>1, RenewLeases
<1>6. ASSUME NEW k \in Keys, NEW status \in Statuses, SaveInspection(w, k, status)
      PROVE  LeaseInv'
  BY <1>1, <1>6, SaveLeases DEF SaveInspection
<1>7. CASE Retain(w) \/ StartPreparing(w) \/ Draft(w) \/ PreservePacket(w)
           \/ RouteUnsupported(w) \/ DropInspection(w)
           \/ \E lacking \in BOOLEAN : SavePacket(w, lacking)
  BY <1>2, <1>7
  DEF Retain, StartPreparing, Draft, PreservePacket, RouteUnsupported, DropInspection,
      SavePacket, queueVars
<1> QED
  BY <1>4, <1>5, <1>6, <1>7 DEF DocumentStep

LEMMA OwnerLeases ==
  ASSUME PrepInv, LeaseInv, OwnerSubmissionStep \/ OwnerDocumentStep
  PROVE  LeaseInv'
<1>1. TypeInv
  BY TablesTyped
<1>2. CASE UNCHANGED <<tasks, control>>
  BY <1>2, SameLeases
<1>3. CASE OwnerSubmissionStep
  <2>1. ASSUME NEW k \in Keys, NEW status \in Statuses, NEW queueSubmit \in BOOLEAN,
               Save(k, status, queueSubmit)
        PROVE  LeaseInv'
    BY <1>1, <2>1, SaveLeases DEF Save
  <2>2. ASSUME NEW patched, SetControl(patched)
        PROVE  LeaseInv'
    BY <1>1, <2>2, SetControlLeases
  <2>3. CASE RecoverTasks(LeasedSubmits, TRUE)
    BY <1>1, <2>3, GateLeases
  <2> QED
    BY <1>3, <2>1, <2>2, <2>3
    DEF OwnerSubmissionStep, SaveAuthorization, RevokeAuthorization
<1>4. ASSUME NEW k \in Keys, Resume(k)
      PROVE  LeaseInv'
  <2>1. UNCHANGED control
    BY <1>4 DEF Resume
  <2>2. \A t \in TaskIds : tasks[t] \in TaskRow
    BY <1>1 DEF TypeInv, TypeOK, QueueTypeOK
  <2>3. ReadyRow.state = "ready"
    BY DEF ReadyRow, NoTaskRow
  <2>4. \A t \in TaskIds : [tasks[t] EXCEPT !.state = "cancelled", !.lease = 0].state = "cancelled"
    BY <2>2 DEF TaskRow
  <2>5. ASSUME NEW t \in Leased'
        PROVE  t \in Leased
    <3>1. t \in TaskIds /\ tasks'[t].state = "leased"
      BY DEF Leased
    <3>2. tasks'[t] \in {ReadyRow, tasks[t], [tasks[t] EXCEPT !.state = "cancelled", !.lease = 0]}
      BY <1>4, <3>1 DEF Resume
    <3> QED
      BY <2>3, <2>4, <3>1, <3>2 DEF Leased
  <2> QED
    BY <2>1, <2>5, LeasesShrink DEF Closed
<1>5. CASE PublishNewProfile
  BY <1>1, <1>5, PublishLeases DEF PublishNewProfile
<1>6. CASE OwnerDocumentStep
  BY <1>2, <1>4, <1>5, <1>6
  DEF OwnerDocumentStep, RequestPacket, SaveRequested, LoseRequest, vars, queueVars
<1> QED
  BY <1>3, <1>6

LEMMA LeaseInitial == PrepInit => LeaseInv
<1>1. ASSUME PrepInit
      PROVE  Leased = {}
  BY <1>1 DEF PrepInit, NothingPrepared, QueueInit, Leased, NoTaskRow
<1>2. IsFiniteSet({}) /\ Cardinality({}) = 0
  BY FS_EmptySet
<1>3. 0 <= Concurrency
  BY QueueAssumption
<1> QED
  BY <1>1, <1>2, <1>3 DEF LeaseInv, LeasesStayAdmissible

LEMMA LeaseStep == PrepInv /\ LeaseInv /\ [PrepNext]_prepVars => LeaseInv'
<1> SUFFICES ASSUME PrepInv, LeaseInv, [PrepNext]_prepVars PROVE LeaseInv'
  OBVIOUS
<1>1. TypeInv
  BY TablesTyped
<1>2. CASE UNCHANGED <<tasks, control>>
  BY <1>2, SameLeases
<1>3. ASSUME Matching PROVE LeaseInv'
  <2>1. ASSUME NEW k \in Keys, Enqueue("prepare", k), UNCHANGED control
        PROVE  LeaseInv'
    BY <1>1, <2>1, EnqueueLeases
  <2> QED
    BY <1>2, <1>3, <2>1 DEF Matching, Qualify, SaveAssessment
<1>4. ASSUME NEW w \in Workers, DocumentStep(w) PROVE LeaseInv'
  BY <1>4, DocumentLeases
<1>5. ASSUME NEW a \in Apps, NEW letter \in BOOLEAN, Invalidate(a, letter) PROVE LeaseInv'
  BY <1>2, <1>5 DEF Invalidate
<1>6. ASSUME SubmissionStep PROVE LeaseInv'
  <2>1. ASSUME NEW w \in Workers, WorkerStep(w) \/ Poll(w) \/ Crash(w) \/ RenewLease(w)
        PROVE  LeaseInv'
    BY <1>1, <2>1, WorkerLeases
  <2>2. ASSUME NEW t \in TaskIds, Elapse(t)
        PROVE  LeaseInv'
    BY <1>1, <2>2, ClockLeases DEF Elapse
  <2> QED
    BY <1>2, <1>6, <2>1, <2>2 DEF SubmissionStep, EmployerAnswer, queueVars
<1>7. ASSUME OwnerSubmissionStep \/ OwnerDocumentStep PROVE LeaseInv'
  BY <1>7, OwnerLeases
<1>8. CASE UNCHANGED prepVars
  BY <1>2, <1>8 DEF prepVars, vars, queueVars
<1> QED
  BY <1>3, <1>4, <1>5, <1>6, <1>7, <1>8 DEF PrepNext

\* Leases to prepare, inspect, submit and reconcile together stay within the
\* concurrency limit, apart by adapter domain and by application, and none is
\* to submit while the gate is closed.
THEOREM PipelineLeases == PrepSpec => []LeasesStayAdmissible
<1>1. LeaseInv => LeasesStayAdmissible
  BY DEF LeaseInv
<1> QED
  BY <1>1, LeaseInitial, LeaseStep, PrepInvariance, PTL DEF PrepSpec

=============================================================================
