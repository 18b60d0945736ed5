--------------------------- MODULE ExceptionsProofs --------------------------
(***************************************************************************)
(* What is proved of module Exceptions, for all sets of applications,      *)
(* preparations and workers and any number of packets and policies: an     *)
(* application shown as ready is ready with what would be sent, and, as    *)
(* long as no application is skipped while a packet of it is being drafted *)
(* and none of a skipped one is found invalid, what was skipped stays      *)
(* skipped, and a question that blocks an application can be answered from *)
(* the inbox.                                                              *)
(*                                                                         *)
(* Most steps look at the application's state before they move it, and     *)
(* none of them finds SKIPPED there.  Saving a packet does not look, which *)
(* is why the invariant has to follow what is being drafted                *)
(* (SkippedUndrafted).  The theorem on questions needs the one on skips:   *)
(* skipping settles the notices of a question that stays open.  What is    *)
(* ready comes last and needs neither: its invariant follows the packets   *)
(* that workers look at (ReadyInv).                                        *)
(***************************************************************************)
EXTENDS Exceptions, PreparationProofs

-----------------------------------------------------------------------------
(* The inductive invariant                                                  *)

Skipped(a) == apps[a].state = "SKIPPED"

\* Nothing is being drafted for an application that was skipped.
SkippedUndrafted == \A a \in Apps : Skipped(a) => ~Drafted(a)

RequestsTyped == requests \subseteq [app : Apps, policy : 0 .. MaxPolicy]

TypedInv == TypeInv /\ RequestsTyped
TablesInv == TypedInv /\ SkippedUndrafted

\* What the inbox and the workers know of notices has the shape it should.
NoticesTypeOK ==
  /\ notices \in [Apps -> SUBSET Blockers] /\ unanswered \subseteq Apps
  /\ owed \in [Workers -> Blockers \cup {"none"}]
  /\ lacks \subseteq Workers \cup {"owner"}

\* A worker that owes a notice has not let go of the task it is about.
OwedBusy == \A w \in Workers : owed[w] # "none" => worker[w].pc # "idle"

ExcInv == TablesInv /\ NoticesTypeOK /\ OwedBusy /\ BlockIsShown

-----------------------------------------------------------------------------
(* What all steps but a skip have in common: none skips an application or   *)
(* takes up a skipped one, and a packet is drafted only for one that is not *)
(* skipped.                                                                 *)

SkipStands(a) == Skipped(a)' <=> Skipped(a)

DraftStands(w) ==
  worker'[w].pc = "drafted" =>
    \/ worker'[w] = worker[w]
    \/ worker'[w].task = worker[w].task /\ ~Skipped(AppOfWorker(w))

SkipsStand ==
  /\ SkippedUndrafted => \A a \in Apps : SkipStands(a)
  /\ \A w \in Workers : DraftStands(w)
  /\ requests' \subseteq [app : Apps, policy : 0 .. MaxPolicy]
  /\ \A r \in requests' : r \in requests \/ ~Skipped(r.app)

\* The other half of it is that of SkippedStays.
SkippedKept == \A a \in Apps : Skipped(a) => Skipped(a)'

LEMMA StandingKeeps ==
  ASSUME TablesInv, TypedInv', SkipsStand
  PROVE  TablesInv' /\ SkippedKept
<1>1. SkippedUndrafted'
  <2> SUFFICES ASSUME NEW a \in Apps, Skipped(a)', Drafted(a)' PROVE FALSE
    BY DEF SkippedUndrafted
  <2>1. Skipped(a) /\ ~Drafted(a)
    BY DEF SkipsStand, SkipStands, TablesInv, SkippedUndrafted
  <2>2. CASE \E r \in requests' : r.app = a
    BY <2>1, <2>2 DEF SkipsStand, Drafted
  <2>3. CASE \E w \in Workers : worker'[w].pc = "drafted" /\ AppOfWorker(w)' = a
    BY <2>1, <2>3 DEF SkipsStand, DraftStands, Drafted, AppOfWorker
  <2> QED
    BY <2>2, <2>3 DEF Drafted
<1> QED
  BY <1>1 DEF TablesInv, SkipsStand, SkipStands, SkippedKept

LEMMA StandsFrom ==
  ASSUME TypedInv, TypeInv', SkippedUndrafted => \A a \in Apps : SkipStands(a),
         \A w \in Workers : DraftStands(w), UNCHANGED requests
  PROVE  TypedInv' /\ SkipsStand
  BY DEF SkipsStand, TypedInv, RequestsTyped

LEMMA SameStands ==
  ASSUME UNCHANGED apps
  PROVE  \A a \in Apps : SkipStands(a)
  BY DEF SkipStands, Skipped

LEMMA MoveStands ==
  ASSUME TypeInv, NEW a \in Apps, NEW state, NEW steps, MoveApp(a, state, steps),
         ~Skipped(a), state # "SKIPPED"
  PROVE  \A b \in Apps : SkipStands(b)
  BY MoveAppKeeps DEF SkipStands, Skipped

LEMMA RecoveryStands ==
  ASSUME TypeInv, NEW T, apps' = RecoveredApps(T)
  PROVE  \A a \in Apps : SkipStands(a)
<1> SUFFICES ASSUME NEW a \in Apps PROVE SkipStands(a)
  OBVIOUS
<1>1. apps[a] \in AppRow
  BY DEF TypeInv, TypeOK, QueueTypeOK
<1> QED
  BY <1>1 DEF RecoveredApps, Interrupted, AppRow, SkipStands, Skipped

LEMMA ClaimStands ==
  ASSUME TypeInv, NEW types, NEW t \in TaskIds, Claim(types, t)
  PROVE  \A a \in Apps : SkipStands(a)
<1> DEFINE rows == RecoveredApps(Expired)
<1>1. rows \in [Apps -> AppRow]
  BY RecoverTypes DEF TypeInv, TypeOK
<1>2. apps' \in {rows, [rows EXCEPT ![AppOf[t.key]].commitFence = nextFence + 1]}
  BY DEF Claim
<1>3. \A a \in Apps : rows[a].state = "SKIPPED" <=> apps[a].state = "SKIPPED"
  <2> SUFFICES ASSUME NEW a \in Apps
               PROVE  rows[a].state = "SKIPPED" <=> apps[a].state = "SKIPPED"
    OBVIOUS
  <2>1. apps[a] \in AppRow
    BY DEF TypeInv, TypeOK, QueueTypeOK
  <2> QED
    BY <2>1 DEF RecoveredApps, Interrupted, AppRow
<1> HIDE DEF rows
<1>4. \A a \in Apps : apps'[a].state = rows[a].state
  BY <1>1, <1>2 DEF AppRow
<1> QED
  BY <1>3, <1>4 DEF SkipStands, Skipped

-----------------------------------------------------------------------------
(* The protocol's steps are among them                                      *)

LEMMA OtherStageStands ==
  ASSUME TypeInv, NEW w \in Workers, NEW memory, worker' = [worker EXCEPT ![w] = memory],
         memory.pc # "drafted"
  PROVE  \A v \in Workers : DraftStands(v)
  BY DEF TypeInv, TypeOK, DraftStands

LEMMA AdvanceStands ==
  ASSUME TypeInv, NEW w \in Workers, NEW pc \in WorkerStages, Advance(w, pc), pc # "drafted"
  PROVE  \A v \in Workers : DraftStands(v)
  BY AdvanceKeeps DEF DraftStands

LEMMA SameDraftsStand ==
  ASSUME UNCHANGED worker
  PROVE  \A w \in Workers : DraftStands(w)
  BY DEF DraftStands

\* Whoever writes about an attempt finds its application ready or past submission.
LEMMA AttemptStands ==
  ASSUME TypeInv, NEW w \in Workers,
         \/ Begin(w) \/ AbortBeforeDispatch(w) \/ ConfirmReceipt(w)
         \/ RecordDefinitiveRejection(w) \/ ReconcileEvidence(w)
  PROVE  \A a \in Apps : SkipStands(a)
<1> DEFINE a == AppOfWorker(w)
<1>1. worker[w].pc # "idle"
  BY DEF Begin, AbortBeforeDispatch, ConfirmReceipt, RecordDefinitiveRejection,
         ReconcileEvidence
<1>2. a \in Apps
  BY <1>1, BusyWorker
<1>3. apps[a].state \in {"READY", "IN_FLIGHT", "UNKNOWN", "NEEDS_REVIEW"}
  BY DEF Begin, AbortBeforeDispatch, ConfirmReceipt, RecordDefinitiveRejection,
         ReconcileEvidence, InFlight, AppOfWorker
<1>4. \E state \in {"IN_FLIGHT", "UNSUPPORTED", "CONFIRMED", "DEFINITIVE_FAILURE",
                    "NEEDS_REVIEW"}, steps \in {1, 2} : MoveApp(a, state, steps)
  BY DEF Begin, AbortBeforeDispatch, ConfirmReceipt, RecordDefinitiveRejection,
         ReconcileEvidence, Verdict, AppOfWorker
<1> HIDE DEF a
<1> QED
  BY <1>2, <1>3, <1>4, MoveStands DEF Skipped

LEMMA WorkerStepStands ==
  ASSUME TypeInv, NEW w \in Workers, WorkerStep(w)
  PROVE  (\A a \in Apps : SkipStands(a)) /\ \A v \in Workers : DraftStands(v)
<1>1. CASE ReadRevision(w)
  <2> DEFINE memory == [worker[w] EXCEPT !.pc = "read", !.revision = apps[AppOfWorker(w)].revision]
  <2>1. worker[w] \in WorkerMemory
    BY DEF TypeInv, TypeOK
  <2>2. memory.pc = "read" /\ worker' = [worker EXCEPT ![w] = memory]
    BY <1>1, <2>1 DEF ReadRevision, WorkerMemory
  <2> HIDE DEF memory
  <2>3. \A v \in Workers : DraftStands(v)
    BY <2>2, OtherStageStands
  <2> QED
    BY <1>1, <2>3, SameStands DEF ReadRevision, queueVars
<1>2. CASE \/ Begin(w) \/ AbortBeforeDispatch(w) \/ ConfirmReceipt(w)
           \/ RecordDefinitiveRejection(w) \/ ReconcileEvidence(w)
  <2>1. Advance(w, "begun") \/ Advance(w, "settled")
    BY <1>2 DEF Begin, AbortBeforeDispatch, ConfirmReceipt, RecordDefinitiveRejection,
                ReconcileEvidence
  <2>2. \A v \in Workers : DraftStands(v)
    BY <2>1, AdvanceStands DEF WorkerStages
  <2> QED
    BY <1>2, <2>2, AttemptStands
<1>3. CASE AuthorizeDispatch(w) \/ Click(w) \/ Respond(w) \/ Lookup(w)
  <2>1. \E pc \in {"permitted", "clicked", "accepted", "refused", "found", "missing"} :
          Advance(w, pc)
    BY <1>3 DEF AuthorizeDispatch, Click, Respond, Lookup
  <2>2. \A v \in Workers : DraftStands(v)
    BY <2>1, AdvanceStands DEF WorkerStages
  <2> QED
    BY <1>3, <2>2, SameStands DEF AuthorizeDispatch, Click, Respond, Lookup, queueVars
<1>4. CASE Acknowledge(w) \/ GiveUp(w)
  <2>1. \A v \in Workers : DraftStands(v)
    BY <1>4, OtherStageStands DEF Acknowledge, GiveUp, Idle
  <2>2. \/ UNCHANGED apps
        \/ \E retryable \in BOOLEAN : Fail(worker[w].task, worker[w].fence, retryable)
    BY <1>4 DEF Acknowledge, Complete, GiveUp, queueVars
  <2>3. UNCHANGED apps \/ apps' = RecoveredApps({worker[w].task})
    BY <2>2 DEF Fail, RecoverTasks
  <2> QED
    BY <2>1, <2>3, SameStands, RecoveryStands
<1> QED
  BY <1>1, <1>2, <1>3, <1>4 DEF WorkerStep

\* Everything that goes on beside the documents, with their tables left alone.
LEMMA SubmissionStepStands ==
  ASSUME TypedInv, SubmissionStep
  PROVE  TypedInv' /\ SkipsStand
<1>1. TypeInv /\ UNCHANGED requests
  BY DEF TypedInv, SubmissionStep, docVars
<1>2. TypeInv'
  <2>1. Next
    BY DEF SubmissionStep, Next
  <2> QED
    BY <1>1, <2>1, TypeStep
<1>3. (\A a \in Apps : SkipStands(a)) /\ \A w \in Workers : DraftStands(w)
  <2>1. ASSUME NEW w \in Workers, WorkerStep(w)
        PROVE  (\A a \in Apps : SkipStands(a)) /\ \A v \in Workers : DraftStands(v)
    BY <1>1, <2>1, WorkerStepStands
  <2>2. ASSUME NEW w \in Workers, ClaimTask(w)
        PROVE  (\A a \in Apps : SkipStands(a)) /\ \A v \in Workers : DraftStands(v)
    <3>1. PICK types \in PollTypes, t \in TaskIds :
            /\ Claim(types, t)
            /\ worker' = [worker EXCEPT ![w] =
                 [pc |-> "claimed", task |-> t, fence |-> nextFence + 1, revision |-> 0]]
      BY <2>2 DEF ClaimTask
    <3>2. \A a \in Apps : SkipStands(a)
      BY <1>1, <3>1, ClaimStands
    <3> DEFINE memory == [pc |-> "claimed", task |-> t, fence |-> nextFence + 1, revision |-> 0]
    <3>3. worker' = [worker EXCEPT ![w] = memory] /\ memory.pc # "drafted"
      BY <3>1
    <3> HIDE DEF memory
    <3>4. \A v \in Workers : DraftStands(v)
      BY <1>1, <3>3, OtherStageStands
    <3> QED
      BY <3>2, <3>4
  <2>3. ASSUME NEW w \in Workers, PollNothing(w)
        PROVE  (\A a \in Apps : SkipStands(a)) /\ \A v \in Workers : DraftStands(v)
    <3>1. apps' = RecoveredApps(Expired) /\ UNCHANGED worker
      BY <2>3 DEF PollNothing, ClaimNothing, RecoverTasks, workVars
    <3> QED
      BY <1>1, <3>1, RecoveryStands, SameDraftsStand
  <2>4. ASSUME NEW w \in Workers, Crash(w)
        PROVE  (\A a \in Apps : SkipStands(a)) /\ \A v \in Workers : DraftStands(v)
    <3>1. worker' = [worker EXCEPT ![w] = Idle] /\ Idle.pc # "drafted"
      BY <2>4 DEF Crash, Idle
    <3>2. \A v \in Workers : DraftStands(v)
      BY <1>1, <3>1, OtherStageStands
    <3> QED
      BY <2>4, <3>2, SameStands DEF Crash, queueVars
  <2>5. ASSUME UNCHANGED <<apps, worker>>
        PROVE  (\A a \in Apps : SkipStands(a)) /\ \A v \in Workers : DraftStands(v)
    BY <2>5, SameStands, SameDraftsStand
  <2>6. ASSUME NEW w \in Workers, RenewLease(w)
        PROVE  UNCHANGED <<apps, worker>>
    BY <2>6 DEF RenewLease, Renew, workVars
  <2>7. ASSUME NEW f \in Fences, NEW answer, EmployerAnswer(f, answer)
        PROVE  UNCHANGED <<apps, worker>>
    BY <2>7 DEF EmployerAnswer, queueVars
  <2>8. ASSUME NEW t \in TaskIds, Elapse(t), UNCHANGED workVars
        PROVE  UNCHANGED <<apps, worker>>
    BY <2>8 DEF Elapse, workVars
  <2> QED
    BY <2>1, <2>2, <2>3, <2>4, <2>5, <2>6, <2>7, <2>8 DEF SubmissionStep, Poll
<1> QED
  BY <1>1, <1>2, <1>3, StandsFrom

-----------------------------------------------------------------------------
(* So are the owner's                                                       *)

\* A form is filled only for an application that is on its way to submission.
LEMMA InspectionStands ==
  ASSUME TypeInv, NEW k \in Keys, NEW status, NEW queueSubmit,
         SavePreparation(k, status, queueSubmit)
  PROVE  \A a \in Apps : SkipStands(a)
<1> DEFINE a == AppOf[k]
<1>1. a \in Apps
  BY QueueAssumption
<1>2. apps[a].state = "INSPECTING" \/ CanTransition(apps[a].state, "INSPECTING")
  BY DEF SavePreparation
<1>3. ~Skipped(a)
  BY <1>2 DEF Skipped, CanTransition, Transitions, Precommit
<1>4. PICK steps : MoveApp(a, StateAfter(status), steps)
  BY DEF SavePreparation
<1>5. StateAfter(status) # "SKIPPED"
  BY DEF StateAfter
<1> HIDE DEF a
<1> QED
  BY <1>1, <1>3, <1>4, <1>5, MoveStands

LEMMA OwnerSubmissionStepStands ==
  ASSUME TypedInv, OwnerSubmissionStep
  PROVE  TypedInv' /\ SkipsStand
<1>1. TypeInv /\ UNCHANGED requests
  BY DEF TypedInv, OwnerSubmissionStep, docVars
<1>2. ASSUME NEW k \in Keys, NEW status \in Statuses, NEW queueSubmit \in BOOLEAN,
             Save(k, status, queueSubmit)
      PROVE  TypeInv' /\ UNCHANGED worker /\ \A a \in Apps : SkipStands(a)
  <2>1. TypeInv'
    BY <1>1, <1>2, SaveTyped
  <2>2. SavePreparation(k, status, queueSubmit) /\ UNCHANGED worker
    BY <1>2 DEF Save
  <2> QED
    BY <1>1, <2>1, <2>2, InspectionStands
<1>3. ASSUME SaveAuthorization(TRUE) \/ SaveAuthorization(FALSE) \/ RevokeAuthorization
      PROVE  TypeInv' /\ UNCHANGED worker /\ \A a \in Apps : SkipStands(a)
  <2>1. TypeInv'
    BY <1>1, <1>3, PolicyTyped
  <2>2. apps' = RecoveredApps(LeasedSubmits) /\ UNCHANGED worker
    BY <1>3 DEF SaveAuthorization, RevokeAuthorization, RecoverTasks
  <2> QED
    BY <1>1, <2>1, <2>2, RecoveryStands
<1>4. ASSUME NEW patched \in ControlPatches \cup PreparationPatches \cup OpeningPatches,
             SetControl(patched), UNCHANGED workVars
      PROVE  TypeInv' /\ UNCHANGED worker /\ \A a \in Apps : SkipStands(a)
  <2>1. TypeInv'
    BY <1>1, <1>4, PatchesTyped, SetControlTyped, QueueStepTyped DEF TypeInv, TypeOK
  <2>2. \/ UNCHANGED apps
        \/ apps' = RecoveredApps({t \in Leased : t.type = "submit"})
    BY <1>4 DEF SetControl, RecoverTasks
  <2> QED
    BY <1>1, <1>4, <2>1, <2>2, SameStands, RecoveryStands DEF workVars
<1>5. TypeInv' /\ UNCHANGED worker /\ \A a \in Apps : SkipStands(a)
  BY <1>2, <1>3, <1>4 DEF OwnerSubmissionStep
<1> QED
  BY <1>1, <1>5, SameDraftsStand, StandsFrom

\* A new profile sends back what has no outcome, and a skip is one.
LEMMA PublishStands ==
  ASSUME TypedInv, PublishNewProfile
  PROVE  TypedInv' /\ SkipsStand
<1> DEFINE moved == RecoveredApps(LeasedSubmits \ Cancelled)
<1>1. TypeInv /\ PublishProfile /\ UNCHANGED <<requests, worker>>
  BY DEF TypedInv, PublishNewProfile, PublishProfile
<1>2. TypeInv'
  BY <1>1, PublishProfileTyped
<1>3. apps' = [a \in Apps |->
        IF a \in Discarded
        THEN [apps[a] EXCEPT !.state = "NORMALIZED", !.revision = @ + 1]
        ELSE moved[a]]
  BY <1>1 DEF PublishProfile
<1>4. \A a \in Apps : SkipStands(a)
  <2> SUFFICES ASSUME NEW a \in Apps PROVE SkipStands(a)
    OBVIOUS
  <2>1. apps[a] \in AppRow
    BY <1>1 DEF TypeInv, TypeOK, QueueTypeOK
  <2>2. CASE a \in Discarded
    <3>1. apps'[a].state = "NORMALIZED"
      BY <1>3, <2>1, <2>2 DEF AppRow
    <3> QED
      BY <2>2, <3>1 DEF SkipStands, Skipped, Discarded, Parked
  <2>3. CASE a \notin Discarded
    <3>1. moved[a].state = "SKIPPED" <=> apps[a].state = "SKIPPED"
      BY <2>1 DEF RecoveredApps, Interrupted, AppRow
    <3> QED
      BY <1>3, <2>3, <3>1 DEF SkipStands, Skipped
  <2> QED
    BY <2>2, <2>3
<1> QED
  BY <1>1, <1>2, <1>4, SameDraftsStand, StandsFrom

-----------------------------------------------------------------------------
(* Work on documents                                                        *)

WorkerStands(w) ==
  /\ worker[w].pc # "idle"
  /\ \E pc \in DocumentStages :
       GoesOn(w, pc) /\ (pc = "drafted" => ~Skipped(AppOfWorker(w)))

TablesStand ==
  /\ tasks' \in [TaskIds -> TaskRow] /\ apps' \in [Apps -> AppRow]
  /\ packet' \in [Apps -> PacketRow] /\ prep' \in [Keys -> PrepRow]
  /\ latest' \in [Apps -> Keys \cup {NoKey}]
  /\ UNCHANGED <<control, quarantined, attempts, nextFence, policy, authority, employer, clicks>>
  /\ SkippedUndrafted => \A a \in Apps : SkipStands(a)

LEMMA ReadingStands ==
  ASSUME TypeInv, tasks' \in [TaskIds -> TaskRow],
         UNCHANGED <<control, quarantined, apps, attempts, nextFence, policy, authority,
                     packet, prep, latest, employer, clicks>>
  PROVE  TablesStand
  BY SameStands DEF TypeInv, TypeOK, QueueTypeOK, TablesStand

LEMMA MovingStands ==
  ASSUME TypeInv, NEW a \in Apps, NEW state \in ApplicationStates,
         MoveApp(a, state, 1), ~Skipped(a), state # "SKIPPED",
         tasks' \in [TaskIds -> TaskRow],
         UNCHANGED <<control, quarantined, attempts, nextFence, policy, authority,
                     packet, prep, latest, employer, clicks>>
  PROVE  TablesStand
<1>1. 1 \in Nat
  OBVIOUS
<1>2. apps' \in [Apps -> AppRow]
  BY <1>1, MoveAppTyped
<1>3. \A b \in Apps : SkipStands(b)
  BY MoveStands
<1> QED
  BY <1>2, <1>3 DEF TypeInv, TypeOK, QueueTypeOK, TablesStand

\* Storing a packet does not look at the application: who drafted it did.
LEMMA StoringStands ==
  ASSUME TypeInv, NEW a \in Apps, SkippedUndrafted => ~Skipped(a), NEW made, NEW lacking \in BOOLEAN,
         StorePacket(a, made, lacking),
         UNCHANGED <<control, quarantined, tasks, attempts, nextFence, policy, authority,
                     prep, latest, employer, clicks>>
  PROVE  TablesStand
<1> DEFINE state == StateWith(a, lacking)
<1>1. /\ state \in ApplicationStates /\ state # "SKIPPED"
      /\ MoveApp(a, state, 1) /\ 1 \in Nat
  BY DEF StorePacket, StateWith, ApplicationStates
<1> HIDE DEF state
<1>2. /\ apps' \in [Apps -> AppRow]
      /\ SkippedUndrafted => \A b \in Apps : SkipStands(b)
  BY <1>1, MoveAppTyped, MoveStands
<1> DEFINE row == [serial |-> packet[a].serial + 1, policy |-> made, valid |-> TRUE]
<1>3. packet \in [Apps -> PacketRow] /\ packet[a].serial \in Nat /\ made \in Nat
  BY SubmissionAssumption DEF TypeInv, TypeOK, PacketRow, StorePacket
<1>4. row \in PacketRow /\ packet' = [packet EXCEPT ![a] = row]
  BY <1>3 DEF PacketRow, StorePacket
<1> HIDE DEF row
<1>5. packet' \in [Apps -> PacketRow]
  BY <1>3, <1>4
<1> QED
  BY <1>2, <1>5 DEF TypeInv, TypeOK, QueueTypeOK, TablesStand

LEMMA AfterPacketStands ==
  ASSUME NEW w \in Workers, worker[w].pc # "idle", NEW serial \in Nat, NEW lacking,
         AfterPacket(w, serial, lacking)
  PROVE  WorkerStands(w)
  BY DEF AfterPacket, WorkerStands, GoesOn, DocumentStages

LEMMA PrepareStands ==
  ASSUME TypeInv, NEW w \in Workers,
         \/ Retain(w) \/ StartPreparing(w) \/ Draft(w) \/ PreservePacket(w)
  PROVE  WorkerStands(w) /\ TablesStand /\ UNCHANGED requests
<1> DEFINE a == AppOfWorker(w)
<1>1. worker[w].pc # "idle" /\ a \in Apps
  <2>1. worker[w].pc # "idle"
    BY DEF Retain, StartPreparing, Draft, PreservePacket
  <2> QED
    BY <2>1, BusyWorker
<1>2. /\ packet[a].serial \in Nat /\ policy \in Nat /\ tasks \in [TaskIds -> TaskRow]
      /\ apps \in [Apps -> AppRow]
  BY <1>1, SubmissionAssumption DEF TypeInv, TypeOK, QueueTypeOK, PacketRow
<1>3. CASE Retain(w) \/ PreservePacket(w)
  <2>1. AfterPacket(w, packet[a].serial, a \in incomplete)
    BY <1>3 DEF Retain, PreservePacket
  <2>2. WorkerStands(w)
    BY <1>1, <1>2, <2>1, AfterPacketStands
  <2>3. UNCHANGED <<queueVars, policy, authority, packet, prep, latest, employer, clicks, docVars>>
    BY <1>3 DEF Retain, PreservePacket
  <2> QED
    BY <1>2, <2>2, <2>3, ReadingStands DEF queueVars, docVars
<1>4. CASE Draft(w)
  <2>1. /\ Remember(w, "drafted", policy) /\ apps[a].state \in Preparable
        /\ UNCHANGED <<queueVars, policy, authority, packet, prep, latest, employer, clicks, docVars>>
    BY <1>4 DEF Draft
  <2>2. ~Skipped(a)
    BY <2>1 DEF Skipped, Preparable
  <2>3. WorkerStands(w)
    BY <1>1, <1>2, <2>1, <2>2 DEF WorkerStands, GoesOn, DocumentStages
  <2> QED
    BY <1>2, <2>1, <2>3, ReadingStands DEF queueVars, docVars
<1>5. CASE StartPreparing(w)
  <2>1. /\ Advance(w, "preparing")
        /\ UNCHANGED <<control, quarantined, tasks, attempts, nextFence, policy, authority,
                       packet, prep, latest, employer, clicks, docVars>>
        /\ \/ UNCHANGED apps
           \/ apps[a].state = "ELIGIBLE" /\ MoveApp(a, "PREPARING", 1)
    BY <1>5 DEF StartPreparing
  <2>2. WorkerStands(w)
    BY <1>1, <2>1 DEF WorkerStands, GoesOn, DocumentStages
  <2>3. CASE UNCHANGED apps
    BY <1>2, <2>1, <2>2, <2>3, ReadingStands DEF docVars
  <2>4. CASE apps[a].state = "ELIGIBLE" /\ MoveApp(a, "PREPARING", 1)
    <3>1. "PREPARING" \in ApplicationStates
      BY DEF ApplicationStates
    <3> HIDE DEF a
    <3> QED
      BY <1>1, <1>2, <2>1, <2>2, <2>4, <3>1, MovingStands DEF docVars, Skipped
  <2> QED
    BY <2>1, <2>3, <2>4
<1> QED
  BY <1>3, <1>4, <1>5

LEMMA SavePacketStands ==
  ASSUME TypedInv, NEW w \in Workers, NEW lacking \in BOOLEAN, SavePacket(w, lacking)
  PROVE  WorkerStands(w) /\ TablesStand /\ UNCHANGED requests
<1> DEFINE a == AppOfWorker(w)
<1>1. TypeInv /\ worker[w].pc = "drafted" /\ a \in Apps
  BY BusyWorker DEF SavePacket, TypedInv
<1>2. SkippedUndrafted => ~Skipped(a)
  BY <1>1 DEF SkippedUndrafted, Drafted
<1>3. packet[a].serial + 1 \in Nat
  BY <1>1 DEF TypeInv, TypeOK, PacketRow
<1>4. /\ StorePacket(a, worker[w].revision, lacking)
      /\ AfterPacket(w, packet[a].serial + 1, lacking)
      /\ UNCHANGED <<control, quarantined, tasks, attempts, nextFence, policy, authority,
                     prep, latest, employer, clicks, requests>>
  BY DEF SavePacket
<1>5. WorkerStands(w)
  BY <1>1, <1>3, <1>4, AfterPacketStands
<1> HIDE DEF a
<1>6. TablesStand
  BY <1>1, <1>2, <1>4, StoringStands
<1> QED
  BY <1>4, <1>5, <1>6

LEMMA QueueingStands ==
  ASSUME TypeInv, NEW w \in Workers,
         QueueInspection(w) \/ \E k \in Keys : QueueAnswers(w, k)
  PROVE  WorkerStands(w) /\ TablesStand /\ UNCHANGED requests
<1>1. worker[w].pc # "idle" /\ Advance(w, "settled")
  BY DEF QueueInspection, QueueAnswers
<1>2. WorkerStands(w)
  BY <1>1 DEF WorkerStands, GoesOn, DocumentStages
<1>3. \/ UNCHANGED tasks
      \/ \E k \in Keys, type \in {"prepare", "inspect"} : Enqueue(type, k)
  BY DEF QueueInspection, QueueAnswers
<1>4. tasks' \in [TaskIds -> TaskRow]
  BY <1>3, EnqueueTyped DEF TypeInv, TypeOK, QueueTypeOK
<1>5. UNCHANGED <<control, quarantined, apps, attempts, nextFence, policy, authority,
                  packet, prep, latest, employer, clicks, requests>>
  BY DEF QueueInspection, QueueAnswers
<1> QED
  BY <1>2, <1>4, <1>5, ReadingStands

LEMMA LookingStands ==
  ASSUME TypeInv, NEW w \in Workers,
         \/ Look(w) \/ ConfirmLease(w) \/ DropInspection(w)
  PROVE  WorkerStands(w) /\ TablesStand /\ UNCHANGED requests
<1> DEFINE a == AppOfWorker(w)
<1>1. worker[w].pc # "idle" /\ a \in Apps /\ worker[w].task \in TaskIds
  <2>1. worker[w].pc # "idle"
    BY DEF Look, ConfirmLease, DropInspection
  <2> QED
    BY <2>1, BusyWorker
<1>2. apps[a].revision \in Nat
  BY <1>1 DEF TypeInv, TypeOK, QueueTypeOK, AppRow
<1>3. tasks' \in [TaskIds -> TaskRow] /\ UNCHANGED <<control, quarantined, apps, attempts, nextFence>>
  <2>1. CASE Look(w) \/ ConfirmLease(w)
    <3>1. Renew(worker[w].task, worker[w].fence)
      BY <2>1 DEF Look, ConfirmLease
    <3> QED
      BY <1>1, <3>1, RenewTyped DEF Renew, TypeInv, TypeOK, QueueTypeOK
  <2>2. CASE DropInspection(w)
    BY <2>2 DEF DropInspection, queueVars, TypeInv, TypeOK, QueueTypeOK
  <2> QED
    BY <2>1, <2>2
<1>4. UNCHANGED <<policy, authority, packet, prep, latest, employer, clicks, docVars>>
  BY DEF Look, ConfirmLease, DropInspection
<1>5. \/ Advance(w, "settled") \/ Advance(w, "renewed")
      \/ Remember(w, "looked", apps[a].revision)
  BY DEF Look, ConfirmLease, DropInspection
<1>6. WorkerStands(w)
  BY <1>1, <1>2, <1>5 DEF WorkerStands, GoesOn, DocumentStages
<1> QED
  BY <1>3, <1>4, <1>6, ReadingStands DEF docVars

LEMMA RoutingStands ==
  ASSUME TypeInv, NEW w \in Workers, RouteUnsupported(w)
  PROVE  WorkerStands(w) /\ TablesStand /\ UNCHANGED requests
<1> DEFINE a == AppOfWorker(w)
<1>1. worker[w].pc = "looked" /\ a \in Apps
  BY BusyWorker DEF RouteUnsupported
<1>2. /\ Advance(w, "settled")
      /\ UNCHANGED <<control, quarantined, tasks, attempts, nextFence, policy, authority,
                     packet, prep, latest, employer, clicks, docVars>>
      /\ \/ UNCHANGED apps
         \/ CanTransition(apps[a].state, "UNSUPPORTED") /\ MoveApp(a, "UNSUPPORTED", 1)
  BY DEF RouteUnsupported
<1>3. WorkerStands(w)
  BY <1>1, <1>2 DEF WorkerStands, GoesOn, DocumentStages
<1>4. tasks' \in [TaskIds -> TaskRow]
  BY <1>2 DEF TypeInv, TypeOK, QueueTypeOK
<1>5. CASE UNCHANGED apps
  BY <1>2, <1>3, <1>4, <1>5, ReadingStands DEF docVars
<1>6. CASE CanTransition(apps[a].state, "UNSUPPORTED") /\ MoveApp(a, "UNSUPPORTED", 1)
  <2>1. ~Skipped(a)
    BY <1>6 DEF Skipped, CanTransition, Transitions, Precommit
  <2>2. "UNSUPPORTED" \in ApplicationStates
    BY DEF ApplicationStates
  <2> HIDE DEF a
  <2> QED
    BY <1>1, <1>2, <1>3, <1>4, <1>6, <2>1, <2>2, MovingStands DEF docVars
<1> QED
  BY <1>2, <1>5, <1>6

LEMMA SaveInspectionStands ==
  ASSUME TypeInv, NEW w \in Workers, NEW k \in Keys, NEW status \in Statuses,
         SaveInspection(w, k, status)
  PROVE  WorkerStands(w) /\ TablesStand /\ UNCHANGED requests
<1>1. worker[w].pc # "idle"
  BY DEF SaveInspection
<1>2. PICK queueSubmit \in BOOLEAN : SavePreparation(k, status, queueSubmit)
  BY DEF SaveInspection
<1>3. policy \in Nat
  BY SubmissionAssumption DEF TypeInv, TypeOK
<1>4. Advance(w, "settled") \/ Remember(w, "unanswered", policy)
  BY DEF SaveInspection
<1>5. WorkerStands(w)
  BY <1>1, <1>3, <1>4 DEF WorkerStands, GoesOn, DocumentStages
<1>6. /\ apps' \in [Apps -> AppRow] /\ prep' \in [Keys -> PrepRow]
      /\ latest' \in [Apps -> Keys \cup {NoKey}]
      /\ tasks' \in [TaskIds -> TaskRow]
  BY <1>2, SavePreparationTyped
<1>7. \A a \in Apps : SkipStands(a)
  BY <1>2, InspectionStands
<1>8. UNCHANGED <<control, quarantined, attempts, nextFence, policy, authority,
                  packet, employer, clicks>>
  BY <1>2 DEF SavePreparation
<1>9. TablesStand
  BY <1>6, <1>7, <1>8 DEF TablesStand, TypeInv, TypeOK
<1> QED
  BY <1>5, <1>9 DEF SaveInspection, docVars

LEMMA DocumentStepParts ==
  ASSUME TypedInv, NEW w \in Workers, DocumentStep(w)
  PROVE  WorkerStands(w) /\ TablesStand /\ UNCHANGED requests
<1>1. TypeInv
  BY DEF TypedInv
<1> QED
  BY <1>1, PrepareStands, SavePacketStands, QueueingStands, LookingStands,
     RoutingStands, SaveInspectionStands
  DEF DocumentStep

LEMMA DocumentStepStands ==
  ASSUME TypedInv, NEW w \in Workers, DocumentStep(w)
  PROVE  TypedInv' /\ SkipsStand
<1>1. TypeInv
  BY DEF TypedInv
<1>2. WorkerStands(w) /\ TablesStand /\ UNCHANGED requests
  BY DocumentStepParts
<1>3. PICK pc \in DocumentStages :
        GoesOn(w, pc) /\ (pc = "drafted" => ~Skipped(AppOfWorker(w)))
  BY <1>2 DEF WorkerStands
<1>4. worker[w].pc # "idle" /\ pc \in WorkerStages
  BY <1>2 DEF WorkerStands, DocumentStages, WorkerStages
<1>5. /\ worker' \in [Workers -> WorkerMemory] /\ WorkerHasTask'
      /\ worker'[w].pc = pc /\ worker'[w].task = worker[w].task
      /\ \A v \in Workers : v # w => worker'[v] = worker[v]
  BY <1>1, <1>3, <1>4, GoesOnKeeps
<1>6. TypeInv'
  BY <1>1, <1>2, <1>5 DEF TablesStand, TypeInv, TypeOK, QueueTypeOK
<1>7. \A v \in Workers : DraftStands(v)
  BY <1>3, <1>5 DEF DraftStands
<1> QED
  BY <1>2, <1>6, <1>7, StandsFrom DEF TablesStand

-----------------------------------------------------------------------------
(* The owner                                                                *)

\* A step that leaves the workers alone.
LEMMA OwnerStands ==
  ASSUME TypedInv, TablesStand, UNCHANGED worker,
         requests' \subseteq [app : Apps, policy : 0 .. MaxPolicy],
         \A r \in requests' : r \in requests \/ ~Skipped(r.app)
  PROVE  TypedInv' /\ SkipsStand
<1>1. TypeInv'
  BY DEF TypedInv, TablesStand, TypeInv, TypeOK, QueueTypeOK, WorkerHasTask
<1>2. SkipsStand
  BY SameDraftsStand DEF SkipsStand, TablesStand
<1> QED
  BY <1>1, <1>2 DEF TypedInv, RequestsTyped

LEMMA MatchingStands ==
  ASSUME TypedInv, Matching
  PROVE  TypedInv' /\ SkipsStand
<1>1. TypeInv /\ tasks \in [TaskIds -> TaskRow]
  BY DEF TypedInv, TypeInv, TypeOK, QueueTypeOK
<1>2. UNCHANGED <<worker, requests>>
  BY DEF Matching, Qualify, SaveAssessment, workVars, docVars
<1>3. ASSUME NEW a \in Apps, Qualify(a) PROVE TablesStand
  <2>1. ~Skipped(a)
    BY <1>3 DEF Qualify, Skipped
  <2>2. UNCHANGED <<control, quarantined, tasks, attempts, nextFence, policy, authority,
                    packet, prep, latest, employer, clicks>>
    BY <1>3 DEF Qualify, workVars
  <2>3. MoveApp(a, "ASSESSED", 1) \/ MoveApp(a, "ELIGIBLE", 1)
    BY <1>3 DEF Qualify
  <2> QED
    BY <1>1, <2>1, <2>2, <2>3, MovingStands DEF ApplicationStates
<1>4. ASSUME NEW k \in Keys, NEW p, SaveAssessment(k, profileOf[p]) PROVE TablesStand
  <2>1. /\ Enqueue("prepare", k)
        /\ UNCHANGED <<control, quarantined, apps, attempts, nextFence, workVars>>
    BY <1>4 DEF SaveAssessment
  <2> QED
    BY <1>1, <2>1, EnqueueTyped, ReadingStands DEF workVars
<1>5. TablesStand
  BY <1>3, <1>4 DEF Matching
<1> QED
  BY <1>2, <1>5, OwnerStands DEF TypedInv, RequestsTyped

LEMMA RequestStands ==
  ASSUME TypedInv,
         \/ \E a \in Apps : RequestPacket(a)
         \/ \E r \in requests : LoseRequest(r)
  PROVE  TypedInv' /\ SkipsStand
<1>1. UNCHANGED vars
  BY DEF RequestPacket, LoseRequest
<1>2. TypeInv /\ tasks \in [TaskIds -> TaskRow] /\ policy \in 0 .. MaxPolicy
  BY DEF TypedInv, TypeInv, TypeOK, QueueTypeOK
<1>3. TablesStand /\ UNCHANGED worker
  BY <1>1, <1>2, ReadingStands DEF vars, queueVars, workVars
<1>4. CASE \E r \in requests : LoseRequest(r)
  <2>1. requests' \subseteq requests
    BY <1>4 DEF LoseRequest
  <2> QED
    BY <1>3, <2>1, OwnerStands DEF TypedInv, RequestsTyped
<1>5. CASE \E a \in Apps : RequestPacket(a)
  <2>1. PICK a \in Apps : RequestPacket(a)
    BY <1>5
  <2>2. ~Skipped(a) /\ requests' = {[app |-> a, policy |-> policy]}
    BY <2>1 DEF RequestPacket, Preparable, Skipped
  <2>3. /\ requests' \subseteq [app : Apps, policy : 0 .. MaxPolicy]
        /\ \A r \in requests' : ~Skipped(r.app)
    BY <1>2, <2>2
  <2> QED
    BY <1>3, <2>3, OwnerStands
<1> QED
  BY <1>4, <1>5

LEMMA SaveRequestedStands ==
  ASSUME TypedInv, NEW r \in requests, NEW lacking \in BOOLEAN, SaveRequested(r, lacking)
  PROVE  TypedInv' /\ SkipsStand
<1>1. TypeInv /\ r.app \in Apps
  BY DEF TypedInv, RequestsTyped
<1>2. SkippedUndrafted => ~Skipped(r.app)
  BY <1>1 DEF SkippedUndrafted, Drafted
<1>3. /\ StorePacket(r.app, r.policy, lacking) /\ requests' \subseteq requests
      /\ UNCHANGED <<control, quarantined, tasks, attempts, nextFence, policy, authority,
                     prep, latest, worker, employer, clicks>>
  BY DEF SaveRequested
<1>4. TablesStand
  BY <1>1, <1>2, <1>3, StoringStands
<1> QED
  BY <1>3, <1>4, OwnerStands DEF TypedInv, RequestsTyped

LEMMA CancelledTyped ==
  ASSUME TypeInv
  PROVE  \A t \in TaskIds : [tasks[t] EXCEPT !.state = "cancelled", !.lease = 0] \in TaskRow
<1>1. "cancelled" \in TaskStates /\ 0 \in 0 .. LeaseTerm
  BY QueueAssumption DEF TaskStates
<1>2. tasks \in [TaskIds -> TaskRow]
  BY DEF TypeInv, TypeOK, QueueTypeOK
<1> QED
  BY <1>1, <1>2, TaskRowUpdate

LEMMA ResumeStands ==
  ASSUME TypedInv, NEW k \in Keys, Resume(k)
  PROVE  TypedInv' /\ SkipsStand
<1> DEFINE a == AppOf[k]
<1>1. TypeInv /\ a \in Apps
  BY QueueAssumption DEF TypedInv
<1>2. ~Skipped(a)
  BY DEF Resume, Resumable, Skipped
<1>3. tasks' \in [TaskIds -> TaskRow]
  <2>1. tasks \in [TaskIds -> TaskRow]
    BY <1>1 DEF TypeInv, TypeOK, QueueTypeOK
  <2> QED
    BY <1>1, <2>1, CancelledTyped, ReadyRowTyped DEF Resume
<1>4. /\ MoveApp(a, "PREPARING", 1)
      /\ UNCHANGED <<control, quarantined, attempts, nextFence, workVars, requests>>
  BY DEF Resume
<1>5. "PREPARING" \in ApplicationStates
  BY DEF ApplicationStates
<1> HIDE DEF a
<1>6. TablesStand
  BY <1>1, <1>2, <1>3, <1>4, <1>5, MovingStands DEF workVars
<1> QED
  BY <1>4, <1>6, OwnerStands DEF workVars, TypedInv, RequestsTyped

LEMMA RebuildStands ==
  ASSUME TypedInv, NEW k \in Keys, Rebuild(k)
  PROVE  TypedInv' /\ SkipsStand
<1> DEFINE a == AppOf[k]
<1>1. TypeInv /\ a \in Apps
  BY QueueAssumption DEF TypedInv
<1>2. ~Skipped(a)
  BY DEF Rebuild, Resumable, Skipped
<1>3. /\ Enqueue("inspect", k) /\ MoveApp(a, "INSPECTING", 1)
      /\ UNCHANGED <<control, quarantined, attempts, nextFence, workVars, requests>>
  BY DEF Rebuild
<1>4. tasks' \in [TaskIds -> TaskRow]
  BY <1>1, <1>3, EnqueueTyped
<1>5. "INSPECTING" \in ApplicationStates
  BY DEF ApplicationStates
<1> HIDE DEF a
<1>6. TablesStand
  BY <1>1, <1>2, <1>3, <1>4, <1>5, MovingStands DEF workVars
<1> QED
  BY <1>3, <1>6, OwnerStands DEF workVars, TypedInv, RequestsTyped

\* The one step that skips moves its application alone ...
LEMMA SkipTyped ==
  ASSUME TypedInv, NEW a \in Apps, NEW blocker, Skip(a, blocker)
  PROVE  /\ TypedInv' /\ UNCHANGED <<worker, requests>>
         /\ apps'[a].state = "SKIPPED" /\ \A b \in Apps : b # a => apps'[b] = apps[b]
<1>1. TypeInv
  BY DEF TypedInv
<1>2. /\ MoveApp(a, "SKIPPED", 1)
      /\ UNCHANGED <<control, quarantined, attempts, nextFence, workVars, docVars>>
  BY DEF Skip
<1>3. tasks' \in [TaskIds -> TaskRow]
  <2>1. tasks \in [TaskIds -> TaskRow]
    BY <1>1 DEF TypeInv, TypeOK, QueueTypeOK
  <2> QED
    BY <1>1, <2>1, CancelledTyped DEF Skip
<1>4. apps' \in [Apps -> AppRow]
  <2>1. 1 \in Nat /\ "SKIPPED" \in ApplicationStates
    BY DEF ApplicationStates
  <2> QED
    BY <1>1, <1>2, <2>1, MoveAppTyped
<1>5. TypeInv'
  BY <1>1, <1>2, <1>3, <1>4 DEF TypeInv, TypeOK, QueueTypeOK, WorkerHasTask, workVars
<1>6. apps'[a].state = "SKIPPED" /\ \A b \in Apps : b # a => apps'[b] = apps[b]
  BY <1>1, <1>2, MoveAppKeeps
<1>7. UNCHANGED <<worker, requests>>
  BY <1>2 DEF workVars, docVars
<1> QED
  BY <1>5, <1>6, <1>7 DEF TypedInv, RequestsTyped

\* ... of which nothing is being drafted.
LEMMA SkipKeeps ==
  ASSUME TablesInv, ~SkipsDrafts, NEW a \in Apps, NEW blocker, Skip(a, blocker)
  PROVE  TablesInv' /\ SkippedKept
<1>1. TypedInv /\ ~Drafted(a)
  BY DEF TablesInv, Skip
<1>2. /\ TypedInv' /\ UNCHANGED <<worker, requests>>
      /\ apps'[a].state = "SKIPPED" /\ \A b \in Apps : b # a => apps'[b] = apps[b]
  BY <1>1, SkipTyped
<1>3. SkippedUndrafted'
  <2> SUFFICES ASSUME NEW b \in Apps, Skipped(b)' PROVE ~Drafted(b)'
    BY DEF SkippedUndrafted
  <2>1. ~Drafted(b)
    BY <1>1, <1>2 DEF TablesInv, SkippedUndrafted, Skipped
  <2> QED
    BY <1>2, <2>1 DEF Drafted, AppOfWorker
<1> QED
  BY <1>2, <1>3 DEF TablesInv, SkippedKept, Skipped

\* A packet that is found invalid may take a skipped application up again.
LEMMA InvalidateTyped ==
  ASSUME TypedInv, NEW a \in Apps, NEW letter \in BOOLEAN, Invalidate(a, letter)
  PROVE  TypedInv'
<1>1. /\ TypeInv /\ packet \in [Apps -> PacketRow] /\ packet[a] \in PacketRow
      /\ apps \in [Apps -> AppRow]
  BY DEF TypedInv, TypeInv, TypeOK, QueueTypeOK
<1>2. UNCHANGED <<control, quarantined, tasks, attempts, nextFence, policy, authority,
                  prep, latest, worker, employer, clicks, docVars>>
  BY DEF Invalidate
<1>3. packet' \in [Apps -> PacketRow]
  <2> DEFINE row == [packet[a] EXCEPT !.valid = FALSE]
  <2>1. row \in PacketRow
    BY <1>1 DEF PacketRow
  <2>2. packet' = [packet EXCEPT ![a] = row]
    BY DEF Invalidate
  <2> HIDE DEF row
  <2> QED
    BY <1>1, <2>1, <2>2
<1>4. apps' \in [Apps -> AppRow]
  <2>1. UNCHANGED apps \/ \E state \in {"NEEDS_INPUT", "NEEDS_REVIEW"} : MoveApp(a, state, 1)
    BY DEF Invalidate
  <2>2. {"NEEDS_INPUT", "NEEDS_REVIEW"} \subseteq ApplicationStates /\ 1 \in Nat
    BY DEF ApplicationStates
  <2> QED
    BY <1>1, <2>1, <2>2, MoveAppTyped
<1>5. TypeInv'
  BY <1>1, <1>2, <1>3, <1>4, DocumentTyped DEF TypeInv, TypeOK, QueueTypeOK, WorkerHasTask
<1> QED
  BY <1>2, <1>5 DEF TypedInv, RequestsTyped, docVars

-----------------------------------------------------------------------------
(* The notices                                                              *)

\* A dead letter is a notice more.
LEMMA DeadLettersAdd ==
  ASSUME NEW rows \in [Apps -> SUBSET Blockers], notices' = WithDeadLetters(rows)
  PROVE  /\ notices' \in [Apps -> SUBSET Blockers]
         /\ \A a \in Apps : rows[a] \subseteq notices'[a]
  BY DEF WithDeadLetters, Blockers

\* What keeps a question on show: its notice stays until it is answered.
LEMMA ShownFrom ==
  ASSUME BlockIsShown, SkippedKept, unanswered \subseteq Apps,
         \A a \in unanswered' :
           \/ "answer_unknown" \in notices'[a]
           \/ a \in unanswered /\ ("answer_unknown" \in notices[a] => Skipped(a)')
  PROVE  BlockIsShown'
  BY DEF BlockIsShown, SkippedKept, Skipped

\* A step that takes no notice away, and leaves the open questions alone.
LEMMA NoticesAdded ==
  ASSUME NoticesTypeOK, BlockIsShown, SkippedKept, UNCHANGED unanswered,
         \A a \in Apps : notices[a] \subseteq notices'[a]
  PROVE  BlockIsShown'
  BY DEF BlockIsShown, SkippedKept, Skipped, NoticesTypeOK

LEMMA WorkNotices ==
  ASSUME NoticesTypeOK, BlockIsShown, SkippedKept, NEW w \in Workers, Work(w),
         AppOfWorker(w) \in Apps
  PROVE  NoticesTypeOK' /\ BlockIsShown'
<1> DEFINE a == AppOfWorker(w)
           rows == IF Asks(w) THEN [notices EXCEPT ![a] = @ \cup {"answer_unknown"}] ELSE notices
<1>1. rows \in [Apps -> SUBSET Blockers] /\ \A b \in Apps : notices[b] \subseteq rows[b]
  BY DEF NoticesTypeOK, Blockers
<1>2. notices' = WithDeadLetters(rows) /\ UNCHANGED unanswered
  BY DEF Work
<1> HIDE DEF rows
<1>3. notices' \in [Apps -> SUBSET Blockers] /\ \A b \in Apps : rows[b] \subseteq notices'[b]
  BY <1>1, <1>2, DeadLettersAdd
<1>4. OwedFor(w) \in Blockers \cup {"none"}
  BY DEF OwedFor, Blockers
<1>5. owed' = [owed EXCEPT ![w] = OwedFor(w)] /\ lacks' \subseteq lacks \cup {w}
  BY DEF Work
<1>6. NoticesTypeOK'
  BY <1>2, <1>3, <1>4, <1>5 DEF NoticesTypeOK
<1> QED
  BY <1>1, <1>2, <1>3, <1>6, NoticesAdded

LEMMA RecordNotices ==
  ASSUME NoticesTypeOK, BlockIsShown, SkippedKept, NEW w \in Workers, RecordNotice(w),
         AppOfWorker(w) \in Apps
  PROVE  NoticesTypeOK' /\ BlockIsShown'
<1> DEFINE a == AppOfWorker(w)
<1>1. /\ owed[w] \in Blockers
      /\ notices' = [notices EXCEPT ![a] = notices[a] \cup {owed[w]}]
      /\ unanswered' = IF owed[w] = "answer_unknown" THEN unanswered \cup {a} ELSE unanswered
      /\ owed' = [owed EXCEPT ![w] = "none"] /\ UNCHANGED lacks
  BY DEF RecordNotice, NoticesFor, NoticesTypeOK
<1> HIDE DEF a
<1>2. NoticesTypeOK'
  BY <1>1 DEF NoticesTypeOK, a
<1>3. /\ \A b \in Apps : notices[b] \subseteq notices'[b]
      /\ a \in Apps /\ owed[w] \in notices'[a]
  BY <1>1 DEF NoticesTypeOK, a
<1>4. \A b \in unanswered' :
        \/ "answer_unknown" \in notices'[b]
        \/ b \in unanswered /\ ("answer_unknown" \in notices[b] => Skipped(b)')
  BY <1>1, <1>3 DEF NoticesTypeOK
<1> QED
  BY <1>2, <1>4, ShownFrom DEF NoticesTypeOK

\* What happens beside the work, or ends it, adds dead letters at most.
LEMMA BesideNotices ==
  ASSUME NoticesTypeOK, BlockIsShown, SkippedKept,
         (\E w \in Workers : LoseNotice(w)) \/ Beside
  PROVE  NoticesTypeOK' /\ BlockIsShown'
<1>1. notices' = WithDeadLetters(notices) /\ UNCHANGED unanswered
  BY DEF LoseNotice, Beside
<1>2. \/ UNCHANGED <<owed, lacks>>
      \/ \E w \in Workers : owed' = [owed EXCEPT ![w] = "none"] /\ lacks' = lacks \ {w}
  BY DEF LoseNotice, Beside
<1>3. /\ notices' \in [Apps -> SUBSET Blockers]
      /\ \A a \in Apps : notices[a] \subseteq notices'[a]
  BY <1>1, DeadLettersAdd DEF NoticesTypeOK
<1>4. owed' \in [Workers -> Blockers \cup {"none"}] /\ lacks' \subseteq Workers \cup {"owner"}
  BY <1>2 DEF NoticesTypeOK
<1> QED
  BY <1>1, <1>3, <1>4, NoticesAdded DEF NoticesTypeOK

\* The inbox writes a notice only where there is none, so an application whose
\* question is open has been skipped.
LEMMA InboxNotices ==
  ASSUME NoticesTypeOK, BlockIsShown, SkippedKept, NEW a \in Apps, Inbox(a)
  PROVE  NoticesTypeOK' /\ BlockIsShown'
<1>1. /\ notices[a] = {} /\ notices' = [notices EXCEPT ![a] = {StateBlocker[apps[a].state]}]
      /\ UNCHANGED <<unanswered, owed, lacks>>
      /\ apps[a].state \in DOMAIN StateBlocker
  BY DEF Inbox
<1>2. StateBlocker[apps[a].state] \in Blockers
  BY <1>1 DEF StateBlocker, Blockers
<1>3. NoticesTypeOK' /\ \A b \in Apps : notices[b] \subseteq notices'[b]
  BY <1>1, <1>2 DEF NoticesTypeOK
<1> QED
  BY <1>1, <1>3, NoticesAdded

\* The answer settles the question with its notice, and only this question.
LEMMA AnswerNotices ==
  ASSUME NoticesTypeOK, BlockIsShown, SkippedKept, NEW a \in Apps, ApproveAnswer(a)
  PROVE  NoticesTypeOK' /\ BlockIsShown'
<1>1. /\ notices' = [notices EXCEPT ![a] = notices[a] \ {"answer_unknown"}]
      /\ unanswered' = unanswered \ {a} /\ UNCHANGED <<owed, lacks>>
  BY DEF ApproveAnswer, NoticesTypeOK
<1>2. NoticesTypeOK' /\ \A b \in Apps : b # a => notices'[b] = notices[b]
  BY <1>1 DEF NoticesTypeOK
<1>3. \A b \in unanswered' :
        \/ "answer_unknown" \in notices'[b]
        \/ b \in unanswered /\ ("answer_unknown" \in notices[b] => Skipped(b)')
  BY <1>1, <1>2 DEF NoticesTypeOK
<1> QED
  BY <1>2, <1>3, ShownFrom DEF NoticesTypeOK

LEMMA RetryNotices ==
  ASSUME NoticesTypeOK, BlockIsShown, SkippedKept, NEW k \in Keys, Retry(k)
  PROVE  NoticesTypeOK' /\ BlockIsShown'
<1>1. PICK a \in Apps : a = AppOf[k]
  BY QueueAssumption
<1>2. /\ notices' = [notices EXCEPT ![a] = notices[a] \ {"task_failed"}]
      /\ UNCHANGED <<unanswered, owed, lacks>>
  BY <1>1 DEF Retry, NoticesTypeOK
<1>3. /\ NoticesTypeOK'
      /\ \A b \in Apps : "answer_unknown" \in notices[b] => "answer_unknown" \in notices'[b]
  BY <1>2 DEF NoticesTypeOK
<1>4. \A b \in unanswered' :
        \/ "answer_unknown" \in notices'[b]
        \/ b \in unanswered /\ ("answer_unknown" \in notices[b] => Skipped(b)')
  BY <1>2, <1>3 DEF NoticesTypeOK
<1> QED
  BY <1>3, <1>4, ShownFrom DEF NoticesTypeOK

\* A skip settles the notice of a question it leaves open.
LEMMA SkipNotices ==
  ASSUME NoticesTypeOK, BlockIsShown, SkippedKept, NEW a \in Apps, NEW blocker,
         Skip(a, blocker), Skipped(a)'
  PROVE  NoticesTypeOK' /\ BlockIsShown'
<1>1. notices' = [notices EXCEPT ![a] = {}] /\ UNCHANGED <<unanswered, owed, lacks>>
  BY DEF Skip
<1>2. NoticesTypeOK' /\ \A b \in Apps : b # a => notices'[b] = notices[b]
  BY <1>1 DEF NoticesTypeOK
<1>3. \A b \in unanswered' :
        \/ "answer_unknown" \in notices'[b]
        \/ b \in unanswered /\ ("answer_unknown" \in notices[b] => Skipped(b)')
  BY <1>1, <1>2 DEF NoticesTypeOK
<1> QED
  BY <1>2, <1>3, ShownFrom DEF NoticesTypeOK

LEMMA GenerateNotices ==
  ASSUME NoticesTypeOK, BlockIsShown, SkippedKept,
         \/ \E a \in Apps : Generate(a)
         \/ \E r \in requests : EndGeneration(r)
         \/ UNCHANGED noticeVars
  PROVE  NoticesTypeOK' /\ BlockIsShown'
<1>1. CASE UNCHANGED noticeVars
  <2>1. NoticesTypeOK' /\ UNCHANGED <<notices, unanswered>>
    BY <1>1 DEF noticeVars, NoticesTypeOK
  <2> QED
    BY <2>1, NoticesAdded
<1>2. CASE \E r \in requests : EndGeneration(r)
  <2>1. UNCHANGED <<notices, unanswered, owed>> /\ lacks' = lacks \ {"owner"}
    BY <1>2 DEF EndGeneration
  <2>2. NoticesTypeOK'
    BY <2>1 DEF NoticesTypeOK
  <2> QED
    BY <2>1, <2>2, NoticesAdded
<1>3. ASSUME NEW a \in Apps, Generate(a), ~UNCHANGED noticeVars
      PROVE  NoticesTypeOK' /\ BlockIsShown'
  <2>1. /\ unanswered' = unanswered \cup {a}
        /\ notices' = [notices EXCEPT ![a] = notices[a] \cup {"answer_unknown"}]
        /\ lacks' = lacks \cup {"owner"} /\ UNCHANGED owed
    BY <1>3 DEF Generate, NoticesTypeOK
  <2>2. /\ NoticesTypeOK' /\ "answer_unknown" \in notices'[a]
        /\ \A b \in Apps : notices[b] \subseteq notices'[b]
    BY <2>1 DEF NoticesTypeOK, Blockers
  <2>3. \A b \in unanswered' :
          \/ "answer_unknown" \in notices'[b]
          \/ b \in unanswered /\ ("answer_unknown" \in notices[b] => Skipped(b)')
    BY <2>1, <2>2 DEF NoticesTypeOK
  <2> QED
    BY <2>2, <2>3, ShownFrom DEF NoticesTypeOK
<1> QED
  BY <1>1, <1>2, <1>3

-----------------------------------------------------------------------------
(* Who owes a notice still has the task it is about                         *)

\* A step of the owner's that leaves the workers and what they owe alone, or
\* one of a worker's that ends what it does not owe for.
BusyKept ==
  \A w \in Workers : \/ worker'[w] = worker[w] /\ owed'[w] = owed[w]
                     \/ owed'[w] # "none" => worker'[w].pc # "idle"

LEMMA OwedKept ==
  ASSUME OwedBusy, BusyKept
  PROVE  OwedBusy'
  BY DEF OwedBusy, BusyKept

\* A step of one worker's.
OnlyMoves(w) == \A v \in Workers : v # w => worker'[v] = worker[v]

LEMMA WorkMovesOne ==
  ASSUME TypeInv, NEW w \in Workers, DocumentStep(w) \/ WorkerStep(w)
  PROVE  OnlyMoves(w)
<1>1. worker \in [Workers -> WorkerMemory]
  BY DEF TypeInv, TypeOK
<1>2. \E memory : worker' = [worker EXCEPT ![w] = memory]
  <2>1. CASE \E pc : Advance(w, pc)
    <3>1. PICK pc : Advance(w, pc)
      BY <2>1
    <3>2. worker' = [worker EXCEPT ![w] = [worker[w] EXCEPT !.pc = pc]]
      BY <3>1 DEF Advance
    <3> QED
      BY <3>2
  <2>2. CASE \E pc, value : Remember(w, pc, value)
    <3>1. PICK pc, value : Remember(w, pc, value)
      BY <2>2
    <3>2. worker' = [worker EXCEPT ![w] = [worker[w] EXCEPT !.pc = pc, !.revision = value]]
      BY <1>1, <3>1 DEF Remember, WorkerMemory
    <3> QED
      BY <3>2
  <2>3. CASE DocumentStep(w)
    <3>1. (\E pc : Advance(w, pc)) \/ \E pc, value : Remember(w, pc, value)
      <4>1. CASE Retain(w) \/ PreservePacket(w) \/ \E lacking \in BOOLEAN : SavePacket(w, lacking)
        <5>1. \E serial, lacking : AfterPacket(w, serial, lacking)
          BY <4>1 DEF Retain, PreservePacket, SavePacket
        <5> QED
          BY <5>1 DEF AfterPacket
      <4>2. CASE \/ StartPreparing(w) \/ QueueInspection(w) \/ RouteUnsupported(w)
                 \/ ConfirmLease(w) \/ DropInspection(w) \/ \E k \in Keys : QueueAnswers(w, k)
        BY <4>2 DEF StartPreparing, QueueInspection, RouteUnsupported, ConfirmLease,
                    DropInspection, QueueAnswers
      <4>3. CASE Draft(w) \/ Look(w)
        BY <4>3 DEF Draft, Look
      <4>4. CASE \E k \in Keys, status \in Statuses : SaveInspection(w, k, status)
        BY <4>4 DEF SaveInspection
      <4> QED
        BY <2>3, <4>1, <4>2, <4>3, <4>4 DEF DocumentStep
    <3> QED
      BY <2>1, <2>2, <3>1
  <2>4. CASE ReadRevision(w)
    BY <2>2, <2>4 DEF ReadRevision, Remember
  <2>5. CASE Acknowledge(w) \/ GiveUp(w)
    BY <2>5 DEF Acknowledge, GiveUp
  <2>6. CASE \/ Begin(w) \/ AbortBeforeDispatch(w) \/ AuthorizeDispatch(w) \/ Click(w)
             \/ Respond(w) \/ ConfirmReceipt(w) \/ RecordDefinitiveRejection(w)
             \/ Lookup(w) \/ ReconcileEvidence(w)
    <3>1. \E pc : Advance(w, pc)
      BY <2>6 DEF Begin, AbortBeforeDispatch, AuthorizeDispatch, Click, Respond,
                  ConfirmReceipt, RecordDefinitiveRejection, Lookup, ReconcileEvidence
    <3> QED
      BY <2>1, <3>1
  <2> QED
    BY <2>3, <2>4, <2>5, <2>6 DEF WorkerStep
<1> QED
  BY <1>1, <1>2 DEF OnlyMoves

LEMMA BusyStep ==
  ASSUME NEW w \in Workers, WorkerStep(w)
  PROVE  worker[w] # Idle
<1>1. worker[w] # Idle \/ worker[w].pc # "idle"
  BY DEF WorkerStep, ReadRevision, Begin, AbortBeforeDispatch, AuthorizeDispatch, Click,
         MayClick, Respond, ConfirmReceipt, RecordDefinitiveRejection, Lookup,
         ReconcileEvidence, Acknowledge, GiveUp
<1> QED
  BY <1>1 DEF Idle

LEMMA WorkOwes ==
  ASSUME TypeInv, NoticesTypeOK, NEW w \in Workers, Work(w)
  PROVE  BusyKept
<1>1. OnlyMoves(w)
  BY WorkMovesOne DEF Work
<1>2. owed' = [owed EXCEPT ![w] = OwedFor(w)]
  BY DEF Work
<1>3. OwedFor(w) # "none" => worker'[w].pc = "settled"
  BY DEF OwedFor
<1> QED
  BY <1>1, <1>2, <1>3 DEF BusyKept, OnlyMoves, NoticesTypeOK

LEMMA RecordOwes ==
  ASSUME NoticesTypeOK, NEW w \in Workers, RecordNotice(w)
  PROVE  BusyKept
  BY DEF RecordNotice, prepVars, vars, workVars, BusyKept, NoticesTypeOK

LEMMA LoseOwes ==
  ASSUME TypeInv, NoticesTypeOK, NEW w \in Workers, LoseNotice(w)
  PROVE  BusyKept
<1>1. worker' = [worker EXCEPT ![w] = Idle] /\ owed' = [owed EXCEPT ![w] = "none"]
  BY DEF LoseNotice, Crash, GiveUp
<1> QED
  BY <1>1 DEF BusyKept, NoticesTypeOK, TypeInv, TypeOK

LEMMA BesideOwes ==
  ASSUME TypeInv, NoticesTypeOK, Beside
  PROVE  BusyKept
<1>1. UNCHANGED owed
  BY DEF Beside
<1>2. CASE UNCHANGED worker
  BY <1>1, <1>2 DEF BusyKept
<1>3. ASSUME NEW w \in Workers, ClaimTask(w)
      PROVE  BusyKept
  <2>1. PICK t \in TaskIds :
          worker' = [worker EXCEPT ![w] =
            [pc |-> "claimed", task |-> t, fence |-> nextFence + 1, revision |-> 0]]
    BY <1>3 DEF ClaimTask
  <2> DEFINE memory == [pc |-> "claimed", task |-> t, fence |-> nextFence + 1, revision |-> 0]
  <2>2. worker' = [worker EXCEPT ![w] = memory] /\ memory.pc # "idle"
    BY <2>1
  <2> HIDE DEF memory
  <2> QED
    BY <1>1, <2>2 DEF BusyKept, TypeInv, TypeOK
<1>4. \/ UNCHANGED worker
      \/ \E w \in Workers : ClaimTask(w)
  BY DEF Beside, Poll, PollNothing, RenewLease, EmployerAnswer, workVars
<1> QED
  BY <1>2, <1>3, <1>4

\* The owner's steps, and what happens besides.
LEMMA OwnerOwes ==
  ASSUME OwnerDecision \/ Meanwhile \/ UNCHANGED excVars
  PROVE  BusyKept
<1>1. UNCHANGED <<worker, owed>>
  <2>1. CASE UNCHANGED excVars
    BY <2>1 DEF excVars, prepVars, vars, workVars, noticeVars
  <2>2. CASE OwnerDecision
    <3>1. CASE \E a \in Apps : Inbox(a) \/ ApproveAnswer(a)
      BY <3>1 DEF Inbox, ApproveAnswer, Resume, prepVars, vars, workVars
    <3>2. CASE \E a \in Apps, blocker \in Blockers : Skip(a, blocker)
      BY <3>2 DEF Skip, workVars
    <3>3. CASE \E k \in Keys : Retry(k) \/ Rebuild(k)
      BY <3>3 DEF Retry, Resume, Rebuild, workVars, noticeVars
    <3>4. CASE \E a \in Apps : Generate(a)
      BY <3>4 DEF Generate, RequestPacket, vars, workVars, noticeVars
    <3>5. CASE \E r \in requests : EndGeneration(r)
      BY <3>5 DEF EndGeneration, SaveRequested, LoseRequest, vars, workVars
    <3> QED
      BY <2>2, <3>1, <3>2, <3>3, <3>4, <3>5 DEF OwnerDecision
  <2>3. CASE Meanwhile
    <3>1. UNCHANGED owed
      BY <2>3 DEF Meanwhile, noticeVars
    <3>2. CASE Matching \/ PublishNewProfile
      BY <3>1, <3>2 DEF Matching, Qualify, SaveAssessment, workVars, PublishNewProfile,
                        PublishProfile
    <3>3. CASE \E a \in Apps, letter \in BOOLEAN : Invalidate(a, letter)
      BY <3>1, <3>3 DEF Invalidate
    <3>4. CASE OwnerSubmissionStep
      BY <3>1, <3>4 DEF OwnerSubmissionStep, Save, SaveAuthorization, RevokeAuthorization,
                        workVars
    <3> QED
      BY <2>3, <3>2, <3>3, <3>4 DEF Meanwhile
  <2> QED
    BY <2>1, <2>2, <2>3
<1> QED
  BY <1>1 DEF BusyKept

-----------------------------------------------------------------------------
(* The invariant                                                            *)

LEMMA ExcInitial == ExcInit => ExcInv
<1> SUFFICES ASSUME ExcInit PROVE ExcInv
  OBVIOUS
<1>1. PrepInit /\ requests = {}
  BY DEF ExcInit, PrepInit, NothingPrepared
<1>2. TypeInv
  BY <1>1, PrepInitial DEF PrepInv, PrepTypeInv
<1>3. \A a \in Apps : ~Skipped(a)
  BY <1>1 DEF PrepInit, AppsIn, Skipped
<1>4. TablesInv
  BY <1>1, <1>2, <1>3 DEF TablesInv, TypedInv, RequestsTyped, SkippedUndrafted
<1>5. NoticesTypeOK /\ OwedBusy /\ BlockIsShown
  BY DEF ExcInit, NoticesTypeOK, OwedBusy, BlockIsShown
<1> QED
  BY <1>4, <1>5 DEF ExcInv

\* All steps keep the tables typed, and all but two let what is skipped stand.
LEMMA TypedStep ==
  ASSUME TypedInv, [ExcNext]_excVars
  PROVE  /\ TypedInv'
         /\ \/ SkipsStand
            \/ \E a \in Apps, blocker \in Blockers : Skip(a, blocker)
            \/ "invalidate" \in Events
<1>1. ASSUME NEW w \in Workers, Work(w)
      PROVE  TypedInv' /\ SkipsStand
  <2>1. DocumentStep(w) \/ SubmissionStep
    BY <1>1 DEF Work, SubmissionStep
  <2> QED
    BY <2>1, DocumentStepStands, SubmissionStepStands
<1>2. CASE (\E w \in Workers : LoseNotice(w)) \/ Beside
  <2>1. SubmissionStep
    BY <1>2 DEF LoseNotice, Beside, SubmissionStep, WorkerStep
  <2> QED
    BY <2>1, SubmissionStepStands
<1>3. ASSUME UNCHANGED prepVars
      PROVE  TypedInv' /\ SkipsStand
  <2>1. TypeInv /\ UNCHANGED vars /\ UNCHANGED requests
    BY <1>3 DEF prepVars, docVars, TypedInv
  <2>2. TypeInv'
    BY <2>1, TypeStep
  <2>3. UNCHANGED <<apps, worker>>
    BY <2>1 DEF vars, queueVars, workVars
  <2> QED
    BY <2>1, <2>2, <2>3, SameStands, SameDraftsStand, StandsFrom
<1>4. ASSUME NEW w \in Workers, RecordNotice(w)
      PROVE  UNCHANGED prepVars
  BY <1>4 DEF RecordNotice
<1>5. ASSUME OwnerDecision, ~\E a \in Apps, blocker \in Blockers : Skip(a, blocker)
      PROVE  TypedInv' /\ SkipsStand
  <2>1. ASSUME NEW k \in Keys, Resume(k) \/ Rebuild(k)
        PROVE  TypedInv' /\ SkipsStand
    BY <2>1, ResumeStands, RebuildStands
  <2>2. ASSUME NEW a \in Apps, Inbox(a) \/ ApproveAnswer(a)
        PROVE  TypedInv' /\ SkipsStand
    <3>1. UNCHANGED prepVars \/ \E k \in Keys : Resume(k)
      BY <2>2 DEF Inbox, ApproveAnswer
    <3> QED
      BY <1>3, <2>1, <3>1
  <2>3. ASSUME NEW k \in Keys, Retry(k)
        PROVE  TypedInv' /\ SkipsStand
    BY <2>1, <2>3 DEF Retry
  <2>4. ASSUME NEW a \in Apps, Generate(a)
        PROVE  TypedInv' /\ SkipsStand
    BY <2>4, RequestStands DEF Generate
  <2>5. ASSUME NEW r \in requests, EndGeneration(r)
        PROVE  TypedInv' /\ SkipsStand
    <3>1. ("owner" \in lacks) \in BOOLEAN
      OBVIOUS
    <3> QED
      BY <2>5, <3>1, SaveRequestedStands, RequestStands DEF EndGeneration
  <2> QED
    BY <1>5, <2>1, <2>2, <2>3, <2>4, <2>5 DEF OwnerDecision
<1>6. CASE Matching \/ OwnerSubmissionStep \/ PublishNewProfile
  BY <1>6, MatchingStands, OwnerSubmissionStepStands, PublishStands
<1>7. ASSUME NEW a \in Apps, NEW letter \in BOOLEAN, Invalidate(a, letter)
      PROVE  TypedInv'
  BY <1>7, InvalidateTyped
<1>8. ASSUME NEW a \in Apps, NEW blocker \in Blockers, Skip(a, blocker)
      PROVE  TypedInv'
  BY <1>8, SkipTyped
<1>9. CASE UNCHANGED excVars
  BY <1>3, <1>9 DEF excVars
<1> QED
  BY <1>1, <1>2, <1>3, <1>4, <1>5, <1>6, <1>7, <1>8, <1>9 DEF ExcNext, Meanwhile

LEMMA TablesStep ==
  ASSUME ~SkipsDrafts, "invalidate" \notin Events, TablesInv, [ExcNext]_excVars
  PROVE  TablesInv' /\ SkippedKept
<1>1. TypedInv
  BY DEF TablesInv
<1> QED
  BY <1>1, TypedStep, SkipKeeps, StandingKeeps

LEMMA NoticesStep ==
  ASSUME ExcInv, SkippedKept, [ExcNext]_excVars
  PROVE  NoticesTypeOK' /\ BlockIsShown'
<1>1. TypeInv /\ NoticesTypeOK /\ OwedBusy /\ BlockIsShown
  BY DEF ExcInv, TablesInv, TypedInv
<1>2. ASSUME NEW w \in Workers, Work(w)
      PROVE  NoticesTypeOK' /\ BlockIsShown'
  <2>1. worker[w] # Idle
    <3>1. CASE DocumentStep(w)
      <4>1. worker[w].pc # "idle"
        BY <3>1, DocumentStepParts DEF ExcInv, TablesInv, WorkerStands
      <4> QED
        BY <4>1 DEF Idle
    <3>2. CASE WorkerStep(w)
      BY <3>2, BusyStep
    <3> QED
      BY <1>2, <3>1, <3>2 DEF Work
  <2>2. AppOfWorker(w) \in Apps
    BY <1>1, <2>1, QueueAssumption DEF TypeInv, WorkerHasTask, TaskIds, AppOfWorker
  <2> QED
    BY <1>1, <1>2, <2>2, WorkNotices
<1>3. ASSUME NEW w \in Workers, RecordNotice(w)
      PROVE  NoticesTypeOK' /\ BlockIsShown'
  <2>1. worker[w].pc # "idle"
    BY <1>1, <1>3 DEF RecordNotice, OwedBusy
  <2> QED
    BY <1>1, <1>3, <2>1, BusyWorker, RecordNotices
<1>4. CASE (\E w \in Workers : LoseNotice(w)) \/ Beside
  BY <1>1, <1>4, BesideNotices
<1>5. CASE OwnerDecision
  <2>1. ASSUME NEW a \in Apps, Inbox(a) \/ ApproveAnswer(a)
        PROVE  NoticesTypeOK' /\ BlockIsShown'
    BY <1>1, <2>1, InboxNotices, AnswerNotices
  <2>2. ASSUME NEW a \in Apps, NEW blocker \in Blockers, Skip(a, blocker)
        PROVE  NoticesTypeOK' /\ BlockIsShown'
    <3>1. Skipped(a)'
      BY <1>1, <2>2, MoveAppKeeps DEF Skip, Skipped
    <3> QED
      BY <1>1, <2>2, <3>1, SkipNotices
  <2>3. ASSUME NEW k \in Keys, Retry(k) \/ Rebuild(k)
        PROVE  NoticesTypeOK' /\ BlockIsShown'
    <3>1. Retry(k) \/ UNCHANGED noticeVars
      BY <2>3 DEF Rebuild
    <3> QED
      BY <1>1, <3>1, RetryNotices, GenerateNotices
  <2> QED
    BY <1>1, <1>5, <2>1, <2>2, <2>3, GenerateNotices DEF OwnerDecision
<1>6. CASE Meanwhile \/ UNCHANGED excVars
  <2>1. UNCHANGED noticeVars
    BY <1>6 DEF Meanwhile, excVars
  <2> QED
    BY <1>1, <2>1, GenerateNotices
<1> QED
  BY <1>2, <1>3, <1>4, <1>5, <1>6 DEF ExcNext

LEMMA ExcStep ==
  ASSUME ~SkipsDrafts, "invalidate" \notin Events, ExcInv, [ExcNext]_excVars
  PROVE  ExcInv' /\ SkippedKept
<1>1. TypeInv /\ TablesInv /\ NoticesTypeOK /\ OwedBusy
  BY DEF ExcInv, TablesInv, TypedInv
<1>2. TablesInv' /\ SkippedKept
  BY <1>1, TablesStep
<1>3. NoticesTypeOK' /\ BlockIsShown'
  BY <1>2, NoticesStep
<1>4. BusyKept
  BY <1>1, WorkOwes, RecordOwes, LoseOwes, BesideOwes, OwnerOwes DEF ExcNext
<1> QED
  BY <1>1, <1>2, <1>3, <1>4, OwedKept DEF ExcInv

LEMMA ExcInvariance ==
  ASSUME ~SkipsDrafts, "invalidate" \notin Events
  PROVE  ExcSpec => []ExcInv
<1>1. ExcInv /\ [ExcNext]_excVars => ExcInv'
  BY ExcStep
<1> QED
  BY <1>1, ExcInitial, PTL DEF ExcSpec

\* An application that was skipped stays skipped: inspections, retries,
\* rebuilds, answers, new profiles, late results and whatever expires under a
\* crashed worker all look at its state before they move it, and the packet
\* that is saved without looking is not drafted for one (skip, resumeIn and
\* rebuild, and the states recoverSubmitTasks and saveProfile leave alone).
THEOREM SkipsHold ==
  ASSUME ~SkipsDrafts, "invalidate" \notin Events
  PROVE  ExcSpec => SkippedStays
<1>1. ExcInv /\ [ExcNext]_excVars =>
        [\A a \in Apps : apps[a].state = "SKIPPED" => apps'[a].state = "SKIPPED"]_excVars
  BY ExcStep DEF SkippedKept, Skipped
<1> QED
  BY <1>1, ExcInvariance, PTL DEF ExcSpec, SkippedStays

\* A question that blocks an application is in the inbox for as long as it does,
\* however drafts, inspections, approvals, crashes and other notices of the
\* application come and go (resolveQuestion, record, approveAnswerIn and inbox),
\* unless the application was skipped.
THEOREM QuestionsShown ==
  ASSUME ~SkipsDrafts, "invalidate" \notin Events
  PROVE  ExcSpec => []BlockIsShown
<1>1. ExcInv => BlockIsShown
  BY DEF ExcInv
<1> QED
  BY <1>1, ExcInvariance, PTL

-----------------------------------------------------------------------------
(* What is shown as ready.  Rebuilding may queue an inspection of a packet  *)
(* that lacks an answer, so that InspectedComplete of PreparationProofs     *)
(* does not hold here; but no worker looks at such a packet.                *)

\* A worker that is at a task was handed it from a row of the queue ...
RowsKnown ==
  \A w \in Workers : worker[w].pc # "idle" => tasks[worker[w].task].state # "absent"

\* ... so that no other packet takes the place of the one it inspects, and this
\* one lacked nothing if it is still the newest.
InspectsComplete(w) ==
  /\ worker[w].task.type = "inspect"
  /\ CompletePacket(AppOfWorker(w), looks[worker[w].task.key])

Inspecting == {"looked", "renewed"}

InspectedKnown == \A w \in Workers : worker[w].pc \in Inspecting => InspectsComplete(w)

ReadyInv ==
  /\ ReadyIsInspected /\ looks \in [Keys -> Nat]
  /\ RowsKnown /\ InspectedKnown

\* What every step keeps of it.
RowsKept == \A t \in TaskIds : tasks[t].state # "absent" => tasks'[t].state # "absent"

LooksKept ==
  looks' \in [Keys -> Nat] /\ \A k \in Keys : looks'[k] = looks[k] \/ Unused("inspect", k)

CompleteKept ==
  \A a \in Apps : \A serial \in Nat : CompletePacket(a, serial) => CompletePacket(a, serial)'

TaskStands(w) ==
  worker'[w].pc # "idle" =>
    \/ worker[w].pc # "idle" /\ worker'[w].task = worker[w].task
    \/ tasks'[worker'[w].task].state # "absent"

LookStands(w) ==
  worker'[w].pc \in Inspecting =>
    /\ worker[w].pc # "idle" /\ worker'[w].task = worker[w].task
    /\ worker[w].pc \in Inspecting \/ InspectsComplete(w)

WorkersStand == \A w \in Workers : TaskStands(w) /\ LookStands(w)

ReadyStands == RowsKept /\ LooksKept /\ CompleteKept /\ WorkersStand /\ ReadyIsInspected'

LEMMA ReadyFrom ==
  ASSUME TypeInv, TypeInv', ReadyInv, ReadyStands
  PROVE  ReadyInv'
<1>1. RowsKnown'
  <2> SUFFICES ASSUME NEW w \in Workers, worker'[w].pc # "idle"
               PROVE  tasks'[worker'[w].task].state # "absent"
    BY DEF RowsKnown
  <2>1. CASE worker[w].pc # "idle" /\ worker'[w].task = worker[w].task
    <3>1. worker[w].task \in TaskIds /\ tasks[worker[w].task].state # "absent"
      BY <2>1, BusyWorker DEF ReadyInv, RowsKnown
    <3> QED
      BY <2>1, <3>1 DEF ReadyStands, RowsKept
  <2> QED
    BY <2>1 DEF ReadyStands, WorkersStand, TaskStands
<1>2. InspectedKnown'
  <2> SUFFICES ASSUME NEW w \in Workers, worker'[w].pc \in Inspecting
               PROVE  InspectsComplete(w)'
    BY DEF InspectedKnown
  <2>1. /\ worker[w].pc # "idle" /\ worker'[w].task = worker[w].task
        /\ InspectsComplete(w)
    BY DEF ReadyStands, WorkersStand, LookStands, ReadyInv, InspectedKnown
  <2>2. PICK t \in TaskIds : t = worker[w].task
    BY <2>1, BusyWorker
  <2>3. t.type = "inspect" /\ t.key \in Keys /\ AppOf[t.key] \in Apps
    BY <2>1, <2>2, BusyWorker DEF InspectsComplete, AppOfWorker
  <2>4. Task("inspect", t.key) = t
    BY <2>3 DEF Task, TaskIds
  <2>5. tasks[t].state # "absent"
    BY <2>1, <2>2 DEF ReadyInv, RowsKnown
  <2>6. looks'[t.key] = looks[t.key]
    BY <2>3, <2>4, <2>5 DEF ReadyStands, LooksKept, Unused
  <2>7. PICK n \in Nat : n = looks[t.key]
    BY <2>3 DEF ReadyInv
  <2>8. CompletePacket(AppOf[t.key], n)
    BY <2>1, <2>2, <2>7 DEF InspectsComplete, AppOfWorker
  <2>9. CompletePacket(AppOf[t.key], n)'
    BY <2>3, <2>8 DEF ReadyStands, CompleteKept
  <2>10. /\ worker'[w].task.type = "inspect" /\ worker'[w].task.key = t.key
         /\ looks'[t.key] = n
    BY <2>1, <2>2, <2>3, <2>6, <2>7
  <2> QED
    BY <2>9, <2>10 DEF InspectsComplete, AppOfWorker, CompletePacket
<1> QED
  BY <1>1, <1>2 DEF ReadyInv, ReadyStands, LooksKept

\* A step that leaves the documents as they are and puts nothing on offer.
LEMMA DocumentsStand ==
  ASSUME ReadyInv, AppsQuiet, UNCHANGED <<packet, prep, latest, looks, incomplete>>
  PROVE  LooksKept /\ CompleteKept /\ ReadyIsInspected'
<1>1. LooksKept /\ CompleteKept
  BY DEF ReadyInv, LooksKept, CompleteKept, CompletePacket
<1>2. ReadyIsInspected'
  BY DEF ReadyInv, ReadyIsInspected, AppsQuiet
<1> QED
  BY <1>1, <1>2

LEMMA SameWorkersStand ==
  ASSUME UNCHANGED worker
  PROVE  WorkersStand
  BY DEF WorkersStand, TaskStands, LookStands, Inspecting

LEMMA SameAppsQuiet ==
  ASSUME UNCHANGED apps
  PROVE  AppsQuiet
  BY DEF AppsQuiet

-----------------------------------------------------------------------------
(* No row of the queue is taken away                                        *)

LEMMA RowChanged ==
  ASSUME TypeInv, NEW t \in TaskIds, NEW row, row.state # "absent",
         tasks' = [tasks EXCEPT ![t] = row]
  PROVE  RowsKept /\ tasks'[t] = row
  BY DEF TypeInv, TypeOK, QueueTypeOK, RowsKept

LEMMA RecoveryRows ==
  ASSUME TypeInv, NEW T, NEW cancelled \in BOOLEAN, RecoverTasks(T, cancelled)
  PROVE  RowsKept
<1> SUFFICES ASSUME NEW t \in TaskIds, tasks[t].state # "absent"
             PROVE  tasks'[t].state # "absent"
  BY DEF RowsKept
<1> QED
  BY RecoveredRow DEF RecoverTasks

LEMMA ClaimRows ==
  ASSUME TypeInv, NEW types, NEW t \in TaskIds, Claim(types, t)
  PROVE  RowsKept /\ tasks'[t].state # "absent"
<1> DEFINE rows == RecoveredTasks(Expired, FALSE)
           row == [state |-> "leased", fence |-> nextFence + 1,
                   attempts |-> rows[t].attempts + 1, lease |-> LeaseTerm]
<1>1. rows \in [TaskIds -> TaskRow]
  BY RecoverTypes DEF TypeInv, TypeOK
<1>2. \A u \in TaskIds : tasks[u].state # "absent" => rows[u].state # "absent"
  BY RecoveredRow
<1>3. tasks' = [rows EXCEPT ![t] = row] /\ row.state = "leased"
  BY DEF Claim
<1> HIDE DEF rows, row
<1>4. tasks'[t] = row /\ \A u \in TaskIds : u # t => tasks'[u] = rows[u]
  BY <1>1, <1>3
<1> QED
  BY <1>2, <1>3, <1>4 DEF RowsKept

LEMMA LeaseRows ==
  ASSUME TypeInv, NEW t \in TaskIds, NEW lease, tasks' = [tasks EXCEPT ![t].lease = lease],
         tasks[t].state # "absent"
  PROVE  RowsKept
<1> DEFINE row == [tasks[t] EXCEPT !.lease = lease]
<1>1. tasks[t] \in TaskRow
  BY DEF TypeInv, TypeOK, QueueTypeOK
<1>2. row.state = tasks[t].state /\ tasks' = [tasks EXCEPT ![t] = row]
  BY <1>1 DEF TaskRow
<1> HIDE DEF row
<1> QED
  BY <1>2, RowChanged

LEMMA RenewRows ==
  ASSUME TypeInv, NEW t \in TaskIds, NEW fence, Renew(t, fence)
  PROVE  RowsKept /\ UNCHANGED apps
<1>1. /\ tasks[t].state # "absent" /\ tasks' = [tasks EXCEPT ![t].lease = LeaseTerm]
      /\ UNCHANGED apps
  BY DEF Renew, HasLease
<1> QED
  BY <1>1, LeaseRows

\* complete and fail.
LEMMA EndRows ==
  ASSUME TypeInv, NEW t \in TaskIds, NEW fence,
         Complete(t, fence) \/ \E retryable \in BOOLEAN : Fail(t, fence, retryable)
  PROVE  RowsKept
<1>1. tasks[t] \in TaskRow
  BY DEF TypeInv, TypeOK, QueueTypeOK
<1>2. CASE RecoverTasks({t}, FALSE)
  BY <1>2, RecoveryRows
<1>3. ASSUME NEW state \in {"completed", "retry_wait", "dead"},
             tasks' = [tasks EXCEPT ![t].state = state, ![t].lease = 0]
      PROVE  RowsKept
  <2> DEFINE row == [tasks[t] EXCEPT !.state = state, !.lease = 0]
  <2>1. row.state = state /\ tasks' = [tasks EXCEPT ![t] = row]
    BY <1>1, <1>3 DEF TaskRow
  <2> HIDE DEF row
  <2> QED
    BY <2>1, RowChanged
<1>4. CASE Complete(t, fence)
  BY <1>3, <1>4 DEF Complete
<1>5. CASE \E retryable \in BOOLEAN : Fail(t, fence, retryable)
  BY <1>2, <1>3, <1>5 DEF Fail
<1> QED
  BY <1>4, <1>5

LEMMA EnqueueRows ==
  ASSUME TypeInv, NEW type \in {"prepare", "inspect"}, NEW k \in Keys, Enqueue(type, k)
  PROVE  RowsKept
<1>1. Task(type, k) \in TaskIds
  BY PreparationAssumption DEF Task, TaskIds
<1>2. ReadyRow.state = "ready"
  BY DEF ReadyRow, NoTaskRow
<1> QED
  BY <1>1, <1>2, RowChanged DEF Enqueue

LEMMA SaveRows ==
  ASSUME TypeInv, NEW k \in Keys, NEW status, NEW queueSubmit,
         SavePreparation(k, status, queueSubmit)
  PROVE  RowsKept
<1>1. Task("submit", k) \in TaskIds
  BY QueueAssumption DEF Task, TaskIds
<1>2. ReadyRow.state = "ready"
  BY DEF ReadyRow, NoTaskRow
<1>3. UNCHANGED tasks \/ tasks' = [tasks EXCEPT ![Task("submit", k)] = ReadyRow]
  BY DEF SavePreparation
<1> QED
  BY <1>1, <1>2, <1>3, RowChanged DEF RowsKept

-----------------------------------------------------------------------------
(* Which workers come to look at a packet                                   *)

LEMMA OneWorkerStands ==
  ASSUME TypeInv, NEW w \in Workers, OnlyMoves(w), worker[w].pc # "idle",
         worker'[w].pc # "idle" => worker'[w].task = worker[w].task,
         worker'[w].pc \in Inspecting =>
           worker[w].pc \in Inspecting \/ InspectsComplete(w)
  PROVE  WorkersStand
<1>1. "idle" \notin Inspecting
  BY DEF Inspecting
<1>2. TaskStands(w) /\ LookStands(w)
  BY <1>1 DEF TaskStands, LookStands
<1>3. ASSUME NEW v \in Workers, v # w
      PROVE  TaskStands(v) /\ LookStands(v)
  BY <1>1, <1>3 DEF OnlyMoves, TaskStands, LookStands
<1> QED
  BY <1>2, <1>3 DEF WorkersStand

LEMMA ForgottenStands ==
  ASSUME TypeInv, NEW w \in Workers, worker' = [worker EXCEPT ![w] = Idle]
  PROVE  WorkersStand
<1>1. worker'[w] = Idle /\ \A v \in Workers : v # w => worker'[v] = worker[v]
  BY DEF TypeInv, TypeOK
<1>2. TaskStands(w) /\ LookStands(w)
  BY <1>1 DEF TaskStands, LookStands, Inspecting, Idle
<1>3. ASSUME NEW v \in Workers, v # w
      PROVE  TaskStands(v) /\ LookStands(v)
  BY <1>1, <1>3 DEF TaskStands, LookStands, Inspecting
<1> QED
  BY <1>2, <1>3 DEF WorkersStand

LEMMA AdvancedStage ==
  ASSUME TypeInv, NEW w \in Workers, NEW pc, Advance(w, pc)
  PROVE  worker'[w].pc = pc /\ worker'[w].task = worker[w].task
<1> DEFINE memory == [worker[w] EXCEPT !.pc = pc]
<1>1. worker \in [Workers -> WorkerMemory] /\ worker[w] \in WorkerMemory
  BY DEF TypeInv, TypeOK
<1>2. memory.pc = pc /\ memory.task = worker[w].task
  BY <1>1 DEF WorkerMemory
<1>3. worker' = [worker EXCEPT ![w] = memory]
  BY DEF Advance
<1> HIDE DEF memory
<1> QED
  BY <1>1, <1>2, <1>3

LEMMA RememberedStage ==
  ASSUME TypeInv, NEW w \in Workers, NEW pc, NEW value, Remember(w, pc, value)
  PROVE  worker'[w].pc = pc /\ worker'[w].task = worker[w].task
<1> DEFINE memory == [worker[w] EXCEPT !.pc = pc, !.revision = value]
<1>1. worker \in [Workers -> WorkerMemory] /\ worker[w] \in WorkerMemory
  BY DEF TypeInv, TypeOK
<1>2. memory.pc = pc /\ memory.task = worker[w].task
  BY <1>1 DEF WorkerMemory
<1>3. worker' = [worker EXCEPT ![w] = memory]
  BY <1>1 DEF Remember
<1> HIDE DEF memory
<1> QED
  BY <1>1, <1>2, <1>3

\* The protocol's own steps lead to no inspection.
LEMMA WorkerStepReady ==
  ASSUME TypeInv, NEW w \in Workers, WorkerStep(w)
  PROVE  RowsKept /\ WorkersStand
<1>1. worker[w] # Idle /\ OnlyMoves(w)
  BY BusyStep, WorkMovesOne
<1>2. worker[w].task \in TaskIds
  BY <1>1 DEF TypeInv, WorkerHasTask
<1>3. CASE Acknowledge(w) \/ GiveUp(w)
  <2>1. /\ worker' = [worker EXCEPT ![w] = Idle]
        /\ \/ UNCHANGED queueVars
           \/ Complete(worker[w].task, worker[w].fence)
           \/ \E retryable \in BOOLEAN : Fail(worker[w].task, worker[w].fence, retryable)
    BY <1>3 DEF Acknowledge, GiveUp
  <2>2. RowsKept
    BY <1>2, <2>1, EndRows DEF queueVars, RowsKept
  <2> QED
    BY <2>1, <2>2, ForgottenStands
<1>4. ASSUME WorkerStep(w), ~(Acknowledge(w) \/ GiveUp(w))
      PROVE  RowsKept /\ WorkersStand
  <2>1. worker[w].pc # "idle"
    BY <1>4
    DEF WorkerStep, ReadRevision, Begin, AbortBeforeDispatch, AuthorizeDispatch, Click,
        MayClick, Respond, ConfirmReceipt, RecordDefinitiveRejection, Lookup,
        ReconcileEvidence
  <2>2. UNCHANGED tasks
    BY <1>4
    DEF WorkerStep, ReadRevision, Begin, AbortBeforeDispatch, AuthorizeDispatch, Click,
        Respond, ConfirmReceipt, RecordDefinitiveRejection, Lookup, ReconcileEvidence,
        queueVars
  <2>3. \/ \E pc \in {"begun", "settled", "permitted", "clicked", "accepted", "refused",
                      "found", "missing"} : Advance(w, pc)
        \/ Remember(w, "read", apps[AppOfWorker(w)].revision)
    BY <1>4
    DEF WorkerStep, ReadRevision, Begin, AbortBeforeDispatch, AuthorizeDispatch, Click,
        Respond, ConfirmReceipt, RecordDefinitiveRejection, Lookup, ReconcileEvidence,
        Remember
  <2>4. worker'[w].pc \notin Inspecting /\ worker'[w].task = worker[w].task
    BY <2>3, AdvancedStage, RememberedStage DEF Inspecting
  <2> QED
    BY <1>1, <2>1, <2>2, <2>4, OneWorkerStands DEF RowsKept
<1> QED
  BY <1>3, <1>4

LEMMA SubmissionStepReady ==
  ASSUME TypeInv, ReadyInv, SubmissionStep
  PROVE  ReadyStands
<1>1. UNCHANGED docVars
  BY DEF SubmissionStep
<1>2. LooksKept /\ CompleteKept /\ ReadyIsInspected'
  BY <1>1, SubmissionStepQuiet, DocumentsStand DEF docVars
<1>3. RowsKept /\ WorkersStand
  <2>1. ASSUME NEW w \in Workers, ClaimTask(w)
        PROVE  RowsKept /\ WorkersStand
    <3>1. PICK types \in PollTypes, t \in TaskIds :
            /\ Claim(types, t)
            /\ worker' = [worker EXCEPT ![w] =
                 [pc |-> "claimed", task |-> t, fence |-> nextFence + 1, revision |-> 0]]
      BY <2>1 DEF ClaimTask
    <3> DEFINE memory == [pc |-> "claimed", task |-> t, fence |-> nextFence + 1, revision |-> 0]
    <3>2. /\ worker' = [worker EXCEPT ![w] = memory]
          /\ memory.pc = "claimed" /\ memory.task = t
      BY <3>1
    <3> HIDE DEF memory
    <3>3. RowsKept /\ tasks'[t].state # "absent"
      BY <3>1, ClaimRows
    <3>4. worker'[w] = memory /\ \A v \in Workers : v # w => worker'[v] = worker[v]
      BY <3>2 DEF TypeInv, TypeOK
    <3>5. WorkersStand
      BY <3>2, <3>3, <3>4 DEF WorkersStand, TaskStands, LookStands, Inspecting
    <3> QED
      BY <3>3, <3>5
  <2>2. ASSUME NEW w \in Workers, PollNothing(w)
        PROVE  RowsKept /\ WorkersStand
    <3>1. RecoverTasks(Expired, FALSE) /\ UNCHANGED worker
      BY <2>2 DEF PollNothing, ClaimNothing, workVars
    <3> QED
      BY <3>1, RecoveryRows, SameWorkersStand
  <2>3. ASSUME NEW w \in Workers, Crash(w)
        PROVE  RowsKept /\ WorkersStand
    BY <2>3, ForgottenStands DEF Crash, queueVars, RowsKept
  <2>4. ASSUME NEW w \in Workers, RenewLease(w)
        PROVE  RowsKept /\ WorkersStand
    <3>1. worker[w].task \in TaskIds /\ Renew(worker[w].task, worker[w].fence) /\ UNCHANGED worker
      BY <2>4 DEF RenewLease, TypeInv, WorkerHasTask, workVars
    <3> QED
      BY <3>1, RenewRows, SameWorkersStand
  <2>5. ASSUME NEW f \in Fences, NEW answer, EmployerAnswer(f, answer)
        PROVE  RowsKept /\ WorkersStand
    BY <2>5, SameWorkersStand DEF EmployerAnswer, queueVars, RowsKept
  <2>6. ASSUME NEW t \in TaskIds, Elapse(t), UNCHANGED workVars
        PROVE  RowsKept /\ WorkersStand
    <3>1. tasks[t].state # "absent" /\ tasks' = [tasks EXCEPT ![t].lease = tasks[t].lease - 1]
      BY <2>6 DEF Elapse
    <3> QED
      BY <2>6, <3>1, LeaseRows, SameWorkersStand DEF workVars
  <2> QED
    BY <2>1, <2>2, <2>3, <2>4, <2>5, <2>6, WorkerStepReady DEF SubmissionStep, Poll
<1> QED
  BY <1>2, <1>3 DEF ReadyStands

-----------------------------------------------------------------------------
(* Work on documents                                                        *)

\* A worker gets to inspect a packet only by looking at one that is the newest.
LEMMA DocumentLooks ==
  ASSUME TypeInv, NEW w \in Workers, DocumentStep(w), worker'[w].pc \in Inspecting
  PROVE  Look(w) \/ worker[w].pc \in Inspecting
<1>1. ASSUME \E serial, lacking : AfterPacket(w, serial, lacking)
      PROVE  FALSE
  <2>1. Advance(w, "settled") \/ \E serial : Remember(w, "saved", serial)
    BY <1>1 DEF AfterPacket
  <2> QED
    BY <2>1, AdvancedStage, RememberedStage DEF Inspecting
<1>2. ASSUME Retain(w) \/ PreservePacket(w) \/ \E lacking \in BOOLEAN : SavePacket(w, lacking)
      PROVE  FALSE
  BY <1>1, <1>2 DEF Retain, PreservePacket, SavePacket
<1>3. ASSUME \/ StartPreparing(w) \/ QueueInspection(w) \/ RouteUnsupported(w)
             \/ DropInspection(w) \/ \E k \in Keys : QueueAnswers(w, k)
      PROVE  FALSE
  <2>1. Advance(w, "preparing") \/ Advance(w, "settled")
    BY <1>3 DEF StartPreparing, QueueInspection, RouteUnsupported, DropInspection, QueueAnswers
  <2> QED
    BY <2>1, AdvancedStage DEF Inspecting
<1>4. ASSUME Draft(w) \/ \E k \in Keys, status \in Statuses : SaveInspection(w, k, status)
      PROVE  FALSE
  <2>1. \/ Remember(w, "drafted", policy) \/ Remember(w, "unanswered", policy)
        \/ Advance(w, "settled")
    BY <1>4 DEF Draft, SaveInspection
  <2> QED
    BY <2>1, AdvancedStage, RememberedStage DEF Inspecting
<1>5. ASSUME ConfirmLease(w)
      PROVE  worker[w].pc \in Inspecting
  BY <1>5 DEF ConfirmLease, Inspecting
<1> QED
  BY <1>2, <1>3, <1>4, <1>5 DEF DocumentStep

LEMMA LookedComplete ==
  ASSUME TypeInv, NEW w \in Workers, Look(w), worker'[w].pc \in Inspecting,
         worker'[w].pc = "looked" => AppOfWorker(w) \notin incomplete
  PROVE  InspectsComplete(w)
<1> DEFINE a == AppOfWorker(w)
<1>1. worker[w].task.type = "inspect" /\ a \in Apps
  BY BusyWorker DEF Look
<1>2. ~Advance(w, "settled")
  BY AdvancedStage DEF Inspecting
<1>3. LooksAtNewest(w) /\ Remember(w, "looked", apps[a].revision)
  BY <1>2 DEF Look
<1>4. a \notin incomplete
  BY <1>3, RememberedStage
<1>5. packet[a].serial \in Nat /\ packet[a].serial = looks[worker[w].task.key]
  BY <1>1, <1>3 DEF LooksAtNewest, TypeInv, TypeOK, PacketRow
<1> QED
  BY <1>1, <1>4, <1>5 DEF InspectsComplete, CompletePacket

LEMMA DocumentRows ==
  ASSUME TypeInv, ReadyInv, NEW w \in Workers, DocumentStep(w), worker[w].task \in TaskIds
  PROVE  RowsKept /\ LooksKept
<1>1. worker[w].revision \in Nat
  BY DEF TypeInv, TypeOK, WorkerMemory
<1>2. CASE UNCHANGED <<tasks, looks>>
  BY <1>2 DEF RowsKept, LooksKept, ReadyInv
<1>3. CASE QueueInspection(w)
  <2>1. ASSUME NEW k \in Keys, Unused("inspect", k), Enqueue("inspect", k),
               looks' = [looks EXCEPT ![k] = worker[w].revision]
        PROVE  RowsKept /\ LooksKept
    <3>1. RowsKept
      BY <2>1, EnqueueRows
    <3> QED
      BY <1>1, <2>1, <3>1 DEF LooksKept, ReadyInv
  <2> QED
    BY <1>2, <1>3, <2>1 DEF QueueInspection
<1>4. ASSUME NEW k \in Keys, QueueAnswers(w, k)
      PROVE  RowsKept /\ LooksKept
  BY <1>4, EnqueueRows DEF QueueAnswers, LooksKept, ReadyInv
<1>5. ASSUME Renew(worker[w].task, worker[w].fence), UNCHANGED docVars
      PROVE  RowsKept /\ LooksKept
  BY <1>5, RenewRows DEF LooksKept, ReadyInv, docVars
<1>6. CASE Look(w) \/ ConfirmLease(w)
  BY <1>5, <1>6 DEF Look, ConfirmLease
<1>7. ASSUME NEW k \in Keys, NEW status \in Statuses, SaveInspection(w, k, status)
      PROVE  RowsKept /\ LooksKept
  BY <1>7, SaveRows DEF SaveInspection, LooksKept, ReadyInv, docVars
<1>8. CASE Retain(w) \/ StartPreparing(w) \/ Draft(w) \/ PreservePacket(w)
           \/ RouteUnsupported(w) \/ DropInspection(w)
           \/ \E lacking \in BOOLEAN : SavePacket(w, lacking)
  BY <1>2, <1>8
  DEF Retain, StartPreparing, Draft, PreservePacket, RouteUnsupported, DropInspection,
      SavePacket, queueVars, docVars
<1> QED
  BY <1>3, <1>4, <1>6, <1>7, <1>8 DEF DocumentStep

LEMMA SamePacketsComplete ==
  ASSUME UNCHANGED <<packet, incomplete>>
  PROVE  CompleteKept
  BY DEF CompleteKept, CompletePacket

LEMMA DocumentReady ==
  ASSUME TypeInv, ReadyInv, NEW w \in Workers, DocumentStep(w)
  PROVE  CompleteKept /\ ReadyIsInspected'
<1>1. worker[w].pc # "idle" /\ AppOfWorker(w) \in Apps
  <2>1. worker[w].pc # "idle"
    BY DEF DocumentStep, Retain, StartPreparing, Draft, PreservePacket, SavePacket,
      QueueInspection, Look, RouteUnsupported, ConfirmLease, DropInspection,
      SaveInspection, QueueAnswers
  <2> QED
    BY <2>1, BusyWorker
<1>2. ASSUME AppsQuiet, UNCHANGED <<packet, prep, latest, incomplete>>
      PROVE  CompleteKept /\ ReadyIsInspected'
  BY <1>2, SamePacketsComplete DEF ReadyInv, ReadyIsInspected, AppsQuiet
<1>3. CASE \/ Retain(w) \/ Draft(w) \/ PreservePacket(w) \/ QueueInspection(w)
           \/ Look(w) \/ ConfirmLease(w) \/ DropInspection(w)
           \/ \E k \in Keys : QueueAnswers(w, k)
  <2>1. UNCHANGED <<apps, packet, prep, latest, incomplete>>
    BY <1>3
    DEF Retain, Draft, PreservePacket, QueueInspection, Look, Renew, ConfirmLease,
        DropInspection, QueueAnswers, queueVars, docVars
  <2> QED
    BY <1>2, <2>1, SameAppsQuiet
<1>4. CASE StartPreparing(w) \/ RouteUnsupported(w)
  <2>1. UNCHANGED <<packet, prep, latest, incomplete>>
    BY <1>4 DEF StartPreparing, RouteUnsupported, docVars
  <2>2. \/ UNCHANGED apps
        \/ \E state \in {"PREPARING", "UNSUPPORTED"} : MoveApp(AppOfWorker(w), state, 1)
    BY <1>4 DEF StartPreparing, RouteUnsupported
  <2>3. AppsQuiet
    BY <1>1, <2>2, SameAppsQuiet, MoveAppQuiet
  <2> QED
    BY <1>2, <2>1, <2>3
<1>5. ASSUME NEW lacking \in BOOLEAN, SavePacket(w, lacking)
      PROVE  CompleteKept /\ ReadyIsInspected'
  <2>1. StorePacket(AppOfWorker(w), worker[w].revision, lacking) /\ UNCHANGED <<prep, latest>>
    BY <1>5 DEF SavePacket
  <2> QED
    BY <1>1, <2>1, PacketIsNewest DEF ReadyInv, CompleteKept
<1>6. ASSUME NEW k \in Keys, NEW status \in Statuses, SaveInspection(w, k, status)
      PROVE  CompleteKept /\ ReadyIsInspected'
  <2>1. /\ AppOf[k] = AppOfWorker(w) /\ LooksAtNewest(w) /\ worker[w].pc = "renewed"
        /\ \E queueSubmit \in BOOLEAN : SavePreparation(k, status, queueSubmit)
        /\ UNCHANGED incomplete
    BY <1>6 DEF SaveInspection, docVars
  <2>2. AppOf[k] \notin incomplete
    BY <2>1 DEF ReadyInv, InspectedKnown, Inspecting, InspectsComplete, CompletePacket,
      LooksAtNewest
  <2>3. ReadyIsInspected' /\ UNCHANGED packet
    BY <2>1, <2>2, SavedIsInspected DEF ReadyInv
  <2> QED
    BY <2>1, <2>3, SamePacketsComplete
<1> QED
  BY <1>3, <1>4, <1>5, <1>6 DEF DocumentStep

LEMMA DocumentStepReady ==
  ASSUME TypedInv, ReadyInv, NEW w \in Workers, DocumentStep(w),
         worker'[w].pc = "looked" => AppOfWorker(w) \notin incomplete
  PROVE  ReadyStands
<1>1. TypeInv /\ worker[w].pc # "idle"
  BY DocumentStepParts DEF TypedInv, WorkerStands
<1>2. worker[w].task \in TaskIds
  BY <1>1, BusyWorker
<1>3. RowsKept /\ LooksKept
  BY <1>1, <1>2, DocumentRows
<1>4. CompleteKept /\ ReadyIsInspected'
  BY <1>1, DocumentReady
<1>5. WorkersStand
  <2>1. PICK pc \in DocumentStages : GoesOn(w, pc)
    BY DocumentStepParts DEF WorkerStands
  <2>2. worker'[w].task = worker[w].task
    BY <1>1, <2>1, GoesOnKeeps DEF DocumentStages, WorkerStages
  <2>3. worker'[w].pc \in Inspecting => worker[w].pc \in Inspecting \/ InspectsComplete(w)
    BY <1>1, DocumentLooks, LookedComplete
  <2> QED
    BY <1>1, <2>2, <2>3, WorkMovesOne, OneWorkerStands
<1> QED
  BY <1>3, <1>4, <1>5 DEF ReadyStands

-----------------------------------------------------------------------------
(* The owner                                                                *)

LEMMA OwnerReady ==
  ASSUME ReadyInv, RowsKept, AppsQuiet, UNCHANGED <<packet, prep, latest, worker, looks, incomplete>>
  PROVE  ReadyStands
  BY DocumentsStand, SameWorkersStand DEF ReadyStands

\* What is cancelled or enqueued for an application stays in the queue.
LEMMA CancelledRows ==
  ASSUME TypeInv,
         \A t \in TaskIds : tasks'[t] \in
           {ReadyRow, tasks[t], [tasks[t] EXCEPT !.state = "cancelled", !.lease = 0]}
  PROVE  RowsKept
<1> SUFFICES ASSUME NEW t \in TaskIds, tasks[t].state # "absent"
             PROVE  tasks'[t].state # "absent"
  BY DEF RowsKept
<1>1. ReadyRow.state = "ready"
  BY DEF ReadyRow, NoTaskRow
<1>2. tasks[t] \in TaskRow
  BY DEF TypeInv, TypeOK, QueueTypeOK
<1> DEFINE row == [tasks[t] EXCEPT !.state = "cancelled", !.lease = 0]
<1>3. row.state = "cancelled"
  BY <1>2 DEF TaskRow
<1>4. tasks'[t] \in {ReadyRow, tasks[t], row}
  OBVIOUS
<1> HIDE DEF row
<1> QED
  BY <1>1, <1>3, <1>4

LEMMA ResumeReady ==
  ASSUME TypeInv, ReadyInv, NEW k \in Keys, Resume(k)
  PROVE  ReadyStands
<1>1. AppOf[k] \in Apps
  BY QueueAssumption
<1>2. MoveApp(AppOf[k], "PREPARING", 1) /\ UNCHANGED <<workVars, looks, incomplete>>
  BY DEF Resume
<1>3. AppsQuiet
  BY <1>1, <1>2, MoveAppQuiet
<1>4. RowsKept
  BY CancelledRows DEF Resume
<1> QED
  BY <1>2, <1>3, <1>4, OwnerReady DEF workVars

LEMMA SkipReady ==
  ASSUME TypeInv, ReadyInv, NEW a \in Apps, NEW blocker, Skip(a, blocker)
  PROVE  ReadyStands
<1>1. MoveApp(a, "SKIPPED", 1) /\ UNCHANGED <<workVars, docVars>>
  BY DEF Skip
<1>2. AppsQuiet
  BY <1>1, MoveAppQuiet
<1>3. RowsKept
  BY CancelledRows DEF Skip
<1> QED
  BY <1>1, <1>2, <1>3, OwnerReady DEF workVars, docVars

\* The packet may lack an answer: whoever looks at it finds out.
LEMMA RebuildReady ==
  ASSUME TypeInv, ReadyInv, NEW k \in Keys, Rebuild(k)
  PROVE  ReadyStands
<1>1. AppOf[k] \in Apps /\ packet[AppOf[k]].serial \in Nat
  BY QueueAssumption DEF TypeInv, TypeOK, PacketRow
<1>2. /\ MoveApp(AppOf[k], "INSPECTING", 1) /\ Enqueue("inspect", k) /\ Unused("inspect", k)
      /\ looks' = [looks EXCEPT ![k] = packet[AppOf[k]].serial]
      /\ UNCHANGED <<workVars, incomplete>>
  BY DEF Rebuild
<1>3. AppsQuiet
  BY <1>1, <1>2, MoveAppQuiet
<1>4. RowsKept
  BY <1>2, EnqueueRows
<1>5. LooksKept
  BY <1>1, <1>2 DEF ReadyInv, LooksKept
<1>6. CompleteKept /\ WorkersStand
  BY <1>2, SamePacketsComplete, SameWorkersStand DEF workVars
<1>7. ReadyIsInspected'
  BY <1>2, <1>3 DEF ReadyInv, ReadyIsInspected, AppsQuiet, workVars
<1> QED
  BY <1>4, <1>5, <1>6, <1>7 DEF ReadyStands

LEMMA SaveRequestedReady ==
  ASSUME TypedInv, ReadyInv, NEW r \in requests, NEW lacking \in BOOLEAN,
         SaveRequested(r, lacking)
  PROVE  ReadyStands
<1>1. TypeInv /\ r.app \in Apps
  BY DEF TypedInv, RequestsTyped
<1>2. /\ StorePacket(r.app, r.policy, lacking)
      /\ UNCHANGED <<tasks, prep, latest, worker, looks>>
  BY DEF SaveRequested
<1>3. CompleteKept /\ ReadyIsInspected'
  BY <1>1, <1>2, PacketIsNewest DEF ReadyInv, CompleteKept
<1>4. RowsKept /\ LooksKept /\ WorkersStand
  BY <1>2, SameWorkersStand DEF RowsKept, LooksKept, ReadyInv
<1> QED
  BY <1>3, <1>4 DEF ReadyStands

\* A packet found invalid takes its application off the shelf.
LEMMA InvalidateReady ==
  ASSUME TypeInv, ReadyInv, NEW a \in Apps, NEW letter \in BOOLEAN, Invalidate(a, letter)
  PROVE  ReadyStands
<1>1. UNCHANGED <<tasks, prep, latest, worker, looks, incomplete>>
  BY DEF Invalidate, docVars
<1>2. /\ packet \in [Apps -> PacketRow] /\ packet[a] \in PacketRow
  BY DEF TypeInv, TypeOK
<1>3. /\ \A b \in Apps : packet'[b].serial = packet[b].serial
      /\ \A b \in Apps : b # a => packet'[b] = packet[b]
  <2> DEFINE row == [packet[a] EXCEPT !.valid = FALSE]
  <2>1. row.serial = packet[a].serial
    BY <1>2 DEF PacketRow
  <2>2. packet' = [packet EXCEPT ![a] = row]
    BY DEF Invalidate
  <2> HIDE DEF row
  <2> QED
    BY <1>2, <2>1, <2>2
<1>4. AppsQuiet /\ apps'[a].state # "READY"
  <2>1. CASE apps[a].state \in Untouched
    BY <2>1 DEF Invalidate, AppsQuiet, Untouched
  <2>2. CASE apps[a].state \notin Untouched
    <3>1. PICK state \in {"NEEDS_INPUT", "NEEDS_REVIEW"} : MoveApp(a, state, 1)
      BY <2>2 DEF Invalidate
    <3> QED
      BY <3>1, MoveAppQuiet, MoveAppKeeps
  <2> QED
    BY <2>1, <2>2
<1>5. ReadyIsInspected'
  <2> SUFFICES ASSUME NEW b \in Apps, apps'[b].state = "READY"
               PROVE  /\ latest'[b] \in Keys
                      /\ prep'[latest'[b]].status = "ready"
                      /\ packet'[b].valid /\ prep'[latest'[b]].packet = packet'[b].serial
                      /\ b \notin incomplete'
    BY DEF ReadyIsInspected
  <2>1. b # a /\ apps[b].state = "READY"
    BY <1>4 DEF AppsQuiet
  <2> QED
    BY <1>1, <1>3, <2>1 DEF ReadyInv, ReadyIsInspected
<1>6. CompleteKept
  BY <1>1, <1>3 DEF CompleteKept, CompletePacket
<1>7. RowsKept /\ LooksKept /\ WorkersStand
  BY <1>1, SameWorkersStand DEF RowsKept, LooksKept, ReadyInv
<1> QED
  BY <1>5, <1>6, <1>7 DEF ReadyStands

LEMMA PublishReady ==
  ASSUME TypeInv, ReadyInv, PublishNewProfile
  PROVE  ReadyStands
<1> DEFINE rest == LeasedSubmits \ Cancelled
           recovered == RecoveredTasks(rest, TRUE)
<1>1. PublishProfile /\ UNCHANGED <<looks, incomplete>>
  BY DEF PublishNewProfile
<1>2. /\ UNCHANGED worker
      /\ packet' = [a \in Apps |->
           IF a \in Discarded THEN [packet[a] EXCEPT !.valid = FALSE] ELSE packet[a]]
      /\ tasks' = [t \in TaskIds |->
           IF t \in Cancelled
           THEN [tasks[t] EXCEPT !.state = "cancelled", !.lease = 0]
           ELSE recovered[t]]
  BY <1>1 DEF PublishProfile
<1>3. ReadyIsInspected'
  BY <1>1, PublishingClears DEF ReadyIsInspected
<1>4. \A a \in Apps : packet'[a].serial = packet[a].serial
  <2>1. \A a \in Apps : packet[a] \in PacketRow
    BY DEF TypeInv, TypeOK
  <2>2. \A a \in Apps : [packet[a] EXCEPT !.valid = FALSE].serial = packet[a].serial
    BY <2>1 DEF PacketRow
  <2> QED
    BY <1>2, <2>2
<1>5. CompleteKept
  BY <1>1, <1>4 DEF CompleteKept, CompletePacket
<1>6. RowsKept
  <2> SUFFICES ASSUME NEW t \in TaskIds, tasks[t].state # "absent"
               PROVE  tasks'[t].state # "absent"
    BY DEF RowsKept
  <2>1. recovered[t].state # "absent"
    BY RecoveredRow
  <2>2. [tasks[t] EXCEPT !.state = "cancelled", !.lease = 0].state = "cancelled"
    BY DEF TypeInv, TypeOK, QueueTypeOK, TaskRow
  <2> HIDE DEF recovered
  <2> QED
    BY <1>2, <2>1, <2>2
<1>7. LooksKept /\ WorkersStand
  BY <1>1, <1>2, SameWorkersStand DEF LooksKept, ReadyInv
<1> QED
  BY <1>3, <1>5, <1>6, <1>7 DEF ReadyStands

LEMMA OwnerSubmissionStepReady ==
  ASSUME TypeInv, ReadyInv, OwnerSubmissionStep
  PROVE  ReadyStands
<1>1. UNCHANGED <<looks, incomplete>>
  BY DEF OwnerSubmissionStep, docVars
<1>2. ASSUME NEW k \in Keys, NEW status \in Statuses, NEW queueSubmit \in BOOLEAN,
             AppOf[k] \notin incomplete, Save(k, status, queueSubmit)
      PROVE  ReadyStands
  <2>1. SavePreparation(k, status, queueSubmit) /\ UNCHANGED <<worker, packet>>
    BY <1>2 DEF Save, SavePreparation
  <2>2. ReadyIsInspected'
    BY <1>1, <1>2, <2>1, SavedIsInspected DEF ReadyInv
  <2>3. RowsKept
    BY <2>1, SaveRows
  <2>4. CompleteKept /\ WorkersStand /\ LooksKept
    BY <1>1, <2>1, SamePacketsComplete, SameWorkersStand DEF LooksKept, ReadyInv
  <2> QED
    BY <2>2, <2>3, <2>4 DEF ReadyStands
<1>3. ASSUME NEW autoSubmit \in BOOLEAN, SaveAuthorization(autoSubmit) \/ RevokeAuthorization
      PROVE  ReadyStands
  <2>1. RecoverTasks(LeasedSubmits, TRUE) /\ UNCHANGED <<packet, prep, latest, worker>>
    BY <1>3 DEF SaveAuthorization, RevokeAuthorization
  <2>2. AppsQuiet /\ RowsKept
    BY <2>1, RecoverQuiet, RecoveryRows
  <2> QED
    BY <1>1, <2>1, <2>2, OwnerReady
<1>4. ASSUME NEW patched, SetControl(patched), UNCHANGED workVars
      PROVE  ReadyStands
  <2> DEFINE T == {t \in Leased : t.type = "submit"}
  <2>1. RecoverTasks(T, TRUE) \/ UNCHANGED tasks
    BY <1>4 DEF SetControl
  <2> HIDE DEF T
  <2>2. RowsKept
    BY <2>1, RecoveryRows DEF RowsKept
  <2>3. AppsQuiet
    BY <1>4, ControlQuiet
  <2> QED
    BY <1>1, <1>4, <2>2, <2>3, OwnerReady DEF workVars
<1>5. CASE \E k \in Keys, status \in Statuses, queueSubmit \in BOOLEAN :
             AppOf[k] \notin incomplete /\ Save(k, status, queueSubmit)
  BY <1>2, <1>5
<1>6. CASE (\E autoSubmit \in BOOLEAN : SaveAuthorization(autoSubmit)) \/ RevokeAuthorization
  BY <1>3, <1>6
<1>7. CASE \E patched \in (IF "control" \in Events THEN ControlPatches \cup PreparationPatches
                           ELSE IF "reopen" \in Events THEN OpeningPatches ELSE {}) :
             SetControl(patched) /\ UNCHANGED workVars
  BY <1>4, <1>7
<1> QED
  BY <1>5, <1>6, <1>7 DEF OwnerSubmissionStep

LEMMA MatchingReady ==
  ASSUME TypeInv, ReadyInv, Matching
  PROVE  ReadyStands
<1>1. UNCHANGED <<packet, prep, latest, worker, looks, incomplete>>
  BY DEF Matching, Qualify, SaveAssessment, workVars, docVars
<1>2. ASSUME NEW a \in Apps, Qualify(a)
      PROVE  AppsQuiet /\ RowsKept
  <2>1. UNCHANGED tasks /\ \E state \in {"ASSESSED", "ELIGIBLE"} : MoveApp(a, state, 1)
    BY <1>2 DEF Qualify
  <2> QED
    BY <2>1, MoveAppQuiet DEF RowsKept
<1>3. ASSUME NEW k \in Keys, NEW p, SaveAssessment(k, profileOf[p])
      PROVE  AppsQuiet /\ RowsKept
  BY <1>3, EnqueueRows, SameAppsQuiet DEF SaveAssessment
<1> QED
  BY <1>1, <1>2, <1>3, OwnerReady DEF Matching

\* A step that does not concern it.
LEMMA StandingReady ==
  ASSUME ReadyInv, UNCHANGED <<tasks, apps, packet, prep, latest, worker, looks, incomplete>>
  PROVE  ReadyStands
<1>1. RowsKept
  BY DEF RowsKept
<1> QED
  BY <1>1, SameAppsQuiet, OwnerReady

LEMMA DecisionReady ==
  ASSUME TypedInv, ReadyInv, OwnerDecision
  PROVE  ReadyStands
<1>1. TypeInv
  BY DEF TypedInv
<1>2. ASSUME UNCHANGED <<vars, looks, incomplete>>
      PROVE  ReadyStands
  BY <1>2, StandingReady DEF vars, queueVars, workVars
<1>3. ASSUME UNCHANGED prepVars
      PROVE  ReadyStands
  BY <1>2, <1>3 DEF prepVars, docVars
<1>4. ASSUME NEW a \in Apps, Inbox(a) \/ ApproveAnswer(a)
      PROVE  ReadyStands
  <2>1. UNCHANGED prepVars \/ \E k \in Keys : Resume(k)
    BY <1>4 DEF Inbox, ApproveAnswer
  <2> QED
    BY <1>1, <1>3, <2>1, ResumeReady
<1>5. ASSUME NEW k \in Keys, Retry(k) \/ Rebuild(k)
      PROVE  ReadyStands
  BY <1>1, <1>5, ResumeReady, RebuildReady DEF Retry
<1>6. ASSUME NEW a \in Apps, Generate(a)
      PROVE  ReadyStands
  BY <1>2, <1>6 DEF Generate, RequestPacket
<1>7. ASSUME NEW r \in requests, EndGeneration(r)
      PROVE  ReadyStands
  <2>1. ("owner" \in lacks) \in BOOLEAN
    OBVIOUS
  <2>2. LoseRequest(r) => UNCHANGED <<vars, looks, incomplete>>
    BY DEF LoseRequest
  <2> QED
    BY <1>2, <1>7, <2>1, <2>2, SaveRequestedReady DEF EndGeneration
<1> QED
  BY <1>1, <1>4, <1>5, <1>6, <1>7, SkipReady DEF OwnerDecision

LEMMA ReadyStep == TypedInv /\ ReadyInv /\ [ExcNext]_excVars => TypedInv' /\ ReadyInv'
<1> SUFFICES ASSUME TypedInv, ReadyInv, [ExcNext]_excVars PROVE TypedInv' /\ ReadyInv'
  OBVIOUS
<1>1. TypeInv
  BY DEF TypedInv
<1>2. TypedInv'
  BY TypedStep
<1>3. ASSUME NEW w \in Workers, Work(w)
      PROVE  ReadyStands
  <2>1. CASE DocumentStep(w)
    BY <1>3, <2>1, DocumentStepReady DEF Work
  <2>2. CASE WorkerStep(w) /\ UNCHANGED docVars
    <3>1. SubmissionStep
      BY <2>2 DEF SubmissionStep
    <3> QED
      BY <1>1, <3>1, SubmissionStepReady
  <2> QED
    BY <1>3, <2>1, <2>2 DEF Work
<1>4. CASE (\E w \in Workers : LoseNotice(w)) \/ Beside
  <2>1. SubmissionStep
    BY <1>4 DEF LoseNotice, Beside, SubmissionStep, WorkerStep
  <2> QED
    BY <1>1, <1>2, <2>1, SubmissionStepReady, ReadyFrom DEF TypedInv
<1>5. CASE UNCHANGED prepVars
  <2>1. ReadyStands
    BY <1>5, StandingReady DEF prepVars, vars, queueVars, workVars, docVars
  <2> QED
    BY <1>1, <1>2, <2>1, ReadyFrom DEF TypedInv
<1>6. CASE OwnerDecision
  BY <1>1, <1>2, <1>6, DecisionReady, ReadyFrom DEF TypedInv
<1>7. CASE Meanwhile
  <2>1. ReadyStands
    BY <1>1, <1>7, MatchingReady, InvalidateReady, OwnerSubmissionStepReady, PublishReady
    DEF Meanwhile
  <2> QED
    BY <1>1, <1>2, <2>1, ReadyFrom DEF TypedInv
<1>8. CASE \E w \in Workers : Work(w)
  BY <1>1, <1>2, <1>3, <1>8, ReadyFrom DEF TypedInv
<1>9. CASE UNCHANGED excVars \/ \E w \in Workers : RecordNotice(w)
  <2>1. UNCHANGED prepVars
    BY <1>9 DEF excVars, RecordNotice
  <2> QED
    BY <1>5, <2>1
<1> QED
  BY <1>4, <1>6, <1>7, <1>8, <1>9 DEF ExcNext

LEMMA ReadyInitial == ExcInit => TypedInv /\ ReadyInv
<1> SUFFICES ASSUME ExcInit PROVE TypedInv /\ ReadyInv
  OBVIOUS
<1>1. TypedInv
  BY ExcInitial DEF ExcInv, TablesInv
<1>2. PrepInit
  BY DEF ExcInit
<1>3. ReadyIsInspected /\ looks \in [Keys -> Nat]
  BY <1>2 DEF PrepInit, NothingPrepared, AppsIn, ReadyIsInspected
<1>4. \A w \in Workers : worker[w].pc = "idle"
  BY <1>2 DEF PrepInit, NothingPrepared, Idle
<1> QED
  BY <1>1, <1>3, <1>4 DEF ReadyInv, RowsKnown, InspectedKnown, Inspecting

\* An application shown as ready is ready with what would be sent, whatever the
\* owner does about exceptions too: skips and rebuilds while a packet is drafted,
\* inspections queued of a packet that lacks an answer, and packets that are
\* found invalid (rebuild, resumeIn and skip beside savePacketIn and save).
THEOREM ReadyStaysInspected == ExcSpec => []ReadyIsInspected
<1>1. ReadyInv => ReadyIsInspected
  BY DEF ReadyInv
<1> QED
  BY <1>1, ReadyInitial, ReadyStep, PTL DEF ExcSpec

=============================================================================
