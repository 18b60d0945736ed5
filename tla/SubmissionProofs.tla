--------------------------- MODULE SubmissionProofs --------------------------
(***************************************************************************)
(* What is proved of module Submission, for all sets of applications,      *)
(* preparations and workers, whatever lapses or crashes: types, at most    *)
(* one press of an application's final button, leases that stay            *)
(* admissible, a submission that is never forgotten nor left without work, *)
(* an outcome that is never guessed nor changed, and that the whole        *)
(* protocol implements SubmitOnce.                                         *)
(*                                                                         *)
(* TypeOK alone is not inductive, because what a worker does with its task *)
(* is typed only if it holds one: TypeInv adds that.  First come lemmas    *)
(* about the operations of TaskQueue: each keeps the tables' types,        *)
(* whatever the sets of tasks and applications are.                        *)
(*                                                                         *)
(* AtMostOneClick is far from inductive: a worker may press long after its *)
(* lease is gone, so nothing about leases helps.  What does is how the     *)
(* memory of the workers is tied to the attempts table, and that table to  *)
(* the clicks: fences are never shared, an attempt is recorded under the   *)
(* fence of the one worker that may use it, a permit is unused while its   *)
(* worker still holds it, and whatever was pressed has a dispatched        *)
(* attempt on record.  ClickInv says so.                                   *)
(*                                                                         *)
(* Nor is what becomes of a submission.  An attempt and its application    *)
(* are written by different operations under different guards, so first    *)
(* the two tables have to be shown to agree (TablesAgree); then the queue  *)
(* is related to both (WorkInv), and last the employer and what workers    *)
(* have heard of it (EmployerInv).                                         *)
(***************************************************************************)
EXTENDS Submission, FiniteSetTheorems, TLAPS

-----------------------------------------------------------------------------
(* Rows                                                                     *)

\* A row stays typed when its state and lease, or its state and revision, are
\* overwritten with values of their types.
LEMMA TaskRowUpdate ==
  ASSUME NEW row \in TaskRow, NEW state \in TaskStates, NEW lease \in 0 .. LeaseTerm
  PROVE  [row EXCEPT !.state = state, !.lease = lease] \in TaskRow
  BY DEF TaskRow

LEMMA AppRowUpdate ==
  ASSUME NEW row \in AppRow, NEW state \in ApplicationStates, NEW revision \in Nat
  PROVE  [row EXCEPT !.state = state, !.revision = revision] \in AppRow
  BY DEF AppRow

LEMMA AttemptRowUpdate ==
  ASSUME NEW row \in AttemptRow, NEW state \in AttemptStates
  PROVE  [row EXCEPT !.state = state] \in AttemptRow
  BY DEF AttemptRow

\* Every task belongs to a preparation, and so to an application.
LEMMA AppOfTask ==
  ASSUME NEW t \in TaskIds
  PROVE  t.key \in Keys /\ AppOf[t.key] \in Apps
  BY QueueAssumption DEF TaskIds

LEMMA SubmitTaskTyped ==
  ASSUME NEW k \in Keys
  PROVE  Task("submit", k) \in TaskIds
  BY QueueAssumption DEF Task, TaskIds

LEMMA ReadyRowTyped == ReadyRow \in TaskRow
  BY QueueAssumption DEF ReadyRow, NoTaskRow, TaskRow, TaskStates

LEMMA NoTaskRowTyped == NoTaskRow \in TaskRow
  BY QueueAssumption DEF NoTaskRow, TaskRow, TaskStates

-----------------------------------------------------------------------------
(* Recovering tasks                                                         *)

\* What recovery writes has the types of the tables, whichever tasks it is
\* applied to.
LEMMA RecoverTypes ==
  ASSUME QueueTypeOK, NEW T, NEW cancelled \in BOOLEAN
  PROVE  /\ RecoveredTasks(T, cancelled) \in [TaskIds -> TaskRow]
         /\ RecoveredApps(T) \in [Apps -> AppRow]
         /\ RecoveredAttempts(T) \in [Fences -> AttemptRow]
<1>1. RecoveredTasks(T, cancelled) \in [TaskIds -> TaskRow]
  <2>1. \A t \in TaskIds : RecoveredState(t, cancelled) \in TaskStates
    BY DEF RecoveredState, TaskStates
  <2>2. 0 \in 0 .. LeaseTerm
    BY QueueAssumption
  <2>3. \A t \in TaskIds : tasks[t] \in TaskRow
    BY DEF QueueTypeOK
  <2>4. \A t \in TaskIds :
          [tasks[t] EXCEPT !.state = RecoveredState(t, cancelled), !.lease = 0] \in TaskRow
    BY <2>1, <2>2, <2>3, TaskRowUpdate
  <2> QED
    BY <2>3, <2>4, ReadyRowTyped DEF RecoveredTasks
<1>2. RecoveredApps(T) \in [Apps -> AppRow]
  <2>1. \A a \in Apps : apps[a] \in AppRow
    BY DEF QueueTypeOK
  <2>2. \A a \in Apps : apps[a].revision + 1 \in Nat
    BY <2>1 DEF AppRow
  <2>3. \A a \in Apps :
          [apps[a] EXCEPT !.state = "UNKNOWN", !.revision = @ + 1] \in AppRow
    BY <2>1, <2>2, AppRowUpdate DEF ApplicationStates
  <2> QED
    BY <2>1, <2>3 DEF RecoveredApps
<1>3. RecoveredAttempts(T) \in [Fences -> AttemptRow]
  <2>1. \A f \in Fences : attempts[f] \in AttemptRow
    BY DEF QueueTypeOK
  <2>2. \A f \in Fences : [attempts[f] EXCEPT !.state = "UNKNOWN"] \in AttemptRow
    BY <2>1, AttemptRowUpdate DEF AttemptStates
  <2> QED
    BY <2>1, <2>2 DEF RecoveredAttempts
<1> QED
  BY <1>1, <1>2, <1>3

-----------------------------------------------------------------------------
(* Operations                                                               *)

LEMMA ClaimTyped ==
  ASSUME QueueTypeOK, NEW types, NEW t \in TaskIds, Claim(types, t)
  PROVE  QueueTypeOK'
<1> DEFINE rows == RecoveredTasks(Expired, FALSE)
           applications == RecoveredApps(Expired)
<1>1. /\ rows \in [TaskIds -> TaskRow]
      /\ applications \in [Apps -> AppRow]
      /\ RecoveredAttempts(Expired) \in [Fences -> AttemptRow]
  BY RecoverTypes
<1>2. nextFence + 1 \in 0 .. MaxFence /\ nextFence' = nextFence + 1
  BY QueueAssumption DEF QueueTypeOK, Claim
<1>3. tasks' \in [TaskIds -> TaskRow]
  <2>1. rows[t] \in TaskRow
    BY <1>1
  <2>2. [state |-> "leased", fence |-> nextFence + 1,
         attempts |-> rows[t].attempts + 1, lease |-> LeaseTerm] \in TaskRow
    <3> HIDE DEF rows
    <3>1. rows[t].attempts + 1 \in Nat
      BY <2>1 DEF TaskRow
    <3>2. LeaseTerm \in 0 .. LeaseTerm
      BY QueueAssumption
    <3> QED
      BY <1>2, <3>1, <3>2 DEF TaskRow, TaskStates
  <2>3. tasks' = [rows EXCEPT ![t] =
          [state |-> "leased", fence |-> nextFence + 1,
           attempts |-> rows[t].attempts + 1, lease |-> LeaseTerm]]
    BY DEF Claim
  <2> QED
    BY <1>1, <2>2, <2>3
<1>4. apps' \in [Apps -> AppRow]
  <2> DEFINE a == AppOf[t.key]
  <2>1. a \in Apps
    BY AppOfTask
  <2>2. applications[a] \in AppRow
    BY <1>1, <2>1
  <2>3. [applications[a] EXCEPT !.commitFence = nextFence + 1] \in AppRow
    BY <1>2, <2>2 DEF AppRow
  <2>4. [applications EXCEPT ![a].commitFence = nextFence + 1]
          = [applications EXCEPT ![a] = [applications[a] EXCEPT !.commitFence = nextFence + 1]]
    OBVIOUS
  <2>5. apps' \in {applications, [applications EXCEPT ![a].commitFence = nextFence + 1]}
    BY DEF Claim
  <2> QED
    BY <1>1, <2>3, <2>4, <2>5
<1>5. attempts' \in [Fences -> AttemptRow]
  BY <1>1 DEF Claim
<1> QED
  BY <1>2, <1>3, <1>4, <1>5 DEF QueueTypeOK, Claim

LEMMA RecoverTasksTyped ==
  ASSUME QueueTypeOK, NEW T, NEW cancelled \in BOOLEAN, RecoverTasks(T, cancelled)
  PROVE  /\ tasks' \in [TaskIds -> TaskRow]
         /\ apps' \in [Apps -> AppRow]
         /\ attempts' \in [Fences -> AttemptRow]
  BY RecoverTypes DEF RecoverTasks

LEMMA ClaimNothingTyped ==
  ASSUME QueueTypeOK, NEW types, ClaimNothing(types)
  PROVE  QueueTypeOK'
<1>1. RecoverTasks(Expired, FALSE)
  BY DEF ClaimNothing
<1>2. /\ tasks' \in [TaskIds -> TaskRow]
      /\ apps' \in [Apps -> AppRow]
      /\ attempts' \in [Fences -> AttemptRow]
  BY <1>1, RecoverTasksTyped
<1> QED
  BY <1>2 DEF QueueTypeOK, ClaimNothing

\* A task whose row only changes state and lease.
LEMMA TaskUpdateTyped ==
  ASSUME QueueTypeOK, NEW t \in TaskIds, NEW state \in TaskStates,
         NEW lease \in 0 .. LeaseTerm
  PROVE  [tasks EXCEPT ![t].state = state, ![t].lease = lease] \in [TaskIds -> TaskRow]
<1>1. tasks[t] \in TaskRow
  BY DEF QueueTypeOK
<1>2. [tasks[t] EXCEPT !.state = state, !.lease = lease] \in TaskRow
  BY <1>1, TaskRowUpdate
<1>3. [tasks EXCEPT ![t].state = state, ![t].lease = lease]
        = [tasks EXCEPT ![t] = [tasks[t] EXCEPT !.state = state, !.lease = lease]]
  BY <1>1 DEF QueueTypeOK
<1> QED
  BY <1>2, <1>3 DEF QueueTypeOK

LEMMA LeaseUpdateTyped ==
  ASSUME QueueTypeOK, NEW t \in TaskIds, NEW lease \in 0 .. LeaseTerm
  PROVE  [tasks EXCEPT ![t].lease = lease] \in [TaskIds -> TaskRow]
<1>1. tasks[t] \in TaskRow
  BY DEF QueueTypeOK
<1>2. [tasks[t] EXCEPT !.lease = lease] \in TaskRow
  BY <1>1 DEF TaskRow
<1> QED
  BY <1>2 DEF QueueTypeOK

LEMMA ElapseTyped ==
  ASSUME QueueTypeOK, NEW t \in TaskIds, Elapse(t)
  PROVE  QueueTypeOK'
<1>1. tasks[t] \in TaskRow
  BY DEF QueueTypeOK
<1>2. tasks[t].lease - 1 \in 0 .. LeaseTerm
  BY <1>1, QueueAssumption DEF TaskRow, Elapse
<1>3. tasks' = [tasks EXCEPT ![t].lease = tasks[t].lease - 1]
  BY DEF Elapse
<1>4. tasks' \in [TaskIds -> TaskRow]
  BY <1>2, <1>3, LeaseUpdateTyped
<1> QED
  BY <1>4 DEF QueueTypeOK, Elapse

LEMMA RenewTyped ==
  ASSUME QueueTypeOK, NEW t \in TaskIds, NEW fence, Renew(t, fence)
  PROVE  QueueTypeOK'
<1>1. LeaseTerm \in 0 .. LeaseTerm
  BY QueueAssumption
<1>2. tasks' \in [TaskIds -> TaskRow]
  BY <1>1, LeaseUpdateTyped DEF Renew
<1> QED
  BY <1>2 DEF QueueTypeOK, Renew

LEMMA CompleteTyped ==
  ASSUME QueueTypeOK, NEW t \in TaskIds, NEW fence, Complete(t, fence)
  PROVE  QueueTypeOK'
<1>1. "completed" \in TaskStates /\ 0 \in 0 .. LeaseTerm
  BY QueueAssumption DEF TaskStates
<1>2. tasks' \in [TaskIds -> TaskRow]
  BY <1>1, TaskUpdateTyped DEF Complete
<1> QED
  BY <1>2 DEF QueueTypeOK, Complete

LEMMA FailTyped ==
  ASSUME QueueTypeOK, NEW t \in TaskIds, NEW fence, NEW retryable, Fail(t, fence, retryable)
  PROVE  QueueTypeOK'
<1>1. /\ tasks' \in [TaskIds -> TaskRow]
      /\ apps' \in [Apps -> AppRow]
      /\ attempts' \in [Fences -> AttemptRow]
  <2>1. CASE RecoverTasks({t}, FALSE)
    BY <2>1, RecoverTasksTyped
  <2>2. CASE ~RecoverTasks({t}, FALSE)
    <3> DEFINE state == IF retryable /\ tasks[t].attempts < Budget[t.type]
                        THEN "retry_wait" ELSE "dead"
    <3>1. state \in TaskStates /\ 0 \in 0 .. LeaseTerm
      BY QueueAssumption DEF TaskStates
    <3>2. /\ tasks' = [tasks EXCEPT ![t].state = state, ![t].lease = 0]
          /\ UNCHANGED <<apps, attempts>>
      BY <2>2 DEF Fail
    <3> QED
      BY <3>1, <3>2, TaskUpdateTyped DEF QueueTypeOK
  <2> QED
    BY <2>1, <2>2
<1> QED
  BY <1>1 DEF QueueTypeOK, Fail

LEMMA CancelTaskTyped ==
  ASSUME QueueTypeOK, NEW t \in TaskIds, CancelTask(t)
  PROVE  QueueTypeOK'
<1>1. RecoverTasks({t}, TRUE)
  BY DEF CancelTask
<1>2. /\ tasks' \in [TaskIds -> TaskRow]
      /\ apps' \in [Apps -> AppRow]
      /\ attempts' \in [Fences -> AttemptRow]
  BY <1>1, RecoverTasksTyped
<1> QED
  BY <1>2 DEF QueueTypeOK, CancelTask

LEMMA ControlPatchesTyped ==
  ASSUME QueueTypeOK
  PROVE  ControlPatches \subseteq ControlRow
<1>1. control \in ControlRow
  BY DEF QueueTypeOK
<1> QED
  BY <1>1 DEF ControlPatches, ControlRow

LEMMA SetControlTyped ==
  ASSUME QueueTypeOK, NEW patched \in ControlRow, SetControl(patched)
  PROVE  QueueTypeOK'
<1>1. control' \in ControlRow
  BY DEF SetControl
<1>2. /\ tasks' \in [TaskIds -> TaskRow]
      /\ apps' \in [Apps -> AppRow]
      /\ attempts' \in [Fences -> AttemptRow]
  <2> DEFINE T == {t \in Leased : t.type = "submit"}
  <2>1. CASE RecoverTasks(T, TRUE)
    BY <2>1, RecoverTasksTyped
  <2>2. CASE UNCHANGED <<tasks, apps, attempts>>
    BY <2>2 DEF QueueTypeOK
  <2> QED
    BY <2>1, <2>2 DEF SetControl
<1> QED
  BY <1>1, <1>2 DEF QueueTypeOK, SetControl

-----------------------------------------------------------------------------
(* The inductive invariant, and what moves a worker and an application      *)

\* A worker that is not idle holds a task and a fence it was handed with it.
WorkerHasTask ==
  \A w \in Workers :
    worker[w] # Idle => worker[w].task \in TaskIds /\ worker[w].fence \in Fences

TypeInv == TypeOK /\ WorkerHasTask

LEMMA IdleTyped == Idle \in WorkerMemory
  BY QueueAssumption DEF Idle, WorkerMemory, WorkerStages

\* A worker that is in a stage of some task is not idle.
LEMMA BusyWorker ==
  ASSUME TypeInv, NEW w \in Workers, worker[w].pc # "idle"
  PROVE  /\ worker[w] # Idle
         /\ worker[w].task \in TaskIds /\ worker[w].fence \in Fences
         /\ worker[w].task.key \in Keys /\ AppOfWorker(w) \in Apps
<1>1. worker[w] # Idle
  BY DEF Idle
<1>2. worker[w].task \in TaskIds /\ worker[w].fence \in Fences
  BY <1>1 DEF TypeInv, WorkerHasTask
<1> QED
  BY <1>1, <1>2, AppOfTask DEF AppOfWorker

\* What Advance changes in the worker's memory, and what it keeps.
LEMMA AdvanceKeeps ==
  ASSUME TypeInv, NEW w \in Workers, NEW pc \in WorkerStages, Advance(w, pc)
  PROVE  /\ worker' \in [Workers -> WorkerMemory]
         /\ worker'[w].pc = pc
         /\ worker'[w].task = worker[w].task
         /\ worker'[w].fence = worker[w].fence
         /\ \A v \in Workers : v # w => worker'[v] = worker[v]
<1>1. worker[w] \in WorkerMemory
  BY DEF TypeInv, TypeOK
<1>2. [worker[w] EXCEPT !.pc = pc] \in WorkerMemory
  BY <1>1 DEF WorkerMemory
<1>3. worker' = [worker EXCEPT ![w] = [worker[w] EXCEPT !.pc = pc]]
  BY DEF Advance
<1>4. /\ worker' \in [Workers -> WorkerMemory]
      /\ \A v \in Workers : v # w => worker'[v] = worker[v]
  BY <1>2, <1>3 DEF TypeInv, TypeOK
<1>5. worker'[w] = [worker[w] EXCEPT !.pc = pc]
  BY <1>3 DEF TypeInv, TypeOK
<1>6. /\ worker'[w].pc = pc
      /\ worker'[w].task = worker[w].task
      /\ worker'[w].fence = worker[w].fence
  BY <1>1, <1>5 DEF WorkerMemory
<1> QED
  BY <1>4, <1>6

LEMMA AdvanceTyped ==
  ASSUME TypeInv, NEW w \in Workers, NEW pc \in WorkerStages,
         worker[w].pc # "idle", Advance(w, pc)
  PROVE  worker' \in [Workers -> WorkerMemory] /\ WorkerHasTask'
<1>1. worker[w].task \in TaskIds /\ worker[w].fence \in Fences
  BY BusyWorker
<1> QED
  BY <1>1, AdvanceKeeps DEF TypeInv, WorkerHasTask

LEMMA ToIdleTyped ==
  ASSUME TypeInv, NEW w \in Workers, worker' = [worker EXCEPT ![w] = Idle]
  PROVE  worker' \in [Workers -> WorkerMemory] /\ WorkerHasTask'
<1>1. worker' \in [Workers -> WorkerMemory]
  BY IdleTyped DEF TypeInv, TypeOK
<1>2. worker'[w] = Idle /\ \A v \in Workers : v # w => worker'[v] = worker[v]
  BY DEF TypeInv, TypeOK
<1> QED
  BY <1>1, <1>2 DEF TypeInv, WorkerHasTask

LEMMA MoveAppTyped ==
  ASSUME TypeInv, NEW a \in Apps, NEW state \in ApplicationStates,
         NEW steps \in Nat, MoveApp(a, state, steps)
  PROVE  apps' \in [Apps -> AppRow]
<1>1. apps \in [Apps -> AppRow] /\ apps[a] \in AppRow
  BY DEF TypeInv, TypeOK, QueueTypeOK
<1>2. apps[a].revision + steps \in Nat
  BY <1>1 DEF AppRow
<1>3. [apps[a] EXCEPT !.state = state, !.revision = apps[a].revision + steps] \in AppRow
  BY <1>1, <1>2, AppRowUpdate
<1>4. apps' = [apps EXCEPT ![a] =
        [apps[a] EXCEPT !.state = state, !.revision = apps[a].revision + steps]]
  BY DEF MoveApp
<1> QED
  BY <1>1, <1>3, <1>4

\* Writing an outcome to an attempt, or the stamp of its dispatch.
LEMMA SettleTyped ==
  ASSUME TypeInv, NEW f \in Fences, NEW state \in AttemptStates
  PROVE  [attempts EXCEPT ![f].state = state] \in [Fences -> AttemptRow]
<1>1. attempts \in [Fences -> AttemptRow] /\ attempts[f] \in AttemptRow
  BY DEF TypeInv, TypeOK, QueueTypeOK
<1>2. [attempts[f] EXCEPT !.state = state] \in AttemptRow
  BY <1>1, AttemptRowUpdate
<1>3. [attempts EXCEPT ![f].state = state]
        = [attempts EXCEPT ![f] = [attempts[f] EXCEPT !.state = state]]
  OBVIOUS
<1> QED
  BY <1>1, <1>2, <1>3

LEMMA DispatchTyped ==
  ASSUME TypeInv, NEW f \in Fences
  PROVE  [attempts EXCEPT ![f].dispatched = TRUE] \in [Fences -> AttemptRow]
<1>1. attempts \in [Fences -> AttemptRow] /\ attempts[f] \in AttemptRow
  BY DEF TypeInv, TypeOK, QueueTypeOK
<1>2. [attempts[f] EXCEPT !.dispatched = TRUE] \in AttemptRow
  BY <1>1 DEF AttemptRow
<1>3. [attempts EXCEPT ![f].dispatched = TRUE]
        = [attempts EXCEPT ![f] = [attempts[f] EXCEPT !.dispatched = TRUE]]
  OBVIOUS
<1> QED
  BY <1>1, <1>2, <1>3

\* The steps of a worker that settle an attempt and move its application.
LEMMA SettlingTyped ==
  ASSUME TypeInv, NEW w \in Workers, worker[w].pc # "idle",
         NEW pc \in WorkerStages, Advance(w, pc),
         NEW state \in ApplicationStates, NEW steps \in Nat,
         MoveApp(AppOfWorker(w), state, steps),
         attempts' \in [Fences -> AttemptRow],
         UNCHANGED <<control, quarantined, tasks, nextFence, policy, authority,
                     packet, prep, latest, employer, clicks>>
  PROVE  TypeInv'
<1>1. worker' \in [Workers -> WorkerMemory] /\ WorkerHasTask'
  BY AdvanceTyped
<1>2. apps' \in [Apps -> AppRow]
  BY BusyWorker, MoveAppTyped
<1> QED
  BY <1>1, <1>2 DEF TypeInv, TypeOK, QueueTypeOK

-----------------------------------------------------------------------------
(* One lemma for each action                                                *)

LEMMA TypeInit == Init => TypeInv
<1> SUFFICES ASSUME Init PROVE TypeInv
  OBVIOUS
<1>1. QueueTypeOK
  <2>1. control \in ControlRow /\ quarantined \subseteq Apps
    BY DEF Init, QueueInit, ControlRow
  <2>2. tasks \in [TaskIds -> TaskRow]
    BY NoTaskRowTyped DEF Init, QueueInit
  <2>3. apps \in [Apps -> AppRow]
    BY QueueAssumption DEF Init, QueueInit, AppsIn, AppRow, ApplicationStates
  <2>4. attempts \in [Fences -> AttemptRow]
    BY DEF Init, QueueInit, NoAttempt, AttemptRow, AttemptStates
  <2>5. nextFence \in 0 .. MaxFence
    BY QueueAssumption DEF Init, QueueInit
  <2> QED
    BY <2>1, <2>2, <2>3, <2>4, <2>5 DEF QueueTypeOK
<1>2. packet \in [Apps -> PacketRow] /\ prep \in [Keys -> PrepRow]
  BY DEF Init, PacketRow, PrepRow, NoPrep
<1>3. worker \in [Workers -> WorkerMemory] /\ WorkerHasTask
  BY IdleTyped DEF Init, WorkerHasTask
<1> QED
  BY <1>1, <1>2, <1>3, SubmissionAssumption DEF Init, TypeInv, TypeOK, Authorities

\* What a preparation is saved with has the types of the tables.
LEMMA SavePreparationTyped ==
  ASSUME TypeInv, NEW k \in Keys, NEW status \in Statuses, NEW queueSubmit \in BOOLEAN,
         SavePreparation(k, status, queueSubmit)
  PROVE  /\ apps' \in [Apps -> AppRow] /\ prep' \in [Keys -> PrepRow]
         /\ latest' \in [Apps -> Keys \cup {NoKey}]
         /\ tasks' \in [TaskIds -> TaskRow]
<1> DEFINE a == AppOf[k]
<1>1. a \in Apps
  BY QueueAssumption
<1>2. apps' \in [Apps -> AppRow]
  <2>1. StateAfter(status) \in ApplicationStates
    BY DEF StateAfter, ApplicationStates
  <2> QED
    BY <1>1, <2>1, MoveAppTyped DEF SavePreparation
<1>3. prep' \in [Keys -> PrepRow]
  <2>1. packet[a].serial \in Nat /\ policy \in Nat
    BY <1>1, SubmissionAssumption DEF TypeInv, TypeOK, PacketRow
  <2> QED
    BY <2>1 DEF SavePreparation, TypeInv, TypeOK, PrepRow
<1>4. latest' \in [Apps -> Keys \cup {NoKey}]
  BY <1>1 DEF SavePreparation, TypeInv, TypeOK
<1>5. tasks' \in [TaskIds -> TaskRow]
  BY SubmitTaskTyped, ReadyRowTyped DEF SavePreparation, TypeInv, TypeOK, QueueTypeOK
<1> QED
  BY <1>2, <1>3, <1>4, <1>5

LEMMA SaveTyped ==
  ASSUME TypeInv, NEW k \in Keys, NEW status \in Statuses, NEW queueSubmit \in BOOLEAN,
         Save(k, status, queueSubmit)
  PROVE  TypeInv'
  BY SavePreparationTyped
  DEF Save, SavePreparation, TypeInv, TypeOK, QueueTypeOK, WorkerHasTask

LEMMA PublishProfileTyped ==
  ASSUME TypeInv, PublishProfile
  PROVE  TypeInv'
<1> DEFINE rest == LeasedSubmits \ Cancelled
<1>1. /\ RecoveredTasks(rest, TRUE) \in [TaskIds -> TaskRow]
      /\ RecoveredApps(rest) \in [Apps -> AppRow]
      /\ RecoveredAttempts(rest) \in [Fences -> AttemptRow]
  BY RecoverTypes DEF TypeInv, TypeOK
<1>2. tasks' \in [TaskIds -> TaskRow]
  <2>1. \A t \in TaskIds : [tasks[t] EXCEPT !.state = "cancelled", !.lease = 0] \in TaskRow
    <3>1. \A t \in TaskIds : tasks[t] \in TaskRow
      BY DEF TypeInv, TypeOK, QueueTypeOK
    <3>2. "cancelled" \in TaskStates /\ 0 \in 0 .. LeaseTerm
      BY QueueAssumption DEF TaskStates
    <3> QED
      BY <3>1, <3>2, TaskRowUpdate
  <2> QED
    BY <1>1, <2>1 DEF PublishProfile
<1>3. apps' \in [Apps -> AppRow]
  <2>1. \A a \in Apps : [apps[a] EXCEPT !.state = "NORMALIZED", !.revision = @ + 1] \in AppRow
    <3>1. \A a \in Apps : apps[a] \in AppRow
      BY DEF TypeInv, TypeOK, QueueTypeOK
    <3>2. \A a \in Apps : apps[a].revision + 1 \in Nat
      BY <3>1 DEF AppRow
    <3> QED
      BY <3>1, <3>2, AppRowUpdate DEF ApplicationStates
  <2> QED
    BY <1>1, <2>1 DEF PublishProfile
<1>4. attempts' \in [Fences -> AttemptRow]
  BY <1>1 DEF PublishProfile
<1>5. control' \in ControlRow
  BY DEF PublishProfile, TypeInv, TypeOK, QueueTypeOK, ControlRow
<1>6. packet' \in [Apps -> PacketRow]
  <2>1. \A a \in Apps : packet[a] \in PacketRow
    BY DEF TypeInv, TypeOK
  <2>2. \A a \in Apps : [packet[a] EXCEPT !.valid = FALSE] \in PacketRow
    BY <2>1 DEF PacketRow
  <2> QED
    BY <2>1, <2>2 DEF PublishProfile
<1>7. policy' \in 0 .. MaxPolicy
  <2>1. policy \in 0 .. MaxPolicy
    BY DEF TypeInv, TypeOK
  <2>2. policy < MaxPolicy /\ policy' = policy + 1
    BY DEF PublishProfile
  <2> QED
    BY <2>1, <2>2, SubmissionAssumption
<1>8. authority' \in Authorities
  BY DEF PublishProfile, Authorities
<1> QED
  BY <1>2, <1>3, <1>4, <1>5, <1>6, <1>7, <1>8
  DEF PublishProfile, TypeInv, TypeOK, QueueTypeOK, WorkerHasTask

\* saveAuthorization and revokeAuthorization, as far as types go.
LEMMA PolicyTyped ==
  ASSUME TypeInv, SaveAuthorization(TRUE) \/ SaveAuthorization(FALSE) \/ RevokeAuthorization
  PROVE  TypeInv'
<1>1. /\ tasks' \in [TaskIds -> TaskRow]
      /\ apps' \in [Apps -> AppRow]
      /\ attempts' \in [Fences -> AttemptRow]
  <2>1. RecoverTasks(LeasedSubmits, TRUE)
    BY DEF SaveAuthorization, RevokeAuthorization
  <2> QED
    BY <2>1, RecoverTasksTyped DEF TypeInv, TypeOK
<1>2. control' \in ControlRow
  BY DEF SaveAuthorization, RevokeAuthorization, TypeInv, TypeOK, QueueTypeOK, ControlRow
<1>3. policy' \in 0 .. MaxPolicy
  <2>1. policy \in 0 .. MaxPolicy
    BY DEF TypeInv, TypeOK
  <2>2. \/ policy < MaxPolicy /\ policy' = policy + 1
      \/ policy' = policy
    BY DEF SaveAuthorization, RevokeAuthorization
  <2> QED
    BY <2>1, <2>2, SubmissionAssumption
<1>4. authority' \in Authorities
  BY DEF SaveAuthorization, RevokeAuthorization, Authorities
<1> QED
  BY <1>1, <1>2, <1>3, <1>4
  DEF SaveAuthorization, RevokeAuthorization, TypeInv, TypeOK, QueueTypeOK, WorkerHasTask

LEMMA ClaimTaskTyped ==
  ASSUME TypeInv, NEW w \in Workers, ClaimTask(w)
  PROVE  TypeInv'
<1>1. PICK types \in PollTypes, t \in TaskIds :
        /\ Claim(types, t)
        /\ worker' = [worker EXCEPT ![w] =
             [pc |-> "claimed", task |-> t, fence |-> nextFence + 1, revision |-> 0]]
  BY DEF ClaimTask
<1>2. QueueTypeOK'
  BY <1>1, ClaimTyped DEF TypeInv, TypeOK
<1>3. nextFence + 1 \in Fences
  BY <1>1, QueueAssumption DEF Claim, TypeInv, TypeOK, QueueTypeOK, Fences
<1> DEFINE memory ==
      [pc |-> "claimed", task |-> t, fence |-> nextFence + 1, revision |-> 0]
<1>4. nextFence + 1 \in 0 .. MaxFence
  BY <1>3, QueueAssumption DEF Fences
<1>5. memory \in WorkerMemory
  BY <1>4 DEF WorkerMemory, WorkerStages
<1>6. worker' \in [Workers -> WorkerMemory] /\ worker'[w] = memory
  BY <1>1, <1>5 DEF TypeInv, TypeOK
<1>7. \A v \in Workers : v # w => worker'[v] = worker[v]
  BY <1>1 DEF TypeInv, TypeOK
<1>8. WorkerHasTask'
  BY <1>3, <1>6, <1>7 DEF TypeInv, WorkerHasTask, Fences
<1> QED
  BY <1>2, <1>6, <1>8 DEF ClaimTask, TypeInv, TypeOK

LEMMA ReadRevisionTyped ==
  ASSUME TypeInv, NEW w \in Workers, ReadRevision(w)
  PROVE  TypeInv'
<1>1. worker[w].task \in TaskIds /\ worker[w].fence \in Fences /\ AppOfWorker(w) \in Apps
  BY BusyWorker DEF ReadRevision
<1>2. apps[AppOfWorker(w)].revision \in Nat
  BY <1>1 DEF TypeInv, TypeOK, QueueTypeOK, AppRow
<1>3. worker[w] \in WorkerMemory
  BY DEF TypeInv, TypeOK
<1> DEFINE memory == [worker[w] EXCEPT !.pc = "read", !.revision = apps[AppOfWorker(w)].revision]
<1>4. /\ memory \in WorkerMemory
      /\ memory.task = worker[w].task /\ memory.fence = worker[w].fence
  BY <1>2, <1>3 DEF WorkerMemory, WorkerStages
<1>5. worker' = [worker EXCEPT ![w] = memory]
  BY <1>3 DEF ReadRevision, TypeInv, TypeOK
<1>6. /\ worker' \in [Workers -> WorkerMemory] /\ worker'[w] = memory
      /\ \A v \in Workers : v # w => worker'[v] = worker[v]
  BY <1>4, <1>5 DEF TypeInv, TypeOK
<1>7. WorkerHasTask'
  BY <1>1, <1>4, <1>6 DEF TypeInv, WorkerHasTask
<1> QED
  BY <1>6, <1>7 DEF ReadRevision, TypeInv, TypeOK, queueVars, QueueTypeOK

LEMMA BeginTyped ==
  ASSUME TypeInv, NEW w \in Workers, Begin(w)
  PROVE  TypeInv'
<1> DEFINE k == worker[w].task.key
           f == worker[w].fence
<1>1. worker[w].pc # "idle" /\ f \in Fences /\ k \in Keys
  BY BusyWorker DEF Begin
<1>2. attempts' \in [Fences -> AttemptRow]
  <2>1. prep[k].packet \in Nat
    BY <1>1 DEF TypeInv, TypeOK, PrepRow
  <2>2. policy \in Nat
    BY SubmissionAssumption DEF TypeInv, TypeOK
  <2>3. [key |-> k, state |-> "IN_FLIGHT", dispatched |-> FALSE,
         policy |-> policy, packet |-> prep[k].packet] \in AttemptRow
    BY <1>1, <2>1, <2>2 DEF AttemptRow, AttemptStates
  <2> QED
    BY <1>1, <2>3 DEF Begin, TypeInv, TypeOK, QueueTypeOK
<1>3. "IN_FLIGHT" \in ApplicationStates /\ "begun" \in WorkerStages
  BY DEF ApplicationStates, WorkerStages
<1>4. MoveApp(AppOfWorker(w), "IN_FLIGHT", 2) /\ Advance(w, "begun")
  BY DEF Begin, AppOfWorker
<1> QED
  BY <1>1, <1>2, <1>3, <1>4, SettlingTyped DEF Begin

LEMMA AbortBeforeDispatchTyped ==
  ASSUME TypeInv, NEW w \in Workers, AbortBeforeDispatch(w)
  PROVE  TypeInv'
<1>1. worker[w].pc # "idle" /\ worker[w].fence \in Fences
  BY BusyWorker DEF AbortBeforeDispatch
<1>2. /\ "UNSUPPORTED" \in ApplicationStates /\ "settled" \in WorkerStages
      /\ "BLOCKED_BEFORE_DISPATCH" \in AttemptStates
  BY DEF ApplicationStates, WorkerStages, AttemptStates
<1>3. attempts' \in [Fences -> AttemptRow]
  BY <1>1, <1>2, SettleTyped DEF AbortBeforeDispatch
<1> QED
  BY <1>1, <1>2, <1>3, SettlingTyped DEF AbortBeforeDispatch

LEMMA ConfirmReceiptTyped ==
  ASSUME TypeInv, NEW w \in Workers, ConfirmReceipt(w)
  PROVE  TypeInv'
<1>1. worker[w].pc # "idle" /\ worker[w].fence \in Fences
  BY BusyWorker DEF ConfirmReceipt
<1>2. /\ "CONFIRMED" \in ApplicationStates /\ "settled" \in WorkerStages
      /\ "CONFIRMED" \in AttemptStates
  BY DEF ApplicationStates, WorkerStages, AttemptStates
<1>3. attempts' \in [Fences -> AttemptRow]
  BY <1>1, <1>2, SettleTyped DEF ConfirmReceipt
<1> QED
  BY <1>1, <1>2, <1>3, SettlingTyped DEF ConfirmReceipt

LEMMA RecordDefinitiveRejectionTyped ==
  ASSUME TypeInv, NEW w \in Workers, RecordDefinitiveRejection(w)
  PROVE  TypeInv'
<1>1. worker[w].pc # "idle" /\ worker[w].fence \in Fences
  BY BusyWorker DEF RecordDefinitiveRejection
<1>2. /\ "DEFINITIVE_FAILURE" \in ApplicationStates /\ "settled" \in WorkerStages
      /\ "DEFINITIVE_FAILURE" \in AttemptStates
  BY DEF ApplicationStates, WorkerStages, AttemptStates
<1>3. attempts' \in [Fences -> AttemptRow]
  BY <1>1, <1>2, SettleTyped DEF RecordDefinitiveRejection
<1> QED
  BY <1>1, <1>2, <1>3, SettlingTyped DEF RecordDefinitiveRejection

LEMMA ReconcileEvidenceTyped ==
  ASSUME TypeInv, NEW w \in Workers, ReconcileEvidence(w)
  PROVE  TypeInv'
<1>1. worker[w].pc # "idle"
  BY DEF ReconcileEvidence
<1>2. /\ Verdict(w) \in ApplicationStates /\ "settled" \in WorkerStages
      /\ "CONFIRMED" \in AttemptStates
  BY DEF Verdict, ApplicationStates, WorkerStages, AttemptStates
<1>3. attempts' \in [Fences -> AttemptRow]
  <2>1. PICK f \in Fences :
          attempts' = IF worker[w].pc = "found"
                      THEN [attempts EXCEPT ![f].state = "CONFIRMED"]
                      ELSE attempts
    BY DEF ReconcileEvidence
  <2>2. [attempts EXCEPT ![f].state = "CONFIRMED"] \in [Fences -> AttemptRow]
    BY <1>2, SettleTyped
  <2>3. attempts \in [Fences -> AttemptRow]
    BY DEF TypeInv, TypeOK, QueueTypeOK
  <2> QED
    BY <2>1, <2>2, <2>3
<1> QED
  BY <1>1, <1>2, <1>3, SettlingTyped DEF ReconcileEvidence

LEMMA AuthorizeDispatchTyped ==
  ASSUME TypeInv, NEW w \in Workers, AuthorizeDispatch(w)
  PROVE  TypeInv'
<1>1. worker[w].pc # "idle" /\ worker[w].fence \in Fences
  BY BusyWorker DEF AuthorizeDispatch
<1>2. attempts' \in [Fences -> AttemptRow]
  BY <1>1, DispatchTyped DEF AuthorizeDispatch
<1>3. worker' \in [Workers -> WorkerMemory] /\ WorkerHasTask'
  BY <1>1, AdvanceTyped DEF AuthorizeDispatch, WorkerStages
<1> QED
  BY <1>2, <1>3 DEF AuthorizeDispatch, TypeInv, TypeOK, QueueTypeOK

LEMMA ClickTyped ==
  ASSUME TypeInv, NEW w \in Workers, Click(w)
  PROVE  TypeInv'
<1>1. worker[w].pc # "idle" /\ worker[w].fence \in Fences /\ AppOfWorker(w) \in Apps
  BY BusyWorker DEF Click, MayClick
<1>2. worker' \in [Workers -> WorkerMemory] /\ WorkerHasTask'
  BY <1>1, AdvanceTyped DEF Click, WorkerStages
<1>3. clicks' \in [Apps -> Nat]
  BY <1>1 DEF Click, TypeInv, TypeOK
<1>4. employer' \in [Fences -> {"none", "sent", "recorded", "rejected", "lost"}]
  BY <1>1 DEF Click, TypeInv, TypeOK
<1> QED
  BY <1>2, <1>3, <1>4 DEF Click, TypeInv, TypeOK, QueueTypeOK, queueVars

\* Steps that only move a worker on to another stage of its task.
LEMMA StageTyped ==
  ASSUME TypeInv, NEW w \in Workers, worker[w].pc # "idle",
         NEW pc \in WorkerStages, Advance(w, pc),
         UNCHANGED <<queueVars, policy, authority, packet, prep, latest, employer, clicks>>
  PROVE  TypeInv'
<1>1. worker' \in [Workers -> WorkerMemory] /\ WorkerHasTask'
  BY AdvanceTyped
<1> QED
  BY <1>1 DEF TypeInv, TypeOK, QueueTypeOK, queueVars

LEMMA RespondTyped ==
  ASSUME TypeInv, NEW w \in Workers, Respond(w)
  PROVE  TypeInv'
<1>1. worker[w].pc # "idle"
  BY DEF Respond
<1>2. Advance(w, "accepted") \/ Advance(w, "refused")
  BY DEF Respond
<1> QED
  BY <1>1, <1>2, StageTyped DEF Respond, WorkerStages

LEMMA LookupTyped ==
  ASSUME TypeInv, NEW w \in Workers, Lookup(w)
  PROVE  TypeInv'
<1>1. worker[w].pc # "idle"
  BY DEF Lookup
<1>2. Advance(w, "found") \/ Advance(w, "missing")
  BY DEF Lookup
<1> QED
  BY <1>1, <1>2, StageTyped DEF Lookup, WorkerStages

\* The steps that end a task: the worker forgets it.
LEMMA EndTyped ==
  ASSUME TypeInv, NEW w \in Workers, Acknowledge(w) \/ GiveUp(w) \/ Crash(w)
  PROVE  TypeInv'
<1>1. worker' \in [Workers -> WorkerMemory] /\ WorkerHasTask'
  BY ToIdleTyped DEF Acknowledge, GiveUp, Crash
<1>2. QueueTypeOK'
  <2>1. CASE Acknowledge(w)
    <3>1. worker[w].task \in TaskIds
      BY <2>1, BusyWorker DEF Acknowledge
    <3> QED
      BY <2>1, <3>1, CompleteTyped DEF Acknowledge, TypeInv, TypeOK
  <2>2. CASE GiveUp(w)
    <3>1. worker[w].task \in TaskIds
      BY <2>2 DEF GiveUp, TypeInv, WorkerHasTask
    <3>2. ASSUME NEW retryable \in BOOLEAN, Fail(worker[w].task, worker[w].fence, retryable)
          PROVE  QueueTypeOK'
      BY <3>1, <3>2, FailTyped DEF TypeInv, TypeOK
    <3>3. ASSUME UNCHANGED queueVars
          PROVE  QueueTypeOK'
      BY <3>3 DEF TypeInv, TypeOK, QueueTypeOK, queueVars
    <3> QED
      BY <2>2, <3>2, <3>3 DEF GiveUp
  <2>3. CASE Crash(w)
    BY <2>3 DEF Crash, TypeInv, TypeOK, QueueTypeOK, queueVars
  <2> QED
    BY <2>1, <2>2, <2>3
<1>3. UNCHANGED <<policy, authority, packet, prep, latest, employer, clicks>>
  BY DEF Acknowledge, GiveUp, Crash
<1> QED
  BY <1>1, <1>2, <1>3 DEF TypeInv, TypeOK

\* The steps of the queue alone.
LEMMA QueueStepTyped ==
  ASSUME TypeInv, QueueTypeOK', UNCHANGED workVars
  PROVE  TypeInv'
  BY DEF TypeInv, TypeOK, WorkerHasTask, workVars

LEMMA EmployerAnswerTyped ==
  ASSUME TypeInv, NEW f \in Fences, NEW answer \in {"recorded", "rejected", "lost"},
         EmployerAnswer(f, answer)
  PROVE  TypeInv'
<1>1. employer' \in [Fences -> {"none", "sent", "recorded", "rejected", "lost"}]
  BY DEF EmployerAnswer, TypeInv, TypeOK
<1> QED
  BY <1>1 DEF EmployerAnswer, TypeInv, TypeOK, QueueTypeOK, queueVars, WorkerHasTask

-----------------------------------------------------------------------------
(* The invariant                                                            *)

LEMMA TypeStep == TypeInv /\ [Next]_vars => TypeInv'
<1> SUFFICES ASSUME TypeInv, [Next]_vars PROVE TypeInv'
  OBVIOUS
<1>1. ASSUME NEW w \in Workers, WorkerStep(w) PROVE TypeInv'
  BY <1>1, ReadRevisionTyped, BeginTyped, AbortBeforeDispatchTyped,
     AuthorizeDispatchTyped, ClickTyped, RespondTyped, ConfirmReceiptTyped,
     RecordDefinitiveRejectionTyped, LookupTyped, ReconcileEvidenceTyped, EndTyped
  DEF WorkerStep
<1>2. ASSUME NEW w \in Workers, Poll(w) PROVE TypeInv'
  <2>1. CASE ClaimTask(w)
    BY <2>1, ClaimTaskTyped
  <2>2. CASE PollNothing(w)
    BY <2>2, ClaimNothingTyped, QueueStepTyped DEF PollNothing, TypeInv, TypeOK
  <2> QED
    BY <1>2, <2>1, <2>2 DEF Poll
<1>3. ASSUME NEW w \in Workers, Crash(w) PROVE TypeInv'
  BY <1>3, EndTyped
<1>4. ASSUME NEW w \in Workers, RenewLease(w) PROVE TypeInv'
  <2>1. worker[w].task \in TaskIds
    BY <1>4 DEF RenewLease, TypeInv, WorkerHasTask
  <2> QED
    BY <1>4, <2>1, RenewTyped, QueueStepTyped DEF RenewLease, TypeInv, TypeOK
<1>5. ASSUME NEW f \in Fences, NEW answer \in {"recorded", "rejected", "lost"},
             EmployerAnswer(f, answer)
      PROVE  TypeInv'
  BY <1>5, EmployerAnswerTyped
<1>6. ASSUME NEW t \in TaskIds, Elapse(t), UNCHANGED workVars PROVE TypeInv'
  BY <1>6, ElapseTyped, QueueStepTyped DEF TypeInv, TypeOK
<1>7. ASSUME OwnerStep PROVE TypeInv'
  <2>1. ASSUME NEW k \in Keys, NEW status \in Statuses, NEW queueSubmit \in BOOLEAN,
               Save(k, status, queueSubmit)
        PROVE  TypeInv'
    BY <2>1, SaveTyped
  <2>2. CASE PublishProfile
    BY <2>2, PublishProfileTyped
  <2>3. ASSUME NEW autoSubmit \in BOOLEAN, SaveAuthorization(autoSubmit) PROVE TypeInv'
    <3>1. autoSubmit = TRUE \/ autoSubmit = FALSE
      OBVIOUS
    <3> QED
      BY <2>3, <3>1, PolicyTyped
  <2>4. CASE RevokeAuthorization
    BY <2>4, PolicyTyped
  <2>5. ASSUME NEW patched \in ControlPatches, SetControl(patched), UNCHANGED workVars
        PROVE  TypeInv'
    BY <2>5, ControlPatchesTyped, SetControlTyped, QueueStepTyped DEF TypeInv, TypeOK
  <2>6. ASSUME NEW t \in TaskIds, CancelTask(t), UNCHANGED workVars PROVE TypeInv'
    BY <2>6, CancelTaskTyped, QueueStepTyped DEF TypeInv, TypeOK
  <2> QED
    BY <1>7, <2>1, <2>2, <2>3, <2>4, <2>5, <2>6 DEF OwnerStep
<1>8. CASE UNCHANGED vars
  BY <1>8 DEF vars, queueVars, workVars, TypeInv, TypeOK, QueueTypeOK, WorkerHasTask
<1> QED
  BY <1>1, <1>2, <1>3, <1>4, <1>5, <1>6, <1>7, <1>8 DEF Next

\* Type correctness of the protocol, and that every busy worker holds a task.
LEMMA TypeInvariance == Spec => []TypeInv
  BY TypeInit, TypeStep, PTL DEF Spec

\* Type correctness: every row written by any operation, crash or recovery has
\* the shape of its table, for all sets of applications, workers and tasks.
THEOREM TypeCorrect == Spec => []TypeOK
<1>1. TypeInv => TypeOK
  BY DEF TypeInv
<1> QED
  BY <1>1, TypeInvariance, PTL

-----------------------------------------------------------------------------
(* At most one click: the inductive invariant                               *)

\* Every fence in use was handed out by a claim.
FencesIssued ==
  /\ \A f \in Fences : attempts[f].state # "none" => f <= nextFence
  /\ \A w \in Workers : worker[w].fence <= nextFence

\* No two workers ever hold one fence.
FencesDistinct ==
  \A v, w \in Workers :
    worker[v] # Idle /\ worker[v].fence = worker[w].fence => v = w

\* A worker on its way to begin has begun nothing under its fence.
NotBegunYet ==
  \A w \in Workers :
    worker[w].pc \in {"claimed", "read"} => attempts[worker[w].fence].state = "none"

\* The handle a worker holds is that of an attempt of its own task.
HandleIsOwn ==
  \A w \in Workers :
    worker[w].pc \in HoldsHandle =>
      /\ attempts[worker[w].fence].state # "none"
      /\ attempts[worker[w].fence].key = worker[w].task.key

\* A permit that has not been used belongs to an application never pressed.
PermitUnused ==
  \A w \in Workers :
    worker[w].pc = "permitted" =>
      attempts[worker[w].fence].dispatched /\ clicks[AppOfWorker(w)] = 0

\* Whatever was pressed has a dispatched attempt on record.
ClickedWasDispatched ==
  \A a \in Apps :
    clicks[a] # 0 => \E f \in Fences : OfApp(f, a) /\ attempts[f].dispatched

\* What does not depend on the attempts table reaching back to every press: it
\* also holds of a database restored from an old copy (module Restores).
FenceInv ==
  /\ FencesIssued
  /\ FencesDistinct
  /\ NotBegunYet
  /\ HandleIsOwn
  /\ PermitUnused
  /\ SingleLiveAttempt
  /\ AtMostOneClick

ClickInv == FenceInv /\ ClickedWasDispatched

-----------------------------------------------------------------------------
(* What all steps but four have in common: the attempts on record stay on   *)
(* record, none comes to life, and no worker gains a fence, a handle or a   *)
(* permit.                                                                  *)

AttemptKept(f) ==
  /\ attempts'[f].state = "none" <=> attempts[f].state = "none"
  /\ attempts'[f].key = attempts[f].key
  /\ attempts[f].dispatched => attempts'[f].dispatched
  /\ Live(f)' => Live(f)
  /\ attempts'[f].state = "IN_FLIGHT" => attempts[f].state = "IN_FLIGHT"
  /\ attempts[f].state \in {"CONFIRMED", "DEFINITIVE_FAILURE"} =>
       attempts'[f].state = attempts[f].state
  /\ attempts[f].state = "UNKNOWN" => attempts'[f].state \in {"UNKNOWN", "CONFIRMED"}

AttemptsKept == \A f \in Fences : AttemptKept(f)

NothingGained(w) ==
  \/ worker'[w] = worker[w]
  \/ worker'[w] = Idle
  \/ /\ worker[w] # Idle
     /\ worker'[w].task = worker[w].task
     /\ worker'[w].fence = worker[w].fence
     /\ worker'[w].pc \in {"claimed", "read"} => worker[w].pc \in {"claimed", "read"}
     /\ worker'[w].pc \in HoldsHandle => worker[w].pc \in HoldsHandle
     /\ worker'[w].pc # "permitted"

\* A step that has just that in common.
Ordinary ==
  /\ AttemptsKept /\ UNCHANGED <<nextFence, clicks>>
  /\ \A w \in Workers : NothingGained(w)

\* Attempts that are left alone, or recovered, or given an outcome, are kept.
LEMMA UnchangedKeeps ==
  ASSUME attempts' = attempts
  PROVE  AttemptsKept
  BY DEF AttemptsKept, AttemptKept, Live

LEMMA RecoveryKeeps ==
  ASSUME TypeInv, NEW T, attempts' = RecoveredAttempts(T)
  PROVE  AttemptsKept
<1> SUFFICES ASSUME NEW f \in Fences
             PROVE  AttemptKept(f)
  BY DEF AttemptsKept
<1>1. attempts[f] \in AttemptRow
  BY DEF TypeInv, TypeOK, QueueTypeOK
<1>2. CASE attempts'[f] = attempts[f]
  BY <1>2 DEF AttemptKept, Live
<1>3. CASE /\ attempts[f].state = "IN_FLIGHT"
           /\ attempts'[f] = [attempts[f] EXCEPT !.state = "UNKNOWN"]
  BY <1>1, <1>3 DEF AttemptKept, Live, AttemptRow
<1> QED
  BY <1>2, <1>3 DEF RecoveredAttempts

LEMMA SettlingKeeps ==
  ASSUME TypeInv, NEW f \in Fences, NEW state \in AttemptStates \ {"none", "IN_FLIGHT"},
         \/ attempts[f].state = "IN_FLIGHT"
         \/ attempts[f].state = "UNKNOWN" /\ state = "CONFIRMED",
         attempts' = [attempts EXCEPT ![f].state = state]
  PROVE  AttemptsKept
<1> SUFFICES ASSUME NEW g \in Fences
             PROVE  AttemptKept(g)
  BY DEF AttemptsKept
<1>1. attempts \in [Fences -> AttemptRow] /\ attempts[f] \in AttemptRow
  BY DEF TypeInv, TypeOK, QueueTypeOK
<1>2. CASE g # f
  <2>1. attempts'[g] = attempts[g]
    BY <1>1, <1>2
  <2> QED
    BY <2>1 DEF AttemptKept, Live
<1>3. CASE g = f
  <2>1. attempts'[f] = [attempts[f] EXCEPT !.state = state]
    BY <1>1
  <2> QED
    BY <1>1, <1>3, <2>1 DEF AttemptKept, Live, AttemptRow
<1> QED
  BY <1>2, <1>3

\* What is kept is of the same application as before, and lives only if it did.
LEMMA KeptAttempts ==
  ASSUME AttemptsKept
  PROVE  /\ \A f \in Fences, a \in Apps : OfApp(f, a)' <=> OfApp(f, a)
         /\ \A a \in Apps : LiveOf(a)' \subseteq LiveOf(a)
<1>1. \A f \in Fences, a \in Apps : OfApp(f, a)' <=> OfApp(f, a)
  BY DEF AttemptsKept, AttemptKept, OfApp
<1>2. \A a \in Apps : LiveOf(a)' \subseteq LiveOf(a)
  BY <1>1 DEF LiveOf, AttemptsKept, AttemptKept
<1> QED
  BY <1>1, <1>2

\* An ordinary step keeps the invariant.
LEMMA OrdinaryFences ==
  ASSUME TypeInv, TypeInv', FenceInv, Ordinary
  PROVE  FenceInv'
<1>1. FencesIssued'
  <2>1. nextFence \in Nat
    BY QueueAssumption DEF TypeInv, TypeOK, QueueTypeOK
  <2>2. \A f \in Fences : attempts'[f].state # "none" => f <= nextFence'
    BY DEF FenceInv, FencesIssued, Ordinary, AttemptsKept, AttemptKept
  <2>3. ASSUME NEW w \in Workers
        PROVE  worker'[w].fence <= nextFence'
    BY <2>1 DEF FenceInv, FencesIssued, Ordinary, NothingGained, Idle
  <2> QED
    BY <2>2, <2>3 DEF FencesIssued
<1>2. FencesDistinct'
  BY DEF FenceInv, FencesDistinct, Ordinary, NothingGained, TypeInv, WorkerHasTask, Idle, Fences
<1>3. NotBegunYet'
  BY DEF FenceInv, NotBegunYet, Ordinary, NothingGained, AttemptsKept, AttemptKept, TypeInv,
         WorkerHasTask, Idle
<1>4. HandleIsOwn'
  BY DEF FenceInv, HandleIsOwn, Ordinary, NothingGained, AttemptsKept, AttemptKept, TypeInv,
         WorkerHasTask, Idle, HoldsHandle
<1>5. PermitUnused'
  BY DEF FenceInv, PermitUnused, Ordinary, NothingGained, AttemptsKept, AttemptKept, TypeInv,
         WorkerHasTask, Idle, AppOfWorker
<1>6. SingleLiveAttempt'
  BY KeptAttempts DEF FenceInv, SingleLiveAttempt, Ordinary
<1>7. AtMostOneClick'
  BY DEF FenceInv, AtMostOneClick, Ordinary
<1> QED
  BY <1>1, <1>2, <1>3, <1>4, <1>5, <1>6, <1>7 DEF FenceInv

-----------------------------------------------------------------------------
(* The four steps that do gain something                                    *)

LEMMA ClaimTaskFences ==
  ASSUME TypeInv, TypeInv', FenceInv, NEW w \in Workers, ClaimTask(w)
  PROVE  FenceInv' /\ AttemptsKept
<1>1. PICK types \in PollTypes, t \in TaskIds :
        /\ Claim(types, t)
        /\ worker' = [worker EXCEPT ![w] =
             [pc |-> "claimed", task |-> t, fence |-> nextFence + 1, revision |-> 0]]
  BY DEF ClaimTask
<1>2. nextFence' = nextFence + 1 /\ attempts' = RecoveredAttempts(Expired)
  BY <1>1 DEF Claim
<1>3. nextFence \in Nat /\ nextFence + 1 \in Fences
  BY <1>1, QueueAssumption DEF Claim, TypeInv, TypeOK, QueueTypeOK, Fences
<1>4. AttemptsKept
  BY <1>2, RecoveryKeeps
<1>5. /\ worker'[w].pc = "claimed" /\ worker'[w].fence = nextFence + 1
      /\ \A v \in Workers : v # w => worker'[v] = worker[v]
  BY <1>1 DEF TypeInv, TypeOK
<1>6. \A v \in Workers : worker[v].fence \in Nat
  BY DEF TypeInv, TypeOK, WorkerMemory
<1>7. UNCHANGED clicks
  BY DEF ClaimTask
<1>8. FencesIssued'
  BY <1>2, <1>3, <1>4, <1>5, <1>6 DEF FenceInv, FencesIssued, AttemptsKept, AttemptKept, Fences
<1>9. FencesDistinct'
  BY <1>3, <1>5, <1>6 DEF FenceInv, FencesDistinct, FencesIssued, TypeInv, WorkerHasTask
<1>10. NotBegunYet'
  <2>1. attempts'[nextFence + 1].state = "none"
    BY <1>3, <1>4 DEF FenceInv, FencesIssued, AttemptsKept, AttemptKept
  <2> QED
    BY <1>4, <1>5, <2>1
    DEF FenceInv, NotBegunYet, AttemptsKept, AttemptKept, TypeInv, WorkerHasTask, Idle
<1>11. HandleIsOwn'
  BY <1>4, <1>5
  DEF FenceInv, HandleIsOwn, HoldsHandle, AttemptsKept, AttemptKept, TypeInv, WorkerHasTask, Idle
<1>12. PermitUnused'
  BY <1>4, <1>5, <1>7
  DEF FenceInv, PermitUnused, AttemptsKept, AttemptKept, TypeInv, WorkerHasTask, Idle, AppOfWorker
<1>13. SingleLiveAttempt'
  BY <1>4, KeptAttempts DEF FenceInv, SingleLiveAttempt
<1>14. AtMostOneClick'
  BY <1>7 DEF FenceInv, AtMostOneClick
<1> QED
  BY <1>4, <1>8, <1>9, <1>10, <1>11, <1>12, <1>13, <1>14 DEF FenceInv

\* begin overwrites nothing, and finds no live attempt of its application.
LEMMA BeginRecords ==
  ASSUME TypeInv, FenceInv, NEW w \in Workers, Begin(w)
  PROVE  LET k == worker[w].task.key
             f == worker[w].fence
         IN  /\ f \in Fences /\ k \in Keys /\ AppOf[k] \in Apps
             /\ attempts[f].state = "none" /\ LiveOf(AppOf[k]) = {}
             /\ attempts'[f] = [key |-> k, state |-> "IN_FLIGHT", dispatched |-> FALSE,
                                policy |-> policy, packet |-> prep[k].packet]
             /\ \A g \in Fences : g # f => attempts'[g] = attempts[g]
<1> DEFINE k == worker[w].task.key
           f == worker[w].fence
<1>1. f \in Fences /\ k \in Keys /\ AppOf[k] \in Apps
  BY BusyWorker, QueueAssumption DEF Begin
<1>2. attempts[f].state = "none"
  BY DEF Begin, FenceInv, NotBegunYet
<1>3. LiveOf(AppOf[k]) = {}
  BY DEF Begin, NoPriorAttempt
<1>4. /\ attempts'[f] = [key |-> k, state |-> "IN_FLIGHT", dispatched |-> FALSE,
                         policy |-> policy, packet |-> prep[k].packet]
      /\ \A g \in Fences : g # f => attempts'[g] = attempts[g]
  BY <1>1 DEF Begin, TypeInv, TypeOK, QueueTypeOK
<1> QED
  BY <1>1, <1>2, <1>3, <1>4

LEMMA BeginFences ==
  ASSUME TypeInv, TypeInv', FenceInv, NEW w \in Workers, Begin(w)
  PROVE  FenceInv'
<1> DEFINE k == worker[w].task.key
           a == AppOf[k]
           f == worker[w].fence
<1>1. worker[w] # Idle /\ f \in Fences /\ k \in Keys /\ a \in Apps
  BY BusyWorker, QueueAssumption DEF Begin
<1>2. attempts[f].state = "none" /\ LiveOf(a) = {}
  BY BeginRecords
<1>3. /\ attempts'[f] = [key |-> k, state |-> "IN_FLIGHT", dispatched |-> FALSE,
                         policy |-> policy, packet |-> prep[k].packet]
      /\ \A g \in Fences : g # f => attempts'[g] = attempts[g]
  BY BeginRecords
<1>4. /\ worker'[w].pc = "begun" /\ worker'[w].fence = f /\ worker'[w].task = worker[w].task
      /\ \A v \in Workers : v # w => worker'[v] = worker[v]
  BY AdvanceKeeps DEF Begin, WorkerStages
<1>5. UNCHANGED <<nextFence, clicks>>
  BY DEF Begin
<1>6. \A v \in Workers : v # w /\ worker[v] # Idle => worker[v].fence # f
  BY <1>1 DEF FenceInv, FencesDistinct
<1>7. FencesIssued'
  BY <1>3, <1>4, <1>5 DEF FenceInv, FencesIssued
<1>8. FencesDistinct'
  BY <1>1, <1>4 DEF FenceInv, FencesDistinct
<1>9. NotBegunYet'
  BY <1>3, <1>4, <1>6 DEF FenceInv, NotBegunYet, TypeInv, WorkerHasTask, Idle
<1>10. HandleIsOwn'
  BY <1>3, <1>4, <1>6 DEF FenceInv, HandleIsOwn, HoldsHandle, TypeInv, WorkerHasTask, Idle
<1>11. PermitUnused'
  BY <1>3, <1>4, <1>5, <1>6
  DEF FenceInv, PermitUnused, TypeInv, WorkerHasTask, Idle, AppOfWorker
<1>12. SingleLiveAttempt'
  <2>1. \A b \in Apps, g \in Fences : g # f => (g \in LiveOf(b)' <=> g \in LiveOf(b))
    BY <1>3 DEF LiveOf, OfApp, Live
  <2>2. \A b \in Apps : f \in LiveOf(b)' => b = a
    BY <1>3 DEF LiveOf, OfApp
  <2>3. \A b \in Apps : LiveOf(b)' \subseteq Fences
    BY DEF LiveOf
  <2> QED
    BY <1>2, <2>1, <2>2, <2>3 DEF FenceInv, SingleLiveAttempt
<1>13. AtMostOneClick'
  BY <1>5 DEF FenceInv, AtMostOneClick
<1> QED
  BY <1>7, <1>8, <1>9, <1>10, <1>11, <1>12, <1>13 DEF FenceInv

\* authorizeDispatch finds an attempt that is live and was never dispatched.
LEMMA AuthorizeFinds ==
  ASSUME TypeInv, FenceInv, NEW w \in Workers, AuthorizeDispatch(w)
  PROVE  LET f == worker[w].fence
         IN  /\ f \in Fences /\ AppOfWorker(w) \in Apps
             /\ attempts[f].state = "IN_FLIGHT" /\ ~attempts[f].dispatched
             /\ AppOf[attempts[f].key] = AppOfWorker(w)
             /\ OfApp(f, AppOfWorker(w)) /\ f \in LiveOf(AppOfWorker(w))
<1> DEFINE f == worker[w].fence
<1>1. f \in Fences /\ AppOfWorker(w) \in Apps
  BY BusyWorker DEF AuthorizeDispatch
<1>2. attempts[f].state = "IN_FLIGHT" /\ ~attempts[f].dispatched
  BY DEF AuthorizeDispatch, InFlight, Undispatched
<1>3. attempts[f].key = worker[w].task.key
  BY DEF AuthorizeDispatch, FenceInv, HandleIsOwn, HoldsHandle
<1> QED
  BY <1>1, <1>2, <1>3 DEF OfApp, LiveOf, Live, AppOfWorker

\* A permit is good for one press, unless the application had been pressed.
LEMMA AuthorizeDispatchFences ==
  ASSUME TypeInv, TypeInv', FenceInv, NEW w \in Workers, AuthorizeDispatch(w),
         clicks[AppOfWorker(w)] = 0
  PROVE  FenceInv' /\ AttemptsKept
<1> DEFINE a == AppOfWorker(w)
           f == worker[w].fence
<1>1. worker[w] # Idle /\ f \in Fences /\ a \in Apps
  BY BusyWorker DEF AuthorizeDispatch
<1>2. attempts[f].state = "IN_FLIGHT" /\ ~attempts[f].dispatched
  BY AuthorizeFinds
<1>3. attempts[f].key = worker[w].task.key
  BY DEF AuthorizeDispatch, FenceInv, HandleIsOwn, HoldsHandle
<1>4. /\ attempts'[f] = [attempts[f] EXCEPT !.dispatched = TRUE]
      /\ \A g \in Fences : g # f => attempts'[g] = attempts[g]
  BY <1>1 DEF AuthorizeDispatch, TypeInv, TypeOK, QueueTypeOK
<1>5. attempts'[f].dispatched /\ attempts'[f].state = "IN_FLIGHT"
      /\ attempts'[f].key = attempts[f].key
  BY <1>1, <1>2, <1>4 DEF TypeInv, TypeOK, QueueTypeOK, AttemptRow
<1>6. /\ worker'[w].pc = "permitted" /\ worker'[w].fence = f
      /\ worker'[w].task = worker[w].task
      /\ \A v \in Workers : v # w => worker'[v] = worker[v]
  BY AdvanceKeeps DEF AuthorizeDispatch, WorkerStages
<1>7. UNCHANGED <<nextFence, clicks>>
  BY DEF AuthorizeDispatch
<1>8. AttemptsKept
  BY <1>2, <1>4, <1>5 DEF AttemptsKept, AttemptKept, Live
<1>9. FencesIssued'
  BY <1>6, <1>7, <1>8 DEF FenceInv, FencesIssued, AttemptsKept, AttemptKept
<1>10. FencesDistinct'
  BY <1>1, <1>6 DEF FenceInv, FencesDistinct
<1>11. NotBegunYet'
  BY <1>6, <1>8
  DEF FenceInv, NotBegunYet, AttemptsKept, AttemptKept, TypeInv, WorkerHasTask, Idle
<1>12. HandleIsOwn'
  BY <1>2, <1>3, <1>5, <1>6, <1>8
  DEF FenceInv, HandleIsOwn, HoldsHandle, AttemptsKept, AttemptKept, TypeInv, WorkerHasTask, Idle
<1>13. PermitUnused'
  BY <1>5, <1>6, <1>7, <1>8
  DEF FenceInv, PermitUnused, AttemptsKept, AttemptKept, TypeInv, WorkerHasTask, Idle, AppOfWorker
<1>14. SingleLiveAttempt'
  BY <1>8, KeptAttempts DEF FenceInv, SingleLiveAttempt
<1>15. AtMostOneClick'
  BY <1>7 DEF FenceInv, AtMostOneClick
<1> QED
  BY <1>8, <1>9, <1>10, <1>11, <1>12, <1>13, <1>14, <1>15 DEF FenceInv

\* The press itself: the permit it uses up was the only one of its application.
LEMMA ClickUses ==
  ASSUME TypeInv, FenceInv, NEW w \in Workers, Click(w)
  PROVE  LET a == AppOfWorker(w)
             f == worker[w].fence
         IN  /\ f \in Fences /\ a \in Apps
             /\ OfApp(f, a) /\ f \in LiveOf(a) /\ attempts[f].dispatched
             /\ clicks[a] = 0 /\ clicks'[a] = 1
             /\ \A b \in Apps : b # a => clicks'[b] = clicks[b]
             /\ UNCHANGED <<nextFence, attempts>>
<1> DEFINE a == AppOfWorker(w)
           f == worker[w].fence
<1>1. /\ f \in Fences /\ a \in Apps /\ worker[w].task.key \in Keys
  BY BusyWorker DEF Click, MayClick
<1>2. clicks[a] = 0 /\ attempts[f].dispatched
  BY DEF Click, MayClick, FenceInv, PermitUnused
<1>3. clicks'[a] = 1 /\ \A b \in Apps : b # a => clicks'[b] = clicks[b]
  BY <1>1, <1>2 DEF Click, TypeInv, TypeOK
<1>4. attempts[f].state # "none" /\ attempts[f].key = worker[w].task.key
  BY DEF Click, MayClick, FenceInv, HandleIsOwn, HoldsHandle
<1>5. OfApp(f, a) /\ f \in LiveOf(a)
  BY <1>1, <1>2, <1>4 DEF OfApp, LiveOf, Live, AppOfWorker
<1>6. UNCHANGED <<nextFence, attempts>>
  BY DEF Click, queueVars
<1> QED
  BY <1>1, <1>2, <1>3, <1>5, <1>6

LEMMA ClickFences ==
  ASSUME TypeInv, TypeInv', FenceInv, NEW w \in Workers, Click(w)
  PROVE  FenceInv'
<1> DEFINE a == AppOfWorker(w)
           f == worker[w].fence
<1>1. /\ worker[w] # Idle /\ f \in Fences /\ a \in Apps
  BY BusyWorker DEF Click, MayClick
<1>2. /\ worker'[w].pc = "clicked" /\ worker'[w].fence = f
      /\ worker'[w].task = worker[w].task
      /\ \A v \in Workers : v # w => worker'[v] = worker[v]
  BY AdvanceKeeps DEF Click, WorkerStages
<1>3. UNCHANGED <<nextFence, attempts>>
  BY ClickUses
<1>4. f \in LiveOf(a)
  BY ClickUses
<1>5. clicks'[a] = 1 /\ \A b \in Apps : b # a => clicks'[b] = clicks[b]
  BY ClickUses
<1>6. FencesIssued'
  BY <1>2, <1>3 DEF FenceInv, FencesIssued
<1>7. FencesDistinct'
  BY <1>1, <1>2 DEF FenceInv, FencesDistinct
<1>8. NotBegunYet'
  BY <1>2, <1>3 DEF FenceInv, NotBegunYet
<1>9. HandleIsOwn'
  BY <1>2, <1>3 DEF FenceInv, HandleIsOwn, HoldsHandle, Click, MayClick
<1>10. PermitUnused'
  <2> SUFFICES ASSUME NEW v \in Workers, worker'[v].pc = "permitted"
               PROVE  attempts[worker[v].fence].dispatched /\ clicks'[AppOfWorker(v)] = 0
                      /\ worker'[v] = worker[v]
    BY <1>2, <1>3 DEF PermitUnused, AppOfWorker
  <2>1. v # w /\ worker'[v] = worker[v] /\ worker[v].pc = "permitted"
    BY <1>2
  <2>2. worker[v] # Idle /\ worker[v].fence \in Fences /\ AppOfWorker(v) \in Apps
    BY <2>1, BusyWorker
  <2>3. attempts[worker[v].fence].dispatched /\ clicks[AppOfWorker(v)] = 0
    BY <2>1 DEF FenceInv, PermitUnused
  <2>4. AppOfWorker(v) # a
    <3> SUFFICES ASSUME AppOfWorker(v) = a PROVE FALSE
      OBVIOUS
    <3>1. /\ attempts[worker[v].fence].state # "none"
          /\ attempts[worker[v].fence].key = worker[v].task.key
      BY <2>1 DEF FenceInv, HandleIsOwn, HoldsHandle
    <3>2. worker[v].fence \in LiveOf(a)
      BY <2>2, <2>3, <3>1 DEF LiveOf, OfApp, Live, AppOfWorker
    <3>3. worker[v].fence = f
      BY <1>1, <1>4, <3>2 DEF FenceInv, SingleLiveAttempt
    <3> QED
      BY <1>1, <2>1, <2>2, <3>3 DEF FenceInv, FencesDistinct
  <2> QED
    BY <1>5, <2>1, <2>2, <2>3, <2>4
<1>11. SingleLiveAttempt'
  BY <1>3 DEF FenceInv, SingleLiveAttempt, LiveOf, OfApp, Live
<1>12. AtMostOneClick'
  BY <1>1, <1>5 DEF FenceInv, AtMostOneClick
<1> QED
  BY <1>6, <1>7, <1>8, <1>9, <1>10, <1>11, <1>12 DEF FenceInv

-----------------------------------------------------------------------------
(* All the other steps are ordinary                                         *)

\* A worker that advances to a stage that gains nothing.
LEMMA AdvanceGainsNothing ==
  ASSUME TypeInv, NEW w \in Workers, NEW pc \in WorkerStages, Advance(w, pc),
         worker[w].pc # "idle", pc \notin {"claimed", "read", "permitted"},
         pc \in HoldsHandle => worker[w].pc \in HoldsHandle
  PROVE  \A v \in Workers : NothingGained(v)
<1>1. worker[w] # Idle
  BY BusyWorker
<1> QED
  BY <1>1, AdvanceKeeps DEF NothingGained

LEMMA ForgettingGainsNothing ==
  ASSUME TypeInv, NEW w \in Workers, worker' = [worker EXCEPT ![w] = Idle]
  PROVE  \A v \in Workers : NothingGained(v)
  BY DEF NothingGained, TypeInv, TypeOK

\* The queue's operations, on whoever's behalf, keep the attempts on record.
LEMMA FailKeeps ==
  ASSUME TypeInv, NEW t, NEW fence, NEW retryable, Fail(t, fence, retryable)
  PROVE  AttemptsKept /\ UNCHANGED nextFence
<1>1. attempts' = attempts \/ attempts' = RecoveredAttempts({t})
  BY DEF Fail, RecoverTasks
<1> QED
  BY <1>1, UnchangedKeeps, RecoveryKeeps DEF Fail

LEMMA SetControlKeeps ==
  ASSUME TypeInv, NEW patched, SetControl(patched)
  PROVE  AttemptsKept /\ UNCHANGED nextFence
<1>1. \/ attempts' = attempts
      \/ attempts' = RecoveredAttempts({t \in Leased : t.type = "submit"})
  BY DEF SetControl, RecoverTasks
<1> QED
  BY <1>1, UnchangedKeeps, RecoveryKeeps DEF SetControl

LEMMA CancelTaskKeeps ==
  ASSUME TypeInv, NEW t, CancelTask(t)
  PROVE  AttemptsKept /\ UNCHANGED nextFence
  BY RecoveryKeeps DEF CancelTask, RecoverTasks

LEMMA ReadRevisionOrdinary ==
  ASSUME TypeInv, NEW w \in Workers, ReadRevision(w)
  PROVE  Ordinary
<1>1. worker[w] # Idle
  BY BusyWorker DEF ReadRevision
<1>2. worker[w] \in WorkerMemory
  BY DEF TypeInv, TypeOK
<1>3. /\ worker'[w] = [worker[w] EXCEPT !.pc = "read",
                                        !.revision = apps[AppOfWorker(w)].revision]
      /\ \A v \in Workers : v # w => worker'[v] = worker[v]
  BY DEF ReadRevision, TypeInv, TypeOK
<1>4. /\ worker'[w].pc = "read" /\ worker'[w].task = worker[w].task
      /\ worker'[w].fence = worker[w].fence
  BY <1>2, <1>3 DEF WorkerMemory
<1>5. \A v \in Workers : NothingGained(v)
  BY <1>1, <1>3, <1>4 DEF NothingGained, ReadRevision, HoldsHandle
<1>6. AttemptsKept /\ UNCHANGED <<nextFence, clicks>>
  BY UnchangedKeeps DEF ReadRevision, queueVars
<1> QED
  BY <1>5, <1>6 DEF Ordinary

LEMMA AbortBeforeDispatchOrdinary ==
  ASSUME TypeInv, NEW w \in Workers, AbortBeforeDispatch(w)
  PROVE  Ordinary
<1>1. worker[w].pc # "idle" /\ worker[w].fence \in Fences
  BY BusyWorker DEF AbortBeforeDispatch
<1>2. \A v \in Workers : NothingGained(v)
  BY <1>1, AdvanceGainsNothing DEF AbortBeforeDispatch, WorkerStages, HoldsHandle
<1> DEFINE f == worker[w].fence
<1>3. AttemptsKept
  <2>1. attempts[f].state = "IN_FLIGHT"
    BY DEF AbortBeforeDispatch, InFlight
  <2>2. "BLOCKED_BEFORE_DISPATCH" \in AttemptStates \ {"none", "IN_FLIGHT"}
    BY DEF AttemptStates
  <2>3. attempts' = [attempts EXCEPT ![f].state = "BLOCKED_BEFORE_DISPATCH"]
    BY DEF AbortBeforeDispatch
  <2> HIDE DEF f
  <2> QED
    BY <1>1, <2>1, <2>2, <2>3, SettlingKeeps DEF f
<1> QED
  BY <1>2, <1>3 DEF AbortBeforeDispatch, Ordinary

LEMMA RespondOrdinary ==
  ASSUME TypeInv, NEW w \in Workers, Respond(w)
  PROVE  Ordinary
<1>1. worker[w].pc = "clicked" /\ (Advance(w, "accepted") \/ Advance(w, "refused"))
  BY DEF Respond
<1>2. \A v \in Workers : NothingGained(v)
  BY <1>1, AdvanceGainsNothing DEF WorkerStages, HoldsHandle
<1>3. AttemptsKept /\ UNCHANGED <<nextFence, clicks>>
  BY UnchangedKeeps DEF Respond, queueVars
<1> QED
  BY <1>2, <1>3 DEF Ordinary

LEMMA ConfirmReceiptOrdinary ==
  ASSUME TypeInv, NEW w \in Workers, ConfirmReceipt(w)
  PROVE  Ordinary
<1>1. worker[w].pc # "idle" /\ worker[w].fence \in Fences
  BY BusyWorker DEF ConfirmReceipt
<1>2. \A v \in Workers : NothingGained(v)
  BY <1>1, AdvanceGainsNothing DEF ConfirmReceipt, WorkerStages, HoldsHandle
<1>3. AttemptsKept
  BY <1>1, SettlingKeeps DEF ConfirmReceipt, InFlight, AttemptStates
<1> QED
  BY <1>2, <1>3 DEF ConfirmReceipt, Ordinary

LEMMA RecordDefinitiveRejectionOrdinary ==
  ASSUME TypeInv, NEW w \in Workers, RecordDefinitiveRejection(w)
  PROVE  Ordinary
<1>1. worker[w].pc # "idle" /\ worker[w].fence \in Fences
  BY BusyWorker DEF RecordDefinitiveRejection
<1>2. \A v \in Workers : NothingGained(v)
  BY <1>1, AdvanceGainsNothing DEF RecordDefinitiveRejection, WorkerStages, HoldsHandle
<1>3. AttemptsKept
  BY <1>1, SettlingKeeps DEF RecordDefinitiveRejection, InFlight, AttemptStates
<1> QED
  BY <1>2, <1>3 DEF RecordDefinitiveRejection, Ordinary

LEMMA LookupOrdinary ==
  ASSUME TypeInv, NEW w \in Workers, Lookup(w)
  PROVE  Ordinary
<1>1. worker[w].pc = "claimed" /\ (Advance(w, "found") \/ Advance(w, "missing"))
  BY DEF Lookup
<1>2. \A v \in Workers : NothingGained(v)
  BY <1>1, AdvanceGainsNothing DEF WorkerStages, HoldsHandle
<1>3. AttemptsKept /\ UNCHANGED <<nextFence, clicks>>
  BY UnchangedKeeps DEF Lookup, queueVars
<1> QED
  BY <1>2, <1>3 DEF Ordinary

LEMMA ReconcileEvidenceOrdinary ==
  ASSUME TypeInv, NEW w \in Workers, ReconcileEvidence(w)
  PROVE  Ordinary
<1>1. worker[w].pc # "idle"
  BY DEF ReconcileEvidence
<1>2. \A v \in Workers : NothingGained(v)
  BY <1>1, AdvanceGainsNothing DEF ReconcileEvidence, WorkerStages, HoldsHandle
<1>3. AttemptsKept
  <2>1. PICK f \in Fences :
          /\ attempts[f].state = "UNKNOWN"
          /\ \/ attempts' = [attempts EXCEPT ![f].state = "CONFIRMED"]
             \/ attempts' = attempts
    BY DEF ReconcileEvidence
  <2>2. "CONFIRMED" \in AttemptStates \ {"none", "IN_FLIGHT"}
    BY DEF AttemptStates
  <2>3. CASE attempts' = [attempts EXCEPT ![f].state = "CONFIRMED"]
    BY <2>1, <2>2, <2>3, SettlingKeeps
  <2>4. CASE attempts' = attempts
    BY <2>4, UnchangedKeeps
  <2> QED
    BY <2>1, <2>3, <2>4
<1> QED
  BY <1>2, <1>3 DEF ReconcileEvidence, Ordinary

LEMMA EndOrdinary ==
  ASSUME TypeInv, NEW w \in Workers, Acknowledge(w) \/ GiveUp(w) \/ Crash(w)
  PROVE  Ordinary
<1>1. \A v \in Workers : NothingGained(v)
  BY ForgettingGainsNothing DEF Acknowledge, GiveUp, Crash
<1>2. AttemptsKept /\ UNCHANGED nextFence
  <2>1. CASE Acknowledge(w)
    BY <2>1, UnchangedKeeps DEF Acknowledge, Complete
  <2>2. CASE GiveUp(w)
    BY <2>2, FailKeeps, UnchangedKeeps DEF GiveUp, queueVars
  <2>3. CASE Crash(w)
    BY <2>3, UnchangedKeeps DEF Crash, queueVars
  <2> QED
    BY <2>1, <2>2, <2>3
<1>3. UNCHANGED clicks
  BY DEF Acknowledge, GiveUp, Crash
<1> QED
  BY <1>1, <1>2, <1>3 DEF Ordinary

\* Steps that leave the workers and the clicks alone.
LEMMA QuietOrdinary ==
  ASSUME AttemptsKept, UNCHANGED <<nextFence, worker, clicks>>
  PROVE  Ordinary
  BY DEF Ordinary, NothingGained

LEMMA OwnerOrdinary ==
  ASSUME TypeInv, OwnerStep
  PROVE  Ordinary
<1>1. ASSUME NEW k \in Keys, NEW status \in Statuses, NEW queueSubmit \in BOOLEAN,
             Save(k, status, queueSubmit)
      PROVE  Ordinary
  BY <1>1, UnchangedKeeps, QuietOrdinary DEF Save, SavePreparation
<1>2. CASE PublishProfile
  BY <1>2, RecoveryKeeps, QuietOrdinary DEF PublishProfile
<1>3. ASSUME NEW autoSubmit \in BOOLEAN, SaveAuthorization(autoSubmit)
      PROVE  Ordinary
  BY <1>3, RecoveryKeeps, QuietOrdinary DEF SaveAuthorization, RecoverTasks
<1>4. CASE RevokeAuthorization
  BY <1>4, RecoveryKeeps, QuietOrdinary DEF RevokeAuthorization, RecoverTasks
<1>5. ASSUME NEW patched \in ControlPatches, SetControl(patched), UNCHANGED workVars
      PROVE  Ordinary
  BY <1>5, SetControlKeeps, QuietOrdinary DEF workVars
<1>6. ASSUME NEW t \in TaskIds, CancelTask(t), UNCHANGED workVars
      PROVE  Ordinary
  BY <1>6, CancelTaskKeeps, QuietOrdinary DEF workVars
<1> QED
  BY <1>1, <1>2, <1>3, <1>4, <1>5, <1>6 DEF OwnerStep

\* A step is one of the four or ordinary.
Extraordinary(w) == ClaimTask(w) \/ Begin(w) \/ AuthorizeDispatch(w) \/ Click(w)

LEMMA StepOrdinary ==
  ASSUME TypeInv, [Next]_vars
  PROVE  Ordinary \/ \E w \in Workers : Extraordinary(w)
<1>1. ASSUME NEW w \in Workers, WorkerStep(w) PROVE Ordinary \/ Extraordinary(w)
  BY <1>1, ReadRevisionOrdinary, AbortBeforeDispatchOrdinary, RespondOrdinary,
     ConfirmReceiptOrdinary, RecordDefinitiveRejectionOrdinary, LookupOrdinary,
     ReconcileEvidenceOrdinary, EndOrdinary
  DEF WorkerStep, Extraordinary
<1>2. ASSUME NEW w \in Workers, Poll(w) PROVE Ordinary \/ Extraordinary(w)
  <2>1. CASE PollNothing(w)
    <3>1. AttemptsKept /\ UNCHANGED <<nextFence, worker, clicks>>
      BY <2>1, RecoveryKeeps DEF PollNothing, ClaimNothing, RecoverTasks, workVars
    <3> QED
      BY <3>1, QuietOrdinary
  <2> QED
    BY <1>2, <2>1 DEF Poll, Extraordinary
<1>3. ASSUME NEW w \in Workers, Crash(w) PROVE Ordinary
  BY <1>3, EndOrdinary
<1>4. ASSUME NEW w \in Workers, RenewLease(w) PROVE Ordinary
  BY <1>4, UnchangedKeeps, QuietOrdinary DEF RenewLease, Renew, workVars
<1>5. ASSUME NEW f \in Fences, NEW answer \in {"recorded", "rejected", "lost"},
             EmployerAnswer(f, answer)
      PROVE  Ordinary
  BY <1>5, UnchangedKeeps, QuietOrdinary DEF EmployerAnswer, queueVars
<1>6. ASSUME NEW t \in TaskIds, Elapse(t), UNCHANGED workVars PROVE Ordinary
  BY <1>6, UnchangedKeeps, QuietOrdinary DEF Elapse, workVars
<1>7. ASSUME OwnerStep PROVE Ordinary
  BY <1>7, OwnerOrdinary
<1>8. CASE UNCHANGED vars
  BY <1>8, UnchangedKeeps, QuietOrdinary DEF vars, queueVars, workVars
<1> QED
  BY <1>1, <1>2, <1>3, <1>4, <1>5, <1>6, <1>7, <1>8 DEF Next

-----------------------------------------------------------------------------
(* The theorems                                                             *)

LEMMA FenceInit ==
  ASSUME QueueInit, worker = [w \in Workers |-> Idle], clicks = [a \in Apps |-> 0]
  PROVE  FenceInv
<1>1. /\ \A f \in Fences : attempts[f] = NoAttempt
      /\ \A w \in Workers : worker[w] = Idle
      /\ \A a \in Apps : clicks[a] = 0
      /\ nextFence = 0
  BY DEF QueueInit
<1>2. FencesIssued /\ FencesDistinct
  BY <1>1 DEF FencesIssued, FencesDistinct, NoAttempt, Idle
<1>3. NotBegunYet /\ HandleIsOwn /\ PermitUnused
  BY <1>1 DEF NotBegunYet, HandleIsOwn, PermitUnused, HoldsHandle, Idle
<1>4. AtMostOneClick
  BY <1>1 DEF AtMostOneClick
<1>5. SingleLiveAttempt
  BY <1>1 DEF SingleLiveAttempt, LiveOf, OfApp, NoAttempt
<1> QED
  BY <1>2, <1>3, <1>4, <1>5 DEF FenceInv

LEMMA ClickInit == Init => ClickInv
<1> SUFFICES ASSUME Init PROVE ClickInv
  OBVIOUS
<1>1. FenceInv
  BY FenceInit DEF Init
<1>2. ClickedWasDispatched
  BY DEF Init, ClickedWasDispatched
<1> QED
  BY <1>1, <1>2 DEF ClickInv

\* What was pressed stays on record as long as no attempt is lost.
LEMMA PressesStayDispatched ==
  ASSUME ClickedWasDispatched, AttemptsKept, UNCHANGED clicks
  PROVE  ClickedWasDispatched'
  BY KeptAttempts DEF ClickedWasDispatched, AttemptsKept, AttemptKept

\* An attempt found undispatched is of an application never pressed: had it
\* been, its one live attempt would have been dispatched.
LEMMA UndispatchedUnpressed ==
  ASSUME TypeInv, ClickInv, NEW w \in Workers, AuthorizeDispatch(w)
  PROVE  clicks[AppOfWorker(w)] = 0
<1> DEFINE a == AppOfWorker(w)
           f == worker[w].fence
<1> SUFFICES ASSUME clicks[a] # 0 PROVE FALSE
  OBVIOUS
<1>1. /\ f \in Fences /\ a \in Apps /\ ~attempts[f].dispatched /\ f \in LiveOf(a)
  BY AuthorizeFinds DEF ClickInv
<1>2. PICK g \in Fences : OfApp(g, a) /\ attempts[g].dispatched
  BY <1>1 DEF ClickInv, ClickedWasDispatched
<1>3. g \in LiveOf(a)
  BY <1>2 DEF LiveOf, OfApp, Live
<1>4. g = f
  BY <1>1, <1>3 DEF ClickInv, FenceInv, SingleLiveAttempt
<1> QED
  BY <1>1, <1>2, <1>4

LEMMA ClickStep == TypeInv /\ TypeInv' /\ ClickInv /\ [Next]_vars => ClickInv'
<1> SUFFICES ASSUME TypeInv, TypeInv', ClickInv, [Next]_vars PROVE ClickInv'
  OBVIOUS
<1>1. FenceInv /\ ClickedWasDispatched
  BY DEF ClickInv
<1>2. CASE Ordinary
  BY <1>1, <1>2, OrdinaryFences, PressesStayDispatched DEF Ordinary, ClickInv
<1>3. ASSUME NEW w \in Workers, ClaimTask(w) PROVE ClickInv'
  BY <1>1, <1>3, ClaimTaskFences, PressesStayDispatched DEF ClaimTask, ClickInv
<1>4. ASSUME NEW w \in Workers, Begin(w) PROVE ClickInv'
  <2>1. ClickedWasDispatched'
    <3>1. /\ attempts[worker[w].fence].state = "none"
          /\ \A g \in Fences : g # worker[w].fence => attempts'[g] = attempts[g]
      BY <1>1, <1>4, BeginRecords
    <3>2. \A a \in Apps : clicks'[a] = clicks[a]
      BY <1>4 DEF Begin
    <3>3. ASSUME NEW a \in Apps, NEW g \in Fences, OfApp(g, a), attempts[g].dispatched
          PROVE  OfApp(g, a)' /\ attempts'[g].dispatched
      BY <3>1, <3>3 DEF OfApp
    <3> QED
      BY <1>1, <3>2, <3>3 DEF ClickedWasDispatched
  <2> QED
    BY <1>1, <1>4, <2>1, BeginFences DEF ClickInv
<1>5. ASSUME NEW w \in Workers, AuthorizeDispatch(w) PROVE ClickInv'
  <2>1. clicks[AppOfWorker(w)] = 0
    BY <1>5, UndispatchedUnpressed
  <2>2. UNCHANGED clicks
    BY <1>5 DEF AuthorizeDispatch
  <2> QED
    BY <1>1, <1>5, <2>1, <2>2, AuthorizeDispatchFences, PressesStayDispatched DEF ClickInv
<1>6. ASSUME NEW w \in Workers, Click(w) PROVE ClickInv'
  <2>1. ClickedWasDispatched'
    BY <1>1, <1>6, ClickUses DEF ClickedWasDispatched, OfApp
  <2> QED
    BY <1>1, <1>6, <2>1, ClickFences DEF ClickInv
<1> QED
  BY <1>2, <1>3, <1>4, <1>5, <1>6, StepOrdinary DEF Extraordinary

LEMMA ClickInvariance == Spec => []ClickInv
  BY ClickInit, ClickStep, TypeInvariance, PTL DEF Spec

\* An application's final button is pressed at most once, whatever crashes,
\* lapses, is paused or is retried, for all applications, workers and tasks.
THEOREM AtMostOnce == Spec => []AtMostOneClick
<1>1. ClickInv => AtMostOneClick
  BY DEF ClickInv, FenceInv
<1> QED
  BY <1>1, ClickInvariance, PTL

\* begin never records a second attempt beside one that may have been
\* dispatched, whichever preparation or worker it comes from.
THEOREM OneLiveAttempt == Spec => []SingleLiveAttempt
<1>1. ClickInv => SingleLiveAttempt
  BY DEF ClickInv, FenceInv
<1> QED
  BY <1>1, ClickInvariance, PTL

-----------------------------------------------------------------------------
(* The invariants of leases and outcomes                                    *)

\* The lease invariant, with what makes counting leases meaningful.
LeaseInv == IsFiniteSet(Leased) /\ LeasesStayAdmissible

\* What an application is in while one of its attempts has no final outcome,
\* or a confirmed one.
Standing(state) ==
  CASE state = "IN_FLIGHT" -> {"IN_FLIGHT"}
    [] state = "UNKNOWN" -> {"UNKNOWN", "NEEDS_REVIEW"}
    [] state = "CONFIRMED" -> {"CONFIRMED"}
    [] OTHER -> ApplicationStates

\* Each attempt is of an application that stands as the attempt does; one that
\* was aborted was never dispatched.
AttemptsStand ==
  \A f \in Fences : attempts[f].state # "none" =>
    /\ attempts[f].key \in Keys
    /\ apps[AppOf[attempts[f].key]].state \in Standing(attempts[f].state)
    /\ attempts[f].state = "BLOCKED_BEFORE_DISPATCH" => ~attempts[f].dispatched

Attempted(a, state) == \E f \in Fences : OfApp(f, a) /\ attempts[f].state = state

\* And no application stands so without an attempt: the one in flight is that
\* of the commit fence.
AppAttempted(a) ==
  /\ apps[a].state = "IN_FLIGHT" =>
       \E f \in Fences : /\ OfApp(f, a) /\ f = apps[a].commitFence
                         /\ attempts[f].state = "IN_FLIGHT"
  /\ apps[a].state \in {"UNKNOWN", "NEEDS_REVIEW"} => Attempted(a, "UNKNOWN")
  /\ apps[a].state = "CONFIRMED" => Attempted(a, "CONFIRMED")
  /\ apps[a].state # "RECONCILING"

AppsAttempted == \A a \in Apps : AppAttempted(a)

TablesAgree == AttemptsStand /\ AppsAttempted

\* A lease stands behind every application in flight.
InFlightLeased ==
  \A a \in Apps : apps[a].state = "IN_FLIGHT" =>
    \E t \in Leased :
      t.type = "submit" /\ AppOf[t.key] = a /\ tasks[t].fence = apps[a].commitFence

Pending(t) == tasks[t].state \in {"ready", "leased", "retry_wait", "dead"}

UnknownPending ==
  \A a \in Apps : apps[a].state = "UNKNOWN" =>
    \E t \in TaskIds : t.type = "reconcile" /\ AppOf[t.key] = a /\ Pending(t)

\* There is nothing to reconcile before an attempt has been lost: a reconcile
\* task that is needed cannot have been used up.
ReconcileFollowsLoss ==
  \A t \in TaskIds : t.type = "reconcile" /\ tasks[t].state # "absent" =>
    Attempted(AppOf[t.key], "UNKNOWN") \/ Attempted(AppOf[t.key], "CONFIRMED")

\* A submit task is made of a preparation saved with it.
SubmitIsPrepared ==
  \A t \in TaskIds : t.type = "submit" /\ tasks[t].state # "absent" =>
    prep[t.key].status # "none"

\* What a worker is at tells what its task is, and what came of it.
StageTellsTask ==
  \A w \in Workers :
    /\ worker[w].pc \in HoldsHandle \cup {"read"} => worker[w].task.type = "submit"
    /\ worker[w].pc = "settled" /\ worker[w].task.type = "reconcile" =>
         apps[AppOfWorker(w)].state \in {"NEEDS_REVIEW", "CONFIRMED"}

WorkInv ==
  /\ InFlightLeased /\ UnknownPending /\ ReconcileFollowsLoss
  /\ SubmitIsPrepared /\ StageTellsTask

\* Whatever reached the employer was dispatched, and what is on record of its
\* answer is true.
RecordsAreTrue ==
  \A f \in Fences :
    /\ employer[f] # "none" => attempts[f].dispatched
    /\ attempts[f].dispatched => attempts[f].state # "none"
    /\ attempts[f].state = "CONFIRMED" => employer[f] = "recorded"
    /\ attempts[f].state = "DEFINITIVE_FAILURE" => employer[f] = "rejected"

\* What a worker takes to have happened did.
Heard(w) ==
  LET f == worker[w].fence IN
  /\ worker[w].pc = "begun" => ~attempts[f].dispatched
  /\ worker[w].pc = "permitted" => employer[f] = "none"
  /\ worker[w].pc = "accepted" => employer[f] = "recorded"
  /\ worker[w].pc = "refused" => employer[f] = "rejected"
  /\ worker[w].pc = "found" =>
       \E g \in Fences : OfApp(g, AppOfWorker(w)) /\ employer[g] = "recorded"

HeardIsTrue == \A w \in Workers : Heard(w)

EmployerInv == RecordsAreTrue /\ HeardIsTrue

-----------------------------------------------------------------------------
(* What the operations of the queue do to the tables                        *)

\* The stages past a final action, which only its outcome leads into or out of.
Committed == Uncertain \cup {"CONFIRMED"}

\* Recovering the tasks of T interrupts the attempts of their applications and
\* leaves all other applications where they were, as far as attempts go.
AppsRecovered(T) ==
  /\ attempts' = RecoveredAttempts(T)
  /\ \A a \in Apps :
       IF a \in Interrupted(T) THEN apps'[a].state = "UNKNOWN"
       ELSE \/ /\ apps'[a].state = apps[a].state
               /\ apps'[a].commitFence = apps[a].commitFence
            \/ apps[a].state \notin Committed /\ apps'[a].state \notin Committed

\* What is left of the tasks of an application that may have been sent, and
\* which tasks appear.
TasksRecovered(T) ==
  \A t \in TaskIds :
    /\ t \in Leased \ T /\ t.type = "submit" /\ apps[AppOf[t.key]].state = "IN_FLIGHT" =>
         tasks'[t].state = "leased" /\ tasks'[t].fence = tasks[t].fence
    /\ t.type = "reconcile" /\ Pending(t) /\ apps[AppOf[t.key]].state = "UNKNOWN" =>
         Pending(t)'
    /\ tasks[t].state = "absent" =>
         IF t.type = "reconcile" /\ \E s \in T : s.key = t.key /\ MustReconcile(s)
         THEN Pending(t)' ELSE tasks'[t].state = "absent"
    /\ tasks[t].state \in Finished => tasks'[t] = tasks[t]

QueueMoves(T) == T \subseteq TaskIds /\ AppsRecovered(T) /\ TasksRecovered(T)

\* Nothing is recovered where nothing changes.
LEMMA NothingRecovered ==
  ASSUME TypeInv
  PROVE  RecoveredAttempts({}) = attempts /\ Interrupted({}) = {}
<1>1. attempts \in [Fences -> AttemptRow]
  BY DEF TypeInv, TypeOK, QueueTypeOK
<1>2. Interrupted({}) = {}
  BY DEF Interrupted
<1> QED
  BY <1>1, <1>2 DEF RecoveredAttempts

\* What recovery makes of one task.
LEMMA RecoveredRow ==
  ASSUME TypeInv, NEW T, NEW cancelled \in BOOLEAN, NEW t \in TaskIds
  PROVE  LET row == RecoveredTasks(T, cancelled)[t] IN
         /\ t \in T => row.state = RecoveredState(t, cancelled) /\ row.state # "leased"
                       /\ row.state # "absent"
         /\ t \notin T =>
              IF /\ t.type = "reconcile" /\ tasks[t].state = "absent"
                 /\ \E s \in T : s.key = t.key /\ MustReconcile(s)
              THEN row.state = "ready" ELSE row = tasks[t]
<1>1. tasks[t] \in TaskRow
  BY DEF TypeInv, TypeOK, QueueTypeOK
<1>2. CASE t \in T
  <2> DEFINE state == RecoveredState(t, cancelled)
  <2>1. RecoveredTasks(T, cancelled)[t] = [tasks[t] EXCEPT !.state = state, !.lease = 0]
    BY <1>2 DEF RecoveredTasks
  <2>2. state \notin {"leased", "absent"}
    BY DEF RecoveredState
  <2> HIDE DEF state
  <2> QED
    BY <1>1, <1>2, <2>1, <2>2 DEF TaskRow, state
<1>3. CASE t \notin T
  <2>1. ReadyRow.state = "ready"
    BY DEF ReadyRow, NoTaskRow
  <2> QED
    BY <1>3, <2>1 DEF RecoveredTasks
<1> QED
  BY <1>2, <1>3

\* What recovery makes of one application.
LEMMA RecoveredApp ==
  ASSUME TypeInv, NEW T, NEW a \in Apps
  PROVE  LET row == RecoveredApps(T)[a] IN
         IF a \in Interrupted(T)
         THEN row.state = "UNKNOWN" /\ row.commitFence = apps[a].commitFence
         ELSE row = apps[a]
<1>1. apps[a] \in AppRow
  BY DEF TypeInv, TypeOK, QueueTypeOK
<1> QED
  BY <1>1 DEF RecoveredApps, AppRow

LEMMA RecoverMoves ==
  ASSUME TypeInv, NEW T \in SUBSET TaskIds, NEW cancelled \in BOOLEAN,
         RecoverTasks(T, cancelled),
         \A t \in T : tasks[t].state \notin Finished \cup {"absent"},
         cancelled => \A t \in T : t.type # "reconcile"
  PROVE  QueueMoves(T)
<1>1. AppsRecovered(T)
  BY RecoveredApp DEF RecoverTasks, AppsRecovered
<1>2. ASSUME NEW t \in TaskIds
      PROVE  /\ t \in Leased \ T => tasks'[t] = tasks[t]
             /\ t.type = "reconcile" /\ Pending(t) => Pending(t)'
             /\ tasks[t].state = "absent" =>
                  IF t.type = "reconcile" /\ \E s \in T : s.key = t.key /\ MustReconcile(s)
                  THEN Pending(t)' ELSE tasks'[t].state = "absent"
             /\ tasks[t].state \in Finished => tasks'[t] = tasks[t]
  <2>1. tasks'[t] = RecoveredTasks(T, cancelled)[t]
    BY DEF RecoverTasks
  <2>2. t.type = "reconcile" /\ t \in T => RecoveredState(t, cancelled) \in {"dead", "retry_wait"}
    BY DEF RecoveredState, MustReconcile, Acknowledged
  <2>3. tasks[t].state \in Finished => t \notin T /\ tasks[t].state # "absent"
    BY DEF Finished
  <2>4. tasks[t].state = "absent" => t \notin T
    OBVIOUS
  <2>5. t \in Leased => tasks[t].state = "leased"
    BY DEF Leased
  <2>6. CASE t \in T
    BY <2>1, <2>2, <2>3, <2>4, <2>6, RecoveredRow DEF Pending
  <2>7. CASE t \notin T
    BY <2>1, <2>3, <2>5, <2>7, RecoveredRow DEF Pending
  <2> QED
    BY <2>6, <2>7
<1>3. TasksRecovered(T)
  BY <1>2 DEF TasksRecovered, Leased
<1>4. T \subseteq TaskIds
  OBVIOUS
<1> QED
  BY <1>1, <1>3, <1>4 DEF QueueMoves

\* A step that leaves all tables alone, or moves one task that is not finished.
LEMMA OneTaskMoves ==
  ASSUME TypeInv, NEW t \in TaskIds, tasks[t].state \notin Finished \cup {"absent"},
         NEW state, NEW lease,
         tasks' = [tasks EXCEPT ![t].state = state, ![t].lease = lease],
         t.type = "submit" /\ tasks[t].state = "leased" => 
           state = "leased" \/ apps[AppOf[t.key]].state # "IN_FLIGHT",
         t.type = "reconcile" =>
           \/ state \in {"ready", "leased", "retry_wait", "dead"}
           \/ apps[AppOf[t.key]].state # "UNKNOWN",
         UNCHANGED <<apps, attempts>>
  PROVE  QueueMoves({})
<1>1. AppsRecovered({})
  BY NothingRecovered DEF AppsRecovered
<1>2. tasks \in [TaskIds -> TaskRow] /\ tasks[t] \in TaskRow
  BY DEF TypeInv, TypeOK, QueueTypeOK
<1>3. tasks'[t].state = state /\ tasks'[t].fence = tasks[t].fence
  BY <1>2 DEF TaskRow
<1>4. \A u \in TaskIds : u # t => tasks'[u] = tasks[u]
  BY <1>2
<1>5. TasksRecovered({})
  BY <1>3, <1>4 DEF TasksRecovered, Leased, Pending, Finished
<1> QED
  BY <1>1, <1>5 DEF QueueMoves

LEMMA StandingStill ==
  ASSUME TypeInv, UNCHANGED <<tasks, apps, attempts>>
  PROVE  QueueMoves({})
<1>1. AppsRecovered({})
  BY NothingRecovered DEF AppsRecovered
<1>2. TasksRecovered({})
  BY DEF TasksRecovered, Leased, Pending
<1> QED
  BY <1>1, <1>2 DEF QueueMoves

LEMMA ClaimMoves ==
  ASSUME TypeInv, NEW types, NEW t \in TaskIds, Claim(types, t)
  PROVE  QueueMoves(Expired)
<1> DEFINE rows == RecoveredTasks(Expired, FALSE)
           applications == RecoveredApps(Expired)
           a == AppOf[t.key]
<1>1. /\ rows[t].state \in {"ready", "retry_wait"}
      /\ t.type = "submit" => applications[a].state \notin Parked
  BY DEF Claim, Claimable
<1>2. a \in Apps /\ rows \in [TaskIds -> TaskRow] /\ applications \in [Apps -> AppRow]
  BY AppOfTask, RecoverTypes DEF TypeInv, TypeOK
<1>3. attempts' = RecoveredAttempts(Expired)
  BY DEF Claim
<1>4. ASSUME NEW b \in Apps
      PROVE  IF b \in Interrupted(Expired) THEN apps'[b].state = "UNKNOWN"
             ELSE \/ /\ apps'[b].state = apps[b].state
                     /\ apps'[b].commitFence = apps[b].commitFence
                  \/ apps[b].state \notin Committed /\ apps'[b].state \notin Committed
  <2>1. CASE t.type = "submit" /\ b = a
    <3>1. apps' = [applications EXCEPT ![a].commitFence = nextFence + 1]
      BY <2>1 DEF Claim
    <3>2. apps'[a].state = applications[a].state
      BY <1>2, <3>1 DEF AppRow
    <3>3. a \notin Interrupted(Expired) /\ applications[a] = apps[a]
      BY <1>1, <1>2, <2>1, RecoveredApp DEF Parked, Uncertain
    <3>4. apps[a].state \notin Committed
      BY <1>1, <2>1, <3>3 DEF Parked, Committed
    <3> QED
      BY <2>1, <3>2, <3>3, <3>4
  <2>2. CASE ~(t.type = "submit" /\ b = a)
    <3>1. apps'[b] = applications[b]
      BY <1>2, <2>2 DEF Claim
    <3> QED
      BY <3>1, RecoveredApp
  <2> QED
    BY <2>1, <2>2
<1>5. tasks' = [rows EXCEPT ![t] =
        [state |-> "leased", fence |-> nextFence + 1,
         attempts |-> rows[t].attempts + 1, lease |-> LeaseTerm]]
  BY DEF Claim
<1>6. tasks'[t].state = "leased" /\ \A u \in TaskIds : u # t => tasks'[u] = rows[u]
  BY <1>2, <1>5
<1> HIDE DEF rows, applications
<1>7. Expired \subseteq TaskIds /\ \A u \in Expired : tasks[u].state = "leased"
  BY DEF Expired, Leased
<1>8. ASSUME NEW u \in TaskIds
      PROVE  /\ u \in Leased \ Expired => tasks'[u] = tasks[u]
             /\ u.type = "reconcile" /\ Pending(u) => Pending(u)'
             /\ tasks[u].state = "absent" =>
                  IF u.type = "reconcile" /\ \E s \in Expired : s.key = u.key /\ MustReconcile(s)
                  THEN Pending(u)' ELSE tasks'[u].state = "absent"
             /\ tasks[u].state \in Finished => tasks'[u] = tasks[u]
  <2>1. u.type = "reconcile" /\ u \in Expired =>
          RecoveredState(u, FALSE) \in {"dead", "retry_wait"}
    BY DEF RecoveredState, MustReconcile, Acknowledged
  <2>2. u \in Leased => tasks[u].state = "leased"
    BY DEF Leased
  <2>3. tasks[u].state \in Finished => u \notin Expired /\ tasks[u].state \notin {"ready", "retry_wait", "absent"}
    BY <1>7 DEF Finished
  <2> DEFINE asked == \E s \in Expired : s.key = u.key /\ MustReconcile(s)
  <2>r. /\ u \in Expired => rows[u].state = RecoveredState(u, FALSE)
        /\ u \notin Expired =>
             IF u.type = "reconcile" /\ tasks[u].state = "absent" /\ asked
             THEN rows[u].state = "ready" ELSE rows[u] = tasks[u]
    BY RecoveredRow DEF rows
  <2> HIDE DEF asked
  <2>4. CASE u = t
    <3>1. u \notin Leased \ Expired
      BY <1>1, <2>2, <2>4, <2>r
    <3>2. tasks[u].state \notin Finished
      BY <1>1, <2>3, <2>4, <2>r
    <3>3. Pending(u)'
      BY <1>6, <2>4 DEF Pending
    <3>4. tasks[u].state = "absent" => u.type = "reconcile" /\ asked
      BY <1>1, <1>7, <2>4, <2>r
    <3> QED
      BY <3>1, <3>2, <3>3, <3>4 DEF asked
  <2>5. CASE u # t /\ u \in Expired
    <3>1. tasks'[u].state = RecoveredState(u, FALSE)
      BY <1>6, <2>5, <2>r
    <3> QED
      BY <1>7, <2>1, <2>3, <2>5, <3>1 DEF Pending
  <2>6. CASE u # t /\ u \notin Expired
    <3>1. tasks'[u] = rows[u]
      BY <1>6, <2>6
    <3>2. tasks[u].state # "absent" => tasks'[u] = tasks[u]
      BY <2>6, <2>r, <3>1
    <3>3. tasks[u].state = "absent" =>
            IF u.type = "reconcile" /\ asked THEN Pending(u)' ELSE tasks'[u].state = "absent"
      BY <2>6, <2>r, <3>1 DEF Pending
    <3>4. u \in Leased => tasks[u].state # "absent"
      BY <2>2
    <3>5. Pending(u) => tasks[u].state # "absent" /\ (tasks'[u] = tasks[u] => Pending(u)')
      BY DEF Pending
    <3> QED
      BY <2>3, <3>2, <3>3, <3>4, <3>5 DEF asked
  <2> QED
    BY <2>4, <2>5, <2>6
<1>9. AppsRecovered(Expired)
  BY <1>3, <1>4 DEF AppsRecovered
<1>10. TasksRecovered(Expired)
  BY <1>8 DEF TasksRecovered, Leased
<1> QED
  BY <1>7, <1>9, <1>10 DEF QueueMoves

LEMMA ClaimNothingMoves ==
  ASSUME TypeInv, NEW types, ClaimNothing(types)
  PROVE  QueueMoves(Expired)
<1>1. Expired \in SUBSET TaskIds /\ \A t \in Expired : tasks[t].state \notin Finished \cup {"absent"}
  BY DEF Expired, Leased, Finished
<1> QED
  BY <1>1, RecoverMoves DEF ClaimNothing

LEMMA FailMoves ==
  ASSUME TypeInv, NEW t \in TaskIds, NEW fence, NEW retryable, Fail(t, fence, retryable)
  PROVE  \E T : QueueMoves(T)
<1>1. tasks[t].state = "leased" /\ tasks[t].state \notin Finished \cup {"absent"}
  BY DEF Fail, HasLease, Finished
<1>2. CASE RecoverTasks({t}, FALSE)
  <2>1. {t} \in SUBSET TaskIds /\ \A u \in {t} : tasks[u].state \notin Finished \cup {"absent"}
    BY <1>1
  <2>2. QueueMoves({t})
    BY <1>2, <2>1, RecoverMoves
  <2> QED
    BY <2>2
<1>3. CASE ~RecoverTasks({t}, FALSE)
  <2> DEFINE state == IF retryable /\ tasks[t].attempts < Budget[t.type]
                      THEN "retry_wait" ELSE "dead"
  <2>1. /\ tasks' = [tasks EXCEPT ![t].state = state, ![t].lease = 0]
        /\ UNCHANGED <<apps, attempts>>
        /\ t.type = "submit" => apps[AppOf[t.key]].state # "IN_FLIGHT"
    BY <1>3 DEF Fail, Uncertain
  <2>2. state \in {"ready", "leased", "retry_wait", "dead"}
    OBVIOUS
  <2> HIDE DEF state
  <2> QED
    BY <1>1, <2>1, <2>2, OneTaskMoves
<1> QED
  BY <1>2, <1>3

LEMMA CompleteMoves ==
  ASSUME TypeInv, NEW t \in TaskIds, NEW fence, Complete(t, fence),
         t.type = "reconcile" => apps[AppOf[t.key]].state # "UNKNOWN"
  PROVE  QueueMoves({})
<1>1. tasks[t].state \notin Finished \cup {"absent"}
  BY DEF Complete, HasLease, Finished
<1>2. t.type = "submit" => apps[AppOf[t.key]].state # "IN_FLIGHT"
  BY DEF Complete
<1>3. /\ tasks' = [tasks EXCEPT ![t].state = "completed", ![t].lease = 0]
      /\ UNCHANGED <<apps, attempts>>
  BY DEF Complete
<1> QED
  BY <1>1, <1>2, <1>3, OneTaskMoves

LEMMA LeaseMoves ==
  ASSUME TypeInv, NEW t \in TaskIds, tasks[t].state = "leased", NEW lease,
         tasks' = [tasks EXCEPT ![t].lease = lease], UNCHANGED <<apps, attempts>>
  PROVE  QueueMoves({})
<1>1. tasks[t].state \notin Finished \cup {"absent"}
  BY DEF Finished
<1>2. tasks' = [tasks EXCEPT ![t].state = "leased", ![t].lease = lease]
  <2>1. tasks \in [TaskIds -> TaskRow] /\ tasks[t] \in TaskRow
    BY DEF TypeInv, TypeOK, QueueTypeOK
  <2>2. [tasks[t] EXCEPT !.lease = lease] = [tasks[t] EXCEPT !.state = "leased", !.lease = lease]
    BY <2>1 DEF TaskRow
  <2> QED
    BY <2>1, <2>2
<1> QED
  BY <1>1, <1>2, OneTaskMoves

LEMMA CancelMoves ==
  ASSUME TypeInv, NEW t \in TaskIds, CancelTask(t)
  PROVE  QueueMoves({t})
<1>1. tasks[t].state \notin Finished \cup {"absent"} /\ t.type # "reconcile"
  BY DEF CancelTask, Cancellable, Finished
<1> QED
  BY <1>1, RecoverMoves DEF CancelTask

LEMMA LeasedSubmitsMoves ==
  ASSUME TypeInv, RecoverTasks(LeasedSubmits, TRUE)
  PROVE  QueueMoves(LeasedSubmits)
<1>1. /\ LeasedSubmits \in SUBSET TaskIds
      /\ \A t \in LeasedSubmits : tasks[t].state \notin Finished \cup {"absent"}
                                  /\ t.type # "reconcile"
  BY DEF LeasedSubmits, Leased, Finished
<1> QED
  BY <1>1, RecoverMoves

LEMMA SetControlMoves ==
  ASSUME TypeInv, NEW patched, SetControl(patched)
  PROVE  \E T : QueueMoves(T)
<1>1. CASE UNCHANGED <<tasks, apps, attempts>>
  BY <1>1, StandingStill
<1>2. CASE RecoverTasks(LeasedSubmits, TRUE)
  BY <1>2, LeasedSubmitsMoves
<1> QED
  BY <1>1, <1>2 DEF SetControl, LeasedSubmits

LEMMA PublishMoves ==
  ASSUME TypeInv, PublishProfile
  PROVE  QueueMoves(LeasedSubmits \ Cancelled)
<1> DEFINE rest == LeasedSubmits \ Cancelled
           recovered == RecoveredTasks(rest, TRUE)
<1>1. /\ rest \subseteq TaskIds
      /\ \A t \in rest : tasks[t].state = "leased" /\ t.type = "submit"
  BY DEF LeasedSubmits, Leased
<1>2. AppsRecovered(rest)
  <2>1. attempts' = RecoveredAttempts(rest)
    BY DEF PublishProfile
  <2>2. ASSUME NEW a \in Apps
        PROVE  IF a \in Interrupted(rest) THEN apps'[a].state = "UNKNOWN"
               ELSE \/ /\ apps'[a].state = apps[a].state
                       /\ apps'[a].commitFence = apps[a].commitFence
                    \/ apps[a].state \notin Committed /\ apps'[a].state \notin Committed
    <3>1. CASE a \in Discarded
      <4>1. apps'[a] = [apps[a] EXCEPT !.state = "NORMALIZED", !.revision = @ + 1]
        BY <3>1 DEF PublishProfile
      <4>2. apps[a] \in AppRow
        BY DEF TypeInv, TypeOK, QueueTypeOK
      <4>3. apps'[a].state = "NORMALIZED"
        BY <4>1, <4>2 DEF AppRow
      <4> QED
        BY <3>1, <4>3 DEF Discarded, Interrupted, Parked, Committed, Uncertain
    <3>2. CASE a \notin Discarded
      <4>1. apps'[a] = RecoveredApps(rest)[a]
        BY <3>2 DEF PublishProfile
      <4> QED
        BY <4>1, RecoveredApp
    <3> QED
      BY <3>1, <3>2
  <2> QED
    BY <2>1, <2>2 DEF AppsRecovered
<1>3. TasksRecovered(rest)
  <2>1. ASSUME NEW t \in TaskIds
        PROVE  /\ t \in Leased \ rest /\ apps[AppOf[t.key]].state = "IN_FLIGHT" =>
                    tasks'[t] = tasks[t]
               /\ t.type = "reconcile" /\ Pending(t) => Pending(t)'
               /\ tasks[t].state = "absent" =>
                    IF t.type = "reconcile" /\ \E s \in rest : s.key = t.key /\ MustReconcile(s)
                    THEN Pending(t)' ELSE tasks'[t].state = "absent"
               /\ tasks[t].state \in Finished => tasks'[t] = tasks[t]
    <3>1. t \in Leased => tasks[t].state = "leased"
      BY DEF Leased
    <3>2. tasks[t].state \in Finished =>
            tasks[t].state \notin {"ready", "leased", "retry_wait", "absent"}
      BY DEF Finished
    <3>3. CASE t \in Cancelled
      <4>1. apps[AppOf[t.key]].state # "IN_FLIGHT"
        BY <3>3 DEF Cancelled, Discarded, Parked, Uncertain
      <4>2. t.type # "reconcile" /\ tasks[t].state \in {"ready", "leased", "retry_wait"}
        BY <3>3 DEF Cancelled
      <4> QED
        BY <3>2, <4>1, <4>2
    <3>4. CASE t \notin Cancelled
      <4>1. tasks'[t] = recovered[t]
        BY <3>4 DEF PublishProfile
      <4> DEFINE asked == \E s \in rest : s.key = t.key /\ MustReconcile(s)
      <4>2. /\ t \in rest => recovered[t].state # "absent"
            /\ t \notin rest =>
                 IF t.type = "reconcile" /\ tasks[t].state = "absent" /\ asked
                 THEN recovered[t].state = "ready" ELSE recovered[t] = tasks[t]
        BY RecoveredRow
      <4> HIDE DEF recovered, rest, asked
      <4>3. CASE t \in rest
        BY <1>1, <3>2, <4>3 DEF Pending
      <4>4. CASE t \notin rest
        <5>1. tasks[t].state # "absent" => tasks'[t] = tasks[t]
          BY <4>1, <4>2, <4>4
        <5>2. tasks[t].state = "absent" =>
                IF t.type = "reconcile" /\ asked THEN Pending(t)' ELSE tasks'[t].state = "absent"
          BY <4>1, <4>2, <4>4 DEF Pending
        <5>3. Pending(t) => tasks[t].state # "absent" /\ (tasks'[t] = tasks[t] => Pending(t)')
          BY DEF Pending
        <5> QED
          BY <3>1, <3>2, <5>1, <5>2, <5>3 DEF asked
      <4> QED
        BY <4>3, <4>4
    <3> QED
      BY <3>3, <3>4
  <2> QED
    BY <2>1 DEF TasksRecovered, Leased
<1> QED
  BY <1>1, <1>2, <1>3 DEF QueueMoves

-----------------------------------------------------------------------------
(* The two tables keep agreeing                                             *)

LEMMA AppStaysAttempted ==
  ASSUME NEW a \in Apps, AppAttempted(a),
         apps'[a].state = apps[a].state, apps'[a].commitFence = apps[a].commitFence,
         \A f \in Fences : OfApp(f, a) => OfApp(f, a)' /\ attempts'[f].state = attempts[f].state
  PROVE  AppAttempted(a)'
<1>1. \A state : Attempted(a, state) => Attempted(a, state)'
  BY DEF Attempted
<1> QED
  BY <1>1 DEF AppAttempted

LEMMA RecoveryAgrees ==
  ASSUME TypeInv, TypeInv', TablesAgree, NEW T, AppsRecovered(T)
  PROVE  TablesAgree'
<1>1. \A f \in Fences : attempts[f] \in AttemptRow
  BY DEF TypeInv, TypeOK, QueueTypeOK
<1>2. ASSUME NEW f \in Fences
      PROVE  /\ attempts'[f].key = attempts[f].key
             /\ attempts'[f].dispatched = attempts[f].dispatched
             /\ attempts'[f].state =
                  IF attempts[f].state = "IN_FLIGHT" /\ AppOf[attempts[f].key] \in Interrupted(T)
                  THEN "UNKNOWN" ELSE attempts[f].state
  <2>1. attempts'[f] = IF attempts[f].state = "IN_FLIGHT" /\ AppOf[attempts[f].key] \in Interrupted(T)
                       THEN [attempts[f] EXCEPT !.state = "UNKNOWN"] ELSE attempts[f]
    BY DEF AppsRecovered, RecoveredAttempts
  <2> QED
    BY <1>1, <2>1 DEF AttemptRow
<1>3. \A f \in Fences, a \in Apps : OfApp(f, a)' <=> OfApp(f, a)
  BY <1>2 DEF OfApp
<1>4. \A a \in Interrupted(T) : apps[a].state = "IN_FLIGHT" /\ apps'[a].state = "UNKNOWN"
  BY DEF AppsRecovered, Interrupted
<1>5. \A a \in Apps \ Interrupted(T) :
        \/ apps'[a].state = apps[a].state /\ apps'[a].commitFence = apps[a].commitFence
        \/ apps[a].state \notin Committed /\ apps'[a].state \notin Committed
  BY DEF AppsRecovered
<1>6. AttemptsStand'
  <2> SUFFICES ASSUME NEW f \in Fences, attempts'[f].state # "none"
               PROVE  /\ attempts'[f].key \in Keys
                      /\ apps'[AppOf[attempts'[f].key]].state \in Standing(attempts'[f].state)
                      /\ attempts'[f].state = "BLOCKED_BEFORE_DISPATCH" => ~attempts'[f].dispatched
    BY DEF AttemptsStand
  <2> DEFINE a == AppOf[attempts[f].key]
  <2>1. /\ attempts[f].state # "none" /\ attempts[f].key \in Keys
        /\ apps[a].state \in Standing(attempts[f].state)
        /\ attempts[f].state = "BLOCKED_BEFORE_DISPATCH" => ~attempts[f].dispatched
    BY <1>2 DEF TablesAgree, AttemptsStand
  <2>2. a \in Apps /\ apps'[a].state \in ApplicationStates
    BY <2>1, QueueAssumption DEF TypeInv, TypeOK, QueueTypeOK, AppRow
  <2>3. CASE a \in Interrupted(T)
    BY <1>2, <1>4, <2>1, <2>2, <2>3 DEF Standing
  <2>4. CASE a \notin Interrupted(T)
    <3>1. attempts'[f].state = attempts[f].state
      BY <1>2, <2>4
    <3>2. CASE apps'[a].state = apps[a].state
      BY <1>2, <2>1, <3>1, <3>2
    <3>3. CASE apps[a].state \notin Committed
      BY <1>2, <2>1, <2>2, <3>1, <3>3 DEF Standing, Committed, Uncertain
    <3> QED
      BY <1>5, <2>2, <2>4, <3>2, <3>3
  <2> QED
    BY <2>3, <2>4
<1>7. ASSUME NEW a \in Apps
      PROVE  AppAttempted(a)'
  <2>1. AppAttempted(a)
    BY DEF TablesAgree, AppsAttempted
  <2>2. CASE a \in Interrupted(T)
    <3>1. PICK f \in Fences : OfApp(f, a) /\ attempts[f].state = "IN_FLIGHT"
      BY <1>4, <2>1, <2>2 DEF AppAttempted
    <3>2. attempts'[f].state = "UNKNOWN"
      BY <1>2, <2>2, <3>1 DEF OfApp
    <3>3. Attempted(a, "UNKNOWN")'
      BY <1>3, <3>1, <3>2 DEF Attempted
    <3> QED
      BY <1>4, <2>2, <3>3 DEF AppAttempted
  <2>3. CASE a \notin Interrupted(T)
    <3>1. \A f \in Fences : OfApp(f, a) => OfApp(f, a)' /\ attempts'[f].state = attempts[f].state
      BY <1>2, <1>3, <2>3 DEF OfApp
    <3>2. CASE apps'[a].state = apps[a].state /\ apps'[a].commitFence = apps[a].commitFence
      BY <2>1, <3>1, <3>2, AppStaysAttempted
    <3>3. CASE apps'[a].state \notin Committed
      BY <3>3 DEF AppAttempted, Committed, Uncertain
    <3> QED
      BY <1>5, <2>3, <3>2, <3>3
  <2> QED
    BY <2>2, <2>3
<1> QED
  BY <1>6, <1>7 DEF TablesAgree, AppsAttempted

LEMMA MoveAppKeeps ==
  ASSUME TypeInv, NEW a \in Apps, NEW state, NEW steps, MoveApp(a, state, steps)
  PROVE  /\ apps'[a].state = state /\ apps'[a].commitFence = apps[a].commitFence
         /\ \A b \in Apps : b # a => apps'[b] = apps[b]
<1>1. apps \in [Apps -> AppRow] /\ apps[a] \in AppRow
  BY DEF TypeInv, TypeOK, QueueTypeOK
<1>2. apps' = [apps EXCEPT ![a] =
        [apps[a] EXCEPT !.state = state, !.revision = apps[a].revision + steps]]
  BY DEF MoveApp
<1>3. apps'[a] = [apps[a] EXCEPT !.state = state, !.revision = apps[a].revision + steps]
  BY <1>1, <1>2
<1> QED
  BY <1>1, <1>2, <1>3 DEF AppRow

\* One attempt is given an outcome and its application is moved along with it.
Settled(f, a) ==
  /\ OfApp(f, a) /\ attempts[f].state \in {"IN_FLIGHT", "UNKNOWN"}
  /\ attempts[f].state = "UNKNOWN" => attempts'[f].state \in {"UNKNOWN", "CONFIRMED"}
  /\ \A g \in Fences : g # f => attempts'[g] = attempts[g]
  /\ attempts'[f].key = attempts[f].key
  /\ attempts'[f].dispatched = attempts[f].dispatched
  /\ \A b \in Apps : b # a => apps'[b] = apps[b]
  /\ \/ /\ attempts'[f].state = "BLOCKED_BEFORE_DISPATCH" /\ ~attempts[f].dispatched
        /\ apps'[a].state = "UNSUPPORTED"
     \/ attempts'[f].state = "CONFIRMED" /\ apps'[a].state = "CONFIRMED"
     \/ attempts'[f].state = "DEFINITIVE_FAILURE" /\ apps'[a].state = "DEFINITIVE_FAILURE"
     \/ /\ attempts[f].state = "UNKNOWN" /\ attempts'[f].state = "UNKNOWN"
        /\ apps'[a].state = "NEEDS_REVIEW"

\* Any other attempt of that application is a dead one, so the tables agree.
LEMMA SettlingAgrees ==
  ASSUME TypeInv, TypeInv', ClickInv, TablesAgree,
         NEW f \in Fences, NEW a \in Apps, Settled(f, a)
  PROVE  TablesAgree'
<1>1. ASSUME NEW g \in Fences, g # f, OfApp(g, a)
      PROVE  attempts[g].state \notin {"IN_FLIGHT", "UNKNOWN", "CONFIRMED"}
  <2>1. f \in LiveOf(a)
    BY DEF LiveOf, Live, Settled
  <2>2. g \notin LiveOf(a)
    BY <1>1, <2>1 DEF ClickInv, FenceInv, SingleLiveAttempt
  <2> QED
    BY <1>1, <2>2 DEF LiveOf, Live, OfApp
<1>2. \A g \in Fences, b \in Apps : OfApp(g, b)' <=> OfApp(g, b)
  BY DEF OfApp, Settled
<1>3. AttemptsStand'
  <2> SUFFICES ASSUME NEW g \in Fences, attempts'[g].state # "none"
               PROVE  /\ attempts'[g].key \in Keys
                      /\ apps'[AppOf[attempts'[g].key]].state \in Standing(attempts'[g].state)
                      /\ attempts'[g].state = "BLOCKED_BEFORE_DISPATCH" => ~attempts'[g].dispatched
    BY DEF AttemptsStand
  <2> DEFINE b == AppOf[attempts[g].key]
  <2>1. /\ attempts[g].state # "none" /\ attempts[g].key \in Keys
        /\ apps[b].state \in Standing(attempts[g].state)
        /\ attempts[g].state = "BLOCKED_BEFORE_DISPATCH" => ~attempts[g].dispatched
    BY DEF TablesAgree, AttemptsStand, OfApp, Settled
  <2>2. b \in Apps /\ apps'[b].state \in ApplicationStates
    BY <2>1, QueueAssumption DEF TypeInv, TypeOK, QueueTypeOK, AppRow
  <2>3. CASE g = f
    <3>1. b = a
      BY <2>3 DEF OfApp, Settled
    <3> QED
      BY <2>1, <2>2, <2>3, <3>1 DEF Standing, Settled
  <2>4. CASE g # f /\ b = a
    <3>1. attempts'[g] = attempts[g] /\ OfApp(g, a)
      BY <2>1, <2>4 DEF OfApp, Settled
    <3> QED
      BY <1>1, <2>1, <2>2, <2>4, <3>1 DEF Standing
  <2>5. CASE g # f /\ b # a
    BY <2>1, <2>2, <2>5 DEF Settled
  <2> QED
    BY <2>3, <2>4, <2>5
<1>4. ASSUME NEW b \in Apps
      PROVE  AppAttempted(b)'
  <2>1. CASE b = a
    <3>1. OfApp(f, a)'
      BY <1>2 DEF Settled
    <3> QED
      BY <2>1, <3>1 DEF AppAttempted, Attempted, Settled
  <2>2. CASE b # a
    <3>1. \A g \in Fences : OfApp(g, b) => OfApp(g, b)' /\ attempts'[g].state = attempts[g].state
      BY <1>2, <2>2 DEF OfApp, Settled
    <3>2. AppAttempted(b) /\ apps'[b] = apps[b]
      BY <2>2 DEF TablesAgree, AppsAttempted, Settled
    <3> QED
      BY <3>1, <3>2, AppStaysAttempted
  <2> QED
    BY <2>1, <2>2
<1> QED
  BY <1>3, <1>4 DEF TablesAgree, AppsAttempted

\* Writing an outcome under a handle settles the worker's own attempt.
LEMMA WriteSettles ==
  ASSUME TypeInv, ClickInv, NEW w \in Workers, worker[w].pc \in HoldsHandle, InFlight(w),
         NEW state, attempts' = [attempts EXCEPT ![worker[w].fence].state = state],
         NEW to, MoveApp(AppOfWorker(w), to, 1),
         \/ /\ state = "BLOCKED_BEFORE_DISPATCH" /\ to = "UNSUPPORTED"
            /\ Undispatched(worker[w].fence)
         \/ state = "CONFIRMED" /\ to = "CONFIRMED"
         \/ state = "DEFINITIVE_FAILURE" /\ to = "DEFINITIVE_FAILURE"
  PROVE  /\ worker[w].fence \in Fences /\ AppOfWorker(w) \in Apps
         /\ Settled(worker[w].fence, AppOfWorker(w))
         /\ attempts'[worker[w].fence].state = state
<1> DEFINE f == worker[w].fence
           a == AppOfWorker(w)
<1>1. worker[w].pc # "idle"
  BY DEF HoldsHandle
<1>2. f \in Fences /\ a \in Apps
  BY <1>1, BusyWorker
<1>3. OfApp(f, a) /\ attempts[f].state = "IN_FLIGHT"
  BY DEF InFlight, OfApp, ClickInv, FenceInv, HandleIsOwn, AppOfWorker
<1>4. attempts \in [Fences -> AttemptRow] /\ attempts[f] \in AttemptRow
  BY <1>2 DEF TypeInv, TypeOK, QueueTypeOK
<1>5. attempts' = [attempts EXCEPT ![f] = [attempts[f] EXCEPT !.state = state]]
  OBVIOUS
<1>6. \A b \in Apps : b # a => apps'[b] = apps[b]
  BY <1>2, MoveAppKeeps
<1>7. apps'[a].state = to
  BY <1>2, MoveAppKeeps
<1> HIDE DEF f, a
<1>8. attempts'[f] = [attempts[f] EXCEPT !.state = state]
  BY <1>2, <1>4, <1>5
<1>9. /\ attempts'[f].state = state /\ attempts'[f].key = attempts[f].key
      /\ attempts'[f].dispatched = attempts[f].dispatched
      /\ \A g \in Fences : g # f => attempts'[g] = attempts[g]
  BY <1>4, <1>5, <1>8 DEF AttemptRow
<1>10. Settled(f, a)
  BY <1>3, <1>6, <1>7, <1>9 DEF Settled, Undispatched, f
<1> QED
  BY <1>2, <1>9, <1>10 DEF f, a

LEMMA AbortSettles ==
  ASSUME TypeInv, ClickInv, NEW w \in Workers, AbortBeforeDispatch(w)
  PROVE  /\ worker[w].fence \in Fences /\ AppOfWorker(w) \in Apps
         /\ Settled(worker[w].fence, AppOfWorker(w))
         /\ attempts'[worker[w].fence].state = "BLOCKED_BEFORE_DISPATCH"
<1>1. worker[w].pc \in HoldsHandle
  BY DEF AbortBeforeDispatch, HoldsHandle
<1> QED
  BY <1>1, WriteSettles DEF AbortBeforeDispatch

LEMMA ConfirmSettles ==
  ASSUME TypeInv, ClickInv, NEW w \in Workers, ConfirmReceipt(w)
  PROVE  /\ worker[w].fence \in Fences /\ AppOfWorker(w) \in Apps
         /\ Settled(worker[w].fence, AppOfWorker(w))
         /\ attempts'[worker[w].fence].state = "CONFIRMED"
<1>1. worker[w].pc \in HoldsHandle
  BY DEF ConfirmReceipt, HoldsHandle
<1> QED
  BY <1>1, WriteSettles DEF ConfirmReceipt

LEMMA RejectionSettles ==
  ASSUME TypeInv, ClickInv, NEW w \in Workers, RecordDefinitiveRejection(w)
  PROVE  /\ worker[w].fence \in Fences /\ AppOfWorker(w) \in Apps
         /\ Settled(worker[w].fence, AppOfWorker(w))
         /\ attempts'[worker[w].fence].state = "DEFINITIVE_FAILURE"
<1>1. worker[w].pc \in HoldsHandle
  BY DEF RecordDefinitiveRejection, HoldsHandle
<1> QED
  BY <1>1, WriteSettles DEF RecordDefinitiveRejection

LEMMA EvidenceSettles ==
  ASSUME TypeInv, NEW w \in Workers, ReconcileEvidence(w)
  PROVE  /\ AppOfWorker(w) \in Apps
         /\ apps'[AppOfWorker(w)].state \in {"NEEDS_REVIEW", "CONFIRMED"}
         /\ \E f \in Fences :
              /\ Settled(f, AppOfWorker(w)) /\ attempts[f].state = "UNKNOWN"
              /\ \/ worker[w].pc = "found" /\ attempts'[f].state = "CONFIRMED"
                 \/ worker[w].pc # "found" /\ attempts' = attempts
<1> DEFINE a == AppOfWorker(w)
<1>1. a \in Apps
  BY BusyWorker DEF ReconcileEvidence
<1>2. PICK f \in Fences :
        /\ OfApp(f, a) /\ attempts[f].state = "UNKNOWN"
        /\ attempts' = IF worker[w].pc = "found"
                       THEN [attempts EXCEPT ![f].state = "CONFIRMED"] ELSE attempts
  BY DEF ReconcileEvidence, IsNewest
<1>3. apps'[a].state = Verdict(w) /\ \A b \in Apps : b # a => apps'[b] = apps[b]
  BY <1>1, MoveAppKeeps DEF ReconcileEvidence
<1>4. attempts \in [Fences -> AttemptRow] /\ attempts[f] \in AttemptRow
  BY DEF TypeInv, TypeOK, QueueTypeOK
<1> HIDE DEF a
<1>5. CASE worker[w].pc = "found"
  <2>1. attempts' = [attempts EXCEPT ![f] = [attempts[f] EXCEPT !.state = "CONFIRMED"]]
    BY <1>2, <1>5
  <2>2. attempts'[f] = [attempts[f] EXCEPT !.state = "CONFIRMED"]
    BY <1>4, <2>1
  <2>3. /\ attempts'[f].state = "CONFIRMED" /\ attempts'[f].key = attempts[f].key
        /\ attempts'[f].dispatched = attempts[f].dispatched
        /\ \A g \in Fences : g # f => attempts'[g] = attempts[g]
    BY <1>4, <2>1, <2>2 DEF AttemptRow
  <2>4. apps'[a].state = "CONFIRMED"
    BY <1>3, <1>5 DEF Verdict
  <2>5. Settled(f, a)
    BY <1>2, <1>3, <2>3, <2>4 DEF Settled
  <2> QED
    BY <1>1, <1>2, <1>5, <2>3, <2>4, <2>5 DEF a
<1>6. CASE worker[w].pc # "found"
  <2>1. attempts' = attempts /\ apps'[a].state = "NEEDS_REVIEW"
    BY <1>2, <1>3, <1>6 DEF Verdict
  <2>2. Settled(f, a)
    BY <1>2, <1>3, <2>1 DEF Settled
  <2> QED
    BY <1>1, <1>2, <1>6, <2>1, <2>2 DEF a
<1> QED
  BY <1>5, <1>6

\* begin finds no live attempt of the application, and its own fence unused.
Begun(f, a) ==
  /\ attempts[f].state = "none" /\ LiveOf(a) = {}
  /\ \A g \in Fences : g # f => attempts'[g] = attempts[g]
  /\ attempts'[f].key \in Keys /\ AppOf[attempts'[f].key] = a
  /\ attempts'[f].state = "IN_FLIGHT" /\ ~attempts'[f].dispatched
  /\ apps'[a].state = "IN_FLIGHT" /\ apps'[a].commitFence = f
  /\ \A b \in Apps : b # a => apps'[b] = apps[b]

LEMMA BeginBegins ==
  ASSUME TypeInv, ClickInv, NEW w \in Workers, Begin(w)
  PROVE  /\ worker[w].fence \in Fences /\ AppOfWorker(w) \in Apps
         /\ Begun(worker[w].fence, AppOfWorker(w))
         /\ apps[AppOfWorker(w)].state = "READY"
<1> DEFINE f == worker[w].fence
           k == worker[w].task.key
           a == AppOfWorker(w)
<1>1. f \in Fences /\ a \in Apps /\ k \in Keys /\ a = AppOf[k]
  BY BusyWorker DEF Begin, AppOfWorker
<1>2. attempts[f].state = "none"
  BY DEF Begin, ClickInv, FenceInv, NotBegunYet
<1>3. LiveOf(a) = {} /\ apps[a].commitFence = f /\ apps[a].state = "READY"
  BY DEF Begin, NoPriorAttempt, AppOfWorker
<1>4. /\ attempts'[f] = [key |-> k, state |-> "IN_FLIGHT", dispatched |-> FALSE,
                         policy |-> policy, packet |-> prep[k].packet]
      /\ \A g \in Fences : g # f => attempts'[g] = attempts[g]
  BY <1>1 DEF Begin, TypeInv, TypeOK, QueueTypeOK
<1>5. /\ apps'[a].state = "IN_FLIGHT" /\ apps'[a].commitFence = f
      /\ \A b \in Apps : b # a => apps'[b] = apps[b]
  BY <1>1, <1>3, MoveAppKeeps DEF Begin, AppOfWorker
<1> QED
  BY <1>1, <1>2, <1>3, <1>4, <1>5 DEF Begun

LEMMA BeginAgrees ==
  ASSUME TypeInv, TypeInv', TablesAgree, NEW f \in Fences, NEW a \in Apps, Begun(f, a)
  PROVE  TablesAgree'
<1>1. \A g \in Fences, b \in Apps : OfApp(g, b)' <=> OfApp(g, b) \/ (g = f /\ b = a)
  BY DEF Begun, OfApp
<1>2. AttemptsStand'
  <2> SUFFICES ASSUME NEW g \in Fences, attempts'[g].state # "none"
               PROVE  /\ attempts'[g].key \in Keys
                      /\ apps'[AppOf[attempts'[g].key]].state \in Standing(attempts'[g].state)
                      /\ attempts'[g].state = "BLOCKED_BEFORE_DISPATCH" => ~attempts'[g].dispatched
    BY DEF AttemptsStand
  <2>1. CASE g = f
    BY <2>1 DEF Begun, Standing
  <2>2. CASE g # f
    <3> DEFINE b == AppOf[attempts[g].key]
    <3>1. attempts'[g] = attempts[g]
      BY <2>2 DEF Begun
    <3>2. /\ attempts[g].state # "none" /\ attempts[g].key \in Keys
          /\ apps[b].state \in Standing(attempts[g].state)
          /\ attempts[g].state = "BLOCKED_BEFORE_DISPATCH" => ~attempts[g].dispatched
      BY <3>1 DEF TablesAgree, AttemptsStand
    <3>3. b \in Apps /\ apps'[b].state \in ApplicationStates
      BY <3>2, QueueAssumption DEF TypeInv, TypeOK, QueueTypeOK, AppRow
    <3>4. CASE b = a
      <4>1. g \notin LiveOf(a)
        BY DEF Begun
      <4>2. attempts[g].state = "BLOCKED_BEFORE_DISPATCH"
        BY <3>2, <3>4, <4>1 DEF LiveOf, Live, OfApp
      <4> QED
        BY <3>1, <3>2, <3>3, <4>2 DEF Standing
    <3>5. CASE b # a
      BY <3>1, <3>2, <3>3, <3>5 DEF Begun
    <3> QED
      BY <3>4, <3>5
  <2> QED
    BY <2>1, <2>2
<1>3. ASSUME NEW b \in Apps
      PROVE  AppAttempted(b)'
  <2>1. CASE b = a
    BY <1>1, <2>1 DEF AppAttempted, Begun
  <2>2. CASE b # a
    <3>1. \A g \in Fences : OfApp(g, b) => OfApp(g, b)' /\ attempts'[g].state = attempts[g].state
      BY <1>1, <2>2 DEF OfApp, Begun
    <3>2. AppAttempted(b) /\ apps'[b] = apps[b]
      BY <2>2 DEF TablesAgree, AppsAttempted, Begun
    <3> QED
      BY <3>1, <3>2, AppStaysAttempted
  <2> QED
    BY <2>1, <2>2
<1> QED
  BY <1>2, <1>3 DEF TablesAgree, AppsAttempted

\* The stamp of a dispatch, on an attempt in flight.
Stamped(f) ==
  /\ attempts[f].state = "IN_FLIGHT" /\ ~attempts[f].dispatched
  /\ \A g \in Fences : g # f => attempts'[g] = attempts[g]
  /\ attempts'[f].state = "IN_FLIGHT" /\ attempts'[f].dispatched
  /\ attempts'[f].key = attempts[f].key

LEMMA AuthorizeStamps ==
  ASSUME TypeInv, NEW w \in Workers, AuthorizeDispatch(w)
  PROVE  worker[w].fence \in Fences /\ Stamped(worker[w].fence)
<1> DEFINE f == worker[w].fence
<1>1. f \in Fences
  BY BusyWorker DEF AuthorizeDispatch
<1>2. attempts[f].state = "IN_FLIGHT" /\ ~attempts[f].dispatched
  BY DEF AuthorizeDispatch, InFlight, Undispatched
<1>3. /\ attempts'[f] = [attempts[f] EXCEPT !.dispatched = TRUE]
      /\ \A g \in Fences : g # f => attempts'[g] = attempts[g]
  BY <1>1 DEF AuthorizeDispatch, TypeInv, TypeOK, QueueTypeOK
<1>4. attempts'[f].dispatched /\ attempts'[f].state = "IN_FLIGHT"
      /\ attempts'[f].key = attempts[f].key
  BY <1>1, <1>2, <1>3 DEF TypeInv, TypeOK, QueueTypeOK, AttemptRow
<1> QED
  BY <1>1, <1>2, <1>3, <1>4 DEF Stamped

LEMMA StampAgrees ==
  ASSUME TablesAgree, NEW f \in Fences, Stamped(f), UNCHANGED apps
  PROVE  TablesAgree'
<1>1. \A g \in Fences : /\ attempts'[g].state = attempts[g].state
                        /\ attempts'[g].key = attempts[g].key
                        /\ attempts[g].state # "IN_FLIGHT" => attempts'[g] = attempts[g]
  BY DEF Stamped
<1>2. AttemptsStand'
  BY <1>1 DEF TablesAgree, AttemptsStand
<1>3. ASSUME NEW b \in Apps
      PROVE  AppAttempted(b)'
  <2>1. \A g \in Fences : OfApp(g, b) => OfApp(g, b)' /\ attempts'[g].state = attempts[g].state
    BY <1>1 DEF OfApp
  <2> QED
    BY <2>1, AppStaysAttempted DEF TablesAgree, AppsAttempted
<1> QED
  BY <1>2, <1>3 DEF TablesAgree, AppsAttempted

\* No preparation is saved for an application past its final action.
LEMMA SaveIsBefore ==
  ASSUME TypeInv, TablesAgree, NEW k \in Keys, NEW status, NEW queueSubmit,
         SavePreparation(k, status, queueSubmit)
  PROVE  /\ AppOf[k] \in Apps
         /\ apps[AppOf[k]].state \notin Committed /\ apps'[AppOf[k]].state \notin Committed
         /\ \A b \in Apps : b # AppOf[k] => apps'[b] = apps[b]
<1> DEFINE a == AppOf[k]
<1>1. a \in Apps
  BY QueueAssumption
<1>2. apps'[a].state = StateAfter(status) /\ \A b \in Apps : b # a => apps'[b] = apps[b]
  BY <1>1, MoveAppKeeps DEF SavePreparation
<1>3. StateAfter(status) \notin Committed
  BY DEF StateAfter, Committed, Uncertain
<1>4. ASSUME apps[a].state \in Committed
      PROVE  FALSE
  <2>1. AppAttempted(a)
    BY <1>1 DEF TablesAgree, AppsAttempted
  <2>2. \E f \in Fences : OfApp(f, a) /\ attempts[f].state \in {"IN_FLIGHT", "UNKNOWN", "CONFIRMED"}
    BY <1>4, <2>1 DEF AppAttempted, Attempted, Committed, Uncertain
  <2>3. LiveOf(a) # {}
    BY <2>2 DEF LiveOf, Live
  <2> QED
    BY <1>4, <2>3 DEF SavePreparation, Committed, Uncertain
<1> QED
  BY <1>1, <1>2, <1>3, <1>4

LEMMA SaveAgrees ==
  ASSUME TypeInv, TypeInv', TablesAgree, NEW k \in Keys, NEW status, NEW queueSubmit,
         SavePreparation(k, status, queueSubmit)
  PROVE  TablesAgree'
<1>1. Interrupted({}) = {} /\ attempts' = RecoveredAttempts({})
  BY NothingRecovered DEF SavePreparation
<1>2. AppsRecovered({})
  BY <1>1, SaveIsBefore DEF AppsRecovered
<1> QED
  BY <1>2, RecoveryAgrees

-----------------------------------------------------------------------------
(* The queue keeps track of both                                            *)

\* What a worker has to know of its task keeps being so, if no stage that says
\* something of it is entered without that being so.
WorkersKnow ==
  \A w \in Workers :
    \/ worker'[w] = worker[w]
    \/ worker'[w].pc \notin HoldsHandle \cup {"read", "settled"}
    \/ worker'[w].task.type = "submit"
    \/ /\ worker'[w].pc = "settled"
       /\ apps'[AppOfWorker(w)'].state \in {"NEEDS_REVIEW", "CONFIRMED"}

LEMMA MovesKeepWork ==
  ASSUME TypeInv, TypeInv', TablesAgree, TablesAgree', WorkInv,
         NEW T, QueueMoves(T), WorkersKnow, UNCHANGED prep
  PROVE  WorkInv'
<1>1. AppsRecovered(T) /\ TasksRecovered(T) /\ T \subseteq TaskIds
  BY DEF QueueMoves
<1>2. \A a \in Interrupted(T) : apps[a].state = "IN_FLIGHT" /\ apps'[a].state = "UNKNOWN"
  BY <1>1 DEF AppsRecovered, Interrupted
<1>3. \A a \in Apps \ Interrupted(T) :
        \/ apps'[a].state = apps[a].state /\ apps'[a].commitFence = apps[a].commitFence
        \/ apps[a].state \notin Committed /\ apps'[a].state \notin Committed
  BY <1>1 DEF AppsRecovered
<1>4. \A a \in Apps : apps'[a].state \in Committed /\ apps'[a].state # "UNKNOWN" =>
        apps'[a].state = apps[a].state /\ apps'[a].commitFence = apps[a].commitFence
  BY <1>2, <1>3 DEF Committed, Uncertain
<1>5. InFlightLeased'
  <2> SUFFICES ASSUME NEW a \in Apps, apps'[a].state = "IN_FLIGHT"
               PROVE  \E t \in TaskIds :
                        /\ tasks'[t].state = "leased" /\ t.type = "submit"
                        /\ AppOf[t.key] = a /\ tasks'[t].fence = apps'[a].commitFence
    BY DEF InFlightLeased, Leased
  <2>1. apps[a].state = "IN_FLIGHT" /\ apps'[a].commitFence = apps[a].commitFence
    BY <1>4 DEF Committed, Uncertain
  <2>2. PICK t \in Leased : /\ t.type = "submit" /\ AppOf[t.key] = a
                            /\ tasks[t].fence = apps[a].commitFence
    BY <2>1 DEF WorkInv, InFlightLeased
  <2>3. t \notin T
    BY <1>2, <2>1, <2>2 DEF Interrupted
  <2>4. t \in TaskIds
    BY DEF Leased
  <2>5. tasks'[t].state = "leased" /\ tasks'[t].fence = tasks[t].fence
    BY <1>1, <2>1, <2>2, <2>3, <2>4 DEF TasksRecovered
  <2> QED
    BY <2>1, <2>2, <2>4, <2>5
<1>6. UnknownPending'
  <2> SUFFICES ASSUME NEW a \in Apps, apps'[a].state = "UNKNOWN"
               PROVE  \E t \in TaskIds : t.type = "reconcile" /\ AppOf[t.key] = a /\ Pending(t)'
    BY DEF UnknownPending
  <2>1. CASE a \in Interrupted(T)
    <3>1. apps[a].state = "IN_FLIGHT"
      BY <1>2, <2>1
    <3>2. PICK t \in T : t.type = "submit" /\ AppOf[t.key] = a
      BY <2>1 DEF Interrupted
    <3> DEFINE r == [type |-> "reconcile", key |-> t.key]
    <3>3. r \in TaskIds /\ r.type = "reconcile" /\ r.key = t.key
      BY <1>1, QueueAssumption DEF TaskIds
    <3>4. tasks[r].state = "absent"
      <4> SUFFICES ASSUME tasks[r].state # "absent" PROVE FALSE
        OBVIOUS
      <4>1. Attempted(a, "UNKNOWN") \/ Attempted(a, "CONFIRMED")
        BY <3>2, <3>3 DEF WorkInv, ReconcileFollowsLoss
      <4>2. PICK f \in Fences : OfApp(f, a) /\ attempts[f].state \in {"UNKNOWN", "CONFIRMED"}
        BY <4>1 DEF Attempted
      <4>3. apps[a].state \in Standing(attempts[f].state)
        BY <4>2 DEF TablesAgree, AttemptsStand, OfApp
      <4> QED
        BY <3>1, <4>2, <4>3 DEF Standing
    <3>5. MustReconcile(t)
      BY <3>1, <3>2 DEF MustReconcile, Uncertain
    <3>6. Pending(r)'
      BY <1>1, <3>2, <3>3, <3>4, <3>5 DEF TasksRecovered
    <3> QED
      BY <3>2, <3>3, <3>6
  <2>2. CASE a \notin Interrupted(T)
    <3>1. apps[a].state = "UNKNOWN"
      BY <1>3, <2>2 DEF Committed, Uncertain
    <3>2. PICK t \in TaskIds : t.type = "reconcile" /\ AppOf[t.key] = a /\ Pending(t)
      BY <3>1 DEF WorkInv, UnknownPending
    <3>3. Pending(t)'
      BY <1>1, <3>1, <3>2 DEF TasksRecovered
    <3> QED
      BY <3>2, <3>3
  <2> QED
    BY <2>1, <2>2
<1>7. ASSUME NEW f \in Fences, NEW a \in Apps, OfApp(f, a),
             attempts[f].state \in {"UNKNOWN", "CONFIRMED"}
      PROVE  OfApp(f, a)' /\ attempts'[f].state = attempts[f].state
  <2>1. attempts'[f] = attempts[f]
    BY <1>1, <1>7 DEF AppsRecovered, RecoveredAttempts
  <2> QED
    BY <1>7, <2>1 DEF OfApp
<1>8. ReconcileFollowsLoss'
  <2> SUFFICES ASSUME NEW t \in TaskIds, t.type = "reconcile", tasks'[t].state # "absent"
               PROVE  Attempted(AppOf[t.key], "UNKNOWN")' \/ Attempted(AppOf[t.key], "CONFIRMED")'
    BY DEF ReconcileFollowsLoss
  <2> DEFINE a == AppOf[t.key]
  <2>1. a \in Apps
    BY AppOfTask
  <2>2. CASE tasks[t].state # "absent"
    <3>1. Attempted(a, "UNKNOWN") \/ Attempted(a, "CONFIRMED")
      BY <2>2 DEF WorkInv, ReconcileFollowsLoss
    <3> QED
      BY <1>7, <2>1, <3>1 DEF Attempted
  <2>3. CASE tasks[t].state = "absent"
    <3>1. PICK s \in T : s.key = t.key /\ MustReconcile(s)
      BY <1>1, <2>3 DEF TasksRecovered
    <3>2. apps[a].state \in Uncertain /\ s.type = "submit"
      BY <3>1 DEF MustReconcile
    <3>3. apps'[a].state \in {"UNKNOWN", "NEEDS_REVIEW"}
      <4>1. CASE a \in Interrupted(T)
        BY <1>2, <4>1
      <4>2. CASE a \notin Interrupted(T)
        <5>1. apps[a].state # "IN_FLIGHT"
          BY <2>1, <3>1, <3>2, <4>2 DEF Interrupted
        <5>2. apps[a].state # "RECONCILING"
          BY <2>1 DEF TablesAgree, AppsAttempted, AppAttempted
        <5> QED
          BY <1>3, <2>1, <3>2, <4>2, <5>1, <5>2 DEF Committed, Uncertain
      <4> QED
        BY <4>1, <4>2
    <3> QED
      BY <2>1, <3>3 DEF TablesAgree, AppsAttempted, AppAttempted
  <2> QED
    BY <2>2, <2>3
<1>9. SubmitIsPrepared'
  <2>1. \A t \in TaskIds : t.type = "submit" /\ tasks[t].state = "absent" =>
          tasks'[t].state = "absent"
    BY <1>1 DEF TasksRecovered
  <2> QED
    BY <2>1 DEF WorkInv, SubmitIsPrepared
<1>10. StageTellsTask'
  <2> SUFFICES ASSUME NEW w \in Workers
               PROVE  /\ worker'[w].pc \in HoldsHandle \cup {"read"} => worker'[w].task.type = "submit"
                      /\ worker'[w].pc = "settled" /\ worker'[w].task.type = "reconcile" =>
                           apps'[AppOfWorker(w)'].state \in {"NEEDS_REVIEW", "CONFIRMED"}
    BY DEF StageTellsTask
  <2>1. CASE worker'[w] = worker[w]
    <3>1. AppOfWorker(w)' = AppOfWorker(w)
      BY <2>1 DEF AppOfWorker
    <3>2. worker[w].pc = "settled" => AppOfWorker(w) \in Apps
      BY BusyWorker
    <3>3. \A a \in Apps : apps[a].state \in {"NEEDS_REVIEW", "CONFIRMED"} =>
            apps'[a].state = apps[a].state
      BY <1>2, <1>3 DEF Committed, Uncertain
    <3> QED
      BY <2>1, <3>1, <3>2, <3>3 DEF WorkInv, StageTellsTask
  <2>2. CASE worker'[w].pc \notin HoldsHandle \cup {"read", "settled"}
    BY <2>2
  <2>3. CASE worker'[w].task.type = "submit"
    BY <2>3
  <2>4. CASE /\ worker'[w].pc = "settled"
             /\ apps'[AppOfWorker(w)'].state \in {"NEEDS_REVIEW", "CONFIRMED"}
    BY <2>4 DEF HoldsHandle
  <2> QED
    BY <2>1, <2>2, <2>3, <2>4 DEF WorkersKnow
<1> QED
  BY <1>5, <1>6, <1>8, <1>9, <1>10 DEF WorkInv

\* The steps that write about one application and leave the leases alone.
LEMMA WritingKeepsWork ==
  ASSUME TypeInv, TypeInv', WorkInv, NEW a \in Apps, WorkersKnow,
         \A b \in Apps : b # a => apps'[b] = apps[b],
         apps'[a].state # "UNKNOWN",
         apps'[a].state = "IN_FLIGHT" =>
           \E t \in Leased :
             /\ t.type = "submit" /\ AppOf[t.key] = a
             /\ tasks[t].fence = apps'[a].commitFence /\ tasks'[t] = tasks[t],
         apps[a].state \in {"NEEDS_REVIEW", "CONFIRMED"} =>
           apps'[a].state \in {"NEEDS_REVIEW", "CONFIRMED"},
         \A f \in Fences : attempts[f].state \in {"UNKNOWN", "CONFIRMED"} =>
           /\ attempts'[f].key = attempts[f].key
           /\ attempts'[f].state \in {"UNKNOWN", "CONFIRMED"},
         \A t \in TaskIds :
           \/ tasks'[t] = tasks[t]
           \/ t.type = "submit" /\ AppOf[t.key] = a /\ prep'[t.key].status # "none",
         \A k \in Keys : prep[k].status # "none" => prep'[k].status # "none"
  PROVE  WorkInv'
<1>1. InFlightLeased'
  <2> SUFFICES ASSUME NEW b \in Apps, apps'[b].state = "IN_FLIGHT"
               PROVE  \E t \in TaskIds :
                        /\ tasks'[t].state = "leased" /\ t.type = "submit"
                        /\ AppOf[t.key] = b /\ tasks'[t].fence = apps'[b].commitFence
    BY DEF InFlightLeased, Leased
  <2>1. CASE b = a
    BY <2>1 DEF Leased
  <2>2. CASE b # a
    <3>1. apps'[b] = apps[b]
      BY <2>2
    <3>2. PICK t \in Leased : /\ t.type = "submit" /\ AppOf[t.key] = b
                              /\ tasks[t].fence = apps[b].commitFence
      BY <3>1 DEF WorkInv, InFlightLeased
    <3>3. t \in TaskIds /\ tasks'[t] = tasks[t] /\ tasks[t].state = "leased"
      BY <2>2, <3>2 DEF Leased
    <3> QED
      BY <3>1, <3>2, <3>3
  <2> QED
    BY <2>1, <2>2
<1>2. UnknownPending'
  <2> SUFFICES ASSUME NEW b \in Apps, apps'[b].state = "UNKNOWN"
               PROVE  \E t \in TaskIds : t.type = "reconcile" /\ AppOf[t.key] = b /\ Pending(t)'
    BY DEF UnknownPending
  <2>1. apps'[b] = apps[b]
    OBVIOUS
  <2>2. PICK t \in TaskIds : t.type = "reconcile" /\ AppOf[t.key] = b /\ Pending(t)
    BY <2>1 DEF WorkInv, UnknownPending
  <2>3. tasks'[t] = tasks[t]
    BY <2>2
  <2> QED
    BY <2>2, <2>3 DEF Pending
<1>3. ReconcileFollowsLoss'
  <2> SUFFICES ASSUME NEW t \in TaskIds, t.type = "reconcile", tasks'[t].state # "absent"
               PROVE  Attempted(AppOf[t.key], "UNKNOWN")' \/ Attempted(AppOf[t.key], "CONFIRMED")'
    BY DEF ReconcileFollowsLoss
  <2>1. tasks[t].state # "absent"
    OBVIOUS
  <2>2. Attempted(AppOf[t.key], "UNKNOWN") \/ Attempted(AppOf[t.key], "CONFIRMED")
    BY <2>1 DEF WorkInv, ReconcileFollowsLoss
  <2> QED
    BY <2>2 DEF Attempted, OfApp
<1>4. SubmitIsPrepared'
  <2> SUFFICES ASSUME NEW t \in TaskIds, t.type = "submit", tasks'[t].state # "absent"
               PROVE  prep'[t.key].status # "none"
    BY DEF SubmitIsPrepared
  <2> QED
    BY AppOfTask DEF WorkInv, SubmitIsPrepared
<1>5. StageTellsTask'
  <2> SUFFICES ASSUME NEW w \in Workers
               PROVE  /\ worker'[w].pc \in HoldsHandle \cup {"read"} => worker'[w].task.type = "submit"
                      /\ worker'[w].pc = "settled" /\ worker'[w].task.type = "reconcile" =>
                           apps'[AppOfWorker(w)'].state \in {"NEEDS_REVIEW", "CONFIRMED"}
    BY DEF StageTellsTask
  <2>1. CASE worker'[w] = worker[w]
    <3>1. AppOfWorker(w)' = AppOfWorker(w)
      BY <2>1 DEF AppOfWorker
    <3>2. worker[w].pc = "settled" => AppOfWorker(w) \in Apps
      BY BusyWorker
    <3>3. \A b \in Apps : apps[b].state \in {"NEEDS_REVIEW", "CONFIRMED"} =>
            apps'[b].state \in {"NEEDS_REVIEW", "CONFIRMED"}
      OBVIOUS
    <3> QED
      BY <2>1, <3>1, <3>2, <3>3 DEF WorkInv, StageTellsTask
  <2>2. CASE worker'[w].pc \notin HoldsHandle \cup {"read", "settled"}
    BY <2>2
  <2>3. CASE worker'[w].task.type = "submit"
    BY <2>3
  <2>4. CASE /\ worker'[w].pc = "settled"
             /\ apps'[AppOfWorker(w)'].state \in {"NEEDS_REVIEW", "CONFIRMED"}
    BY <2>4 DEF HoldsHandle
  <2> QED
    BY <2>1, <2>2, <2>3, <2>4 DEF WorkersKnow
<1> QED
  BY <1>1, <1>2, <1>3, <1>4, <1>5 DEF WorkInv

\* A worker that advances with its submit task, or to a stage that tells nothing.
LEMMA AdvanceKnows ==
  ASSUME TypeInv, WorkInv, NEW w \in Workers, NEW pc \in WorkerStages, Advance(w, pc),
         \/ worker[w].pc \in HoldsHandle \cup {"read"}
         \/ pc \notin HoldsHandle \cup {"read", "settled"}
  PROVE  WorkersKnow
<1>1. worker[w].pc \in HoldsHandle \cup {"read"} => worker[w].task.type = "submit"
  BY DEF WorkInv, StageTellsTask
<1> QED
  BY <1>1, AdvanceKeeps DEF WorkersKnow

LEMMA ForgettingKnows ==
  ASSUME TypeInv, NEW w \in Workers, worker' = [worker EXCEPT ![w] = Idle]
  PROVE  WorkersKnow
<1>1. worker'[w] = Idle /\ \A v \in Workers : v # w => worker'[v] = worker[v]
  BY DEF TypeInv, TypeOK
<1>2. Idle.pc \notin HoldsHandle \cup {"read", "settled"}
  BY DEF Idle, HoldsHandle
<1> QED
  BY <1>1, <1>2 DEF WorkersKnow

LEMMA WriteKeepsWork ==
  ASSUME TypeInv, TypeInv', TablesAgree, WorkInv, NEW f \in Fences, NEW a \in Apps,
         Settled(f, a), WorkersKnow, UNCHANGED <<tasks, prep>>
  PROVE  WorkInv'
<1>1. apps[a].state \in Standing(attempts[f].state)
  BY DEF Settled, TablesAgree, AttemptsStand, OfApp
<1>2. /\ apps'[a].state \notin {"UNKNOWN", "IN_FLIGHT"}
      /\ apps[a].state \in {"NEEDS_REVIEW", "CONFIRMED"} =>
           apps'[a].state \in {"NEEDS_REVIEW", "CONFIRMED"}
  BY <1>1 DEF Settled, Standing
<1>3. \A g \in Fences : attempts[g].state \in {"UNKNOWN", "CONFIRMED"} =>
        /\ attempts'[g].key = attempts[g].key
        /\ attempts'[g].state \in {"UNKNOWN", "CONFIRMED"}
  BY DEF Settled
<1>4. \A b \in Apps : b # a => apps'[b] = apps[b]
  BY DEF Settled
<1> QED
  BY <1>2, <1>3, <1>4, WritingKeepsWork

LEMMA BeginKeepsWork ==
  ASSUME TypeInv, TypeInv', ClickInv, TablesAgree, WorkInv, NEW w \in Workers, Begin(w)
  PROVE  WorkInv'
<1> DEFINE f == worker[w].fence
           a == AppOfWorker(w)
           t == worker[w].task
<1>1. /\ f \in Fences /\ a \in Apps /\ Begun(f, a) /\ apps[a].state = "READY"
  BY BeginBegins
<1>2. t \in TaskIds
  BY BusyWorker DEF Begin
<1>3. WorkersKnow
  BY AdvanceKnows DEF Begin, WorkerStages
<1>4. t \in Leased /\ t.type = "submit" /\ AppOf[t.key] = a /\ tasks[t].fence = f
  BY <1>2 DEF Begin, Holds, HasLease, Leased, AppOfWorker, WorkInv, StageTellsTask
<1>5. UNCHANGED <<tasks, prep>>
  BY DEF Begin
<1> HIDE DEF f, a, t
<1>6. /\ apps'[a].state = "IN_FLIGHT" /\ apps'[a].commitFence = f
      /\ \A b \in Apps : b # a => apps'[b] = apps[b]
      /\ \A g \in Fences : attempts[g].state # "none" => attempts'[g] = attempts[g]
  BY <1>1 DEF Begun
<1> QED
  BY <1>1, <1>3, <1>4, <1>5, <1>6, WritingKeepsWork

LEMMA AuthorizeKeepsWork ==
  ASSUME TypeInv, TypeInv', WorkInv, NEW w \in Workers, AuthorizeDispatch(w)
  PROVE  WorkInv'
<1> DEFINE a == AppOfWorker(w)
<1>1. a \in Apps /\ worker[w].fence \in Fences /\ Stamped(worker[w].fence)
  BY BusyWorker, AuthorizeStamps DEF AuthorizeDispatch
<1>2. apps[a].state = "IN_FLIGHT" /\ UNCHANGED <<tasks, prep, apps>>
  BY DEF AuthorizeDispatch, InFlight
<1>3. WorkersKnow
  BY AdvanceKnows DEF AuthorizeDispatch, WorkerStages, HoldsHandle
<1>4. \A g \in Fences : attempts[g].state \in {"UNKNOWN", "CONFIRMED"} => attempts'[g] = attempts[g]
  BY <1>1 DEF Stamped
<1> HIDE DEF a
<1>5. \E t \in Leased : /\ t.type = "submit" /\ AppOf[t.key] = a
                        /\ tasks[t].fence = apps[a].commitFence
  BY <1>1, <1>2 DEF WorkInv, InFlightLeased
<1> QED
  BY <1>1, <1>2, <1>3, <1>4, <1>5, WritingKeepsWork

LEMMA SaveKeepsWork ==
  ASSUME TypeInv, TypeInv', TablesAgree, WorkInv,
         NEW k \in Keys, NEW status \in Statuses, NEW queueSubmit \in BOOLEAN,
         SavePreparation(k, status, queueSubmit), UNCHANGED worker
  PROVE  WorkInv'
<1> DEFINE a == AppOf[k]
           t == Task("submit", k)
<1>1. /\ a \in Apps
      /\ apps[a].state \notin Committed /\ apps'[a].state \notin Committed
      /\ \A b \in Apps : b # a => apps'[b] = apps[b]
  BY SaveIsBefore
<1>2. UNCHANGED attempts
  BY DEF SavePreparation
<1>3. WorkersKnow
  BY DEF WorkersKnow
<1>4. prep'[k].status # "none" /\ \A j \in Keys : j # k => prep'[j] = prep[j]
  BY SubmissionAssumption DEF SavePreparation, TypeInv, TypeOK
<1>5. t \in TaskIds /\ t.type = "submit" /\ t.key = k
  BY SubmitTaskTyped DEF Task
<1>6. \A u \in TaskIds : u # t => tasks'[u] = tasks[u]
  BY DEF SavePreparation, TypeInv, TypeOK, QueueTypeOK
<1> HIDE DEF a, t
<1>7. apps'[a].state \notin {"UNKNOWN", "IN_FLIGHT"}
      /\ apps[a].state \notin {"NEEDS_REVIEW", "CONFIRMED"}
  BY <1>1 DEF Committed, Uncertain
<1>8. \A u \in TaskIds :
        \/ tasks'[u] = tasks[u]
        \/ u.type = "submit" /\ AppOf[u.key] = a /\ prep'[u.key].status # "none"
  BY <1>4, <1>5, <1>6 DEF a
<1>9. \A j \in Keys : prep[j].status # "none" => prep'[j].status # "none"
  BY <1>4
<1> QED
  BY <1>1, <1>2, <1>3, <1>7, <1>8, <1>9, WritingKeepsWork

-----------------------------------------------------------------------------
(* What the employer did and what is known of it                            *)

\* Nothing of what is on record, or taken to be, is disturbed as long as no
\* outcome is recorded that did not happen.
LEMMA RecordsKept ==
  ASSUME EmployerInv, AttemptsKept, UNCHANGED employer,
         \A f \in Fences :
           /\ attempts'[f].dispatched => attempts[f].dispatched
           /\ attempts'[f].state = "CONFIRMED" =>
                attempts[f].state = "CONFIRMED" \/ employer[f] = "recorded"
           /\ attempts'[f].state = "DEFINITIVE_FAILURE" =>
                attempts[f].state = "DEFINITIVE_FAILURE" \/ employer[f] = "rejected",
         \A w \in Workers :
           \/ worker'[w] = worker[w] /\ (worker[w].pc # "idle" => worker[w].fence \in Fences)
           \/ Heard(w)'
  PROVE  EmployerInv'
<1>1. RecordsAreTrue'
  BY DEF EmployerInv, RecordsAreTrue, AttemptsKept, AttemptKept
<1>2. ASSUME NEW w \in Workers
      PROVE  Heard(w)'
  <2>1. CASE worker'[w] = worker[w] /\ (worker[w].pc # "idle" => worker[w].fence \in Fences)
    <3>1. Heard(w)
      BY DEF EmployerInv, HeardIsTrue
    <3>2. AppOfWorker(w)' = AppOfWorker(w)
      BY <2>1 DEF AppOfWorker
    <3>3. \A f \in Fences : OfApp(f, AppOfWorker(w)) => OfApp(f, AppOfWorker(w))'
      BY <3>2 DEF AttemptsKept, AttemptKept, OfApp
    <3>4. worker[w].pc = "found" =>
            \E g \in Fences : OfApp(g, AppOfWorker(w))' /\ employer'[g] = "recorded"
      BY <3>1, <3>3 DEF Heard
    <3> QED
      BY <2>1, <3>1, <3>4 DEF Heard
  <2> QED
    BY <2>1
<1> QED
  BY <1>1, <1>2 DEF EmployerInv, HeardIsTrue

\* A stage in which nothing is taken to have happened.
LEMMA NothingHeard ==
  ASSUME NEW w,
         worker'[w].pc \notin {"begun", "permitted", "accepted", "refused", "found"}
  PROVE  Heard(w)'
  BY DEF Heard

LEMMA RecoveryKeepsRecords ==
  ASSUME TypeInv, EmployerInv, NEW T, attempts' = RecoveredAttempts(T), UNCHANGED employer,
         \A w \in Workers : worker'[w] = worker[w] \/ Heard(w)'
  PROVE  EmployerInv'
<1>1. AttemptsKept
  BY RecoveryKeeps
<1>2. ASSUME NEW f \in Fences
      PROVE  /\ attempts'[f].dispatched = attempts[f].dispatched
             /\ attempts'[f].state # attempts[f].state => attempts'[f].state = "UNKNOWN"
  <2>1. attempts[f] \in AttemptRow
    BY DEF TypeInv, TypeOK, QueueTypeOK
  <2>2. attempts'[f] = attempts[f] \/ attempts'[f] = [attempts[f] EXCEPT !.state = "UNKNOWN"]
    BY DEF RecoveredAttempts
  <2> QED
    BY <2>1, <2>2 DEF AttemptRow
<1>3. \A w \in Workers : worker[w].pc # "idle" => worker[w].fence \in Fences
  BY BusyWorker
<1> QED
  BY <1>1, <1>2, <1>3, RecordsKept

LEMMA SameAttemptsKeepRecords ==
  ASSUME TypeInv, EmployerInv, UNCHANGED <<attempts, employer>>,
         \A w \in Workers : worker'[w] = worker[w] \/ Heard(w)'
  PROVE  EmployerInv'
<1>1. \A w \in Workers : worker[w].pc # "idle" => worker[w].fence \in Fences
  BY BusyWorker
<1> QED
  BY <1>1, UnchangedKeeps, RecordsKept

\* A worker that goes idle, or writes an outcome that was heard of.
LEMMA ForgettingHears ==
  ASSUME TypeInv, NEW w \in Workers, worker' = [worker EXCEPT ![w] = Idle]
  PROVE  \A v \in Workers : worker'[v] = worker[v] \/ Heard(v)'
<1>1. worker'[w] = Idle /\ \A v \in Workers : v # w => worker'[v] = worker[v]
  BY DEF TypeInv, TypeOK
<1>2. Heard(w)'
  BY <1>1, NothingHeard DEF Idle
<1> QED
  BY <1>1, <1>2

LEMMA WriteKeepsRecords ==
  ASSUME TypeInv, EmployerInv, NEW f \in Fences, NEW a \in Apps, Settled(f, a),
         NEW w \in Workers, Advance(w, "settled"), UNCHANGED employer,
         attempts'[f].state = "CONFIRMED" => employer[f] = "recorded",
         attempts'[f].state = "DEFINITIVE_FAILURE" => employer[f] = "rejected"
  PROVE  EmployerInv'
<1>1. AttemptsKept
  <2> SUFFICES ASSUME NEW g \in Fences
               PROVE  AttemptKept(g)
    BY DEF AttemptsKept
  <2>1. CASE g = f
    BY <2>1 DEF Settled, Live, AttemptKept
  <2>2. CASE g # f
    BY <2>2 DEF Settled, Live, AttemptKept
  <2> QED
    BY <2>1, <2>2
<1>2. \A g \in Fences :
        /\ attempts'[g].dispatched => attempts[g].dispatched
        /\ attempts'[g].state = "CONFIRMED" =>
             attempts[g].state = "CONFIRMED" \/ employer[g] = "recorded"
        /\ attempts'[g].state = "DEFINITIVE_FAILURE" =>
             attempts[g].state = "DEFINITIVE_FAILURE" \/ employer[g] = "rejected"
  BY DEF Settled
<1>3. worker'[w].pc = "settled" /\ \A v \in Workers : v # w => worker'[v] = worker[v]
  BY AdvanceKeeps DEF WorkerStages
<1>4. Heard(w)'
  BY <1>3, NothingHeard
<1>5. \A v \in Workers : worker[v].pc # "idle" => worker[v].fence \in Fences
  BY BusyWorker
<1> QED
  BY <1>1, <1>2, <1>3, <1>4, <1>5, RecordsKept

LEMMA BeginKeepsRecords ==
  ASSUME TypeInv, ClickInv, EmployerInv, NEW w \in Workers, Begin(w)
  PROVE  EmployerInv'
<1> DEFINE f == worker[w].fence
<1>1. f \in Fences /\ Begun(f, AppOfWorker(w)) /\ worker[w] # Idle
  BY BusyWorker, BeginBegins DEF Begin
<1>2. /\ worker'[w].pc = "begun" /\ worker'[w].fence = f
      /\ \A v \in Workers : v # w => worker'[v] = worker[v]
  BY AdvanceKeeps DEF Begin, WorkerStages
<1>3. UNCHANGED employer
  BY DEF Begin
<1>4. \A v \in Workers : v # w /\ worker[v].pc # "idle" => worker[v].fence # f
  BY <1>1, BusyWorker DEF ClickInv, FenceInv, FencesDistinct
<1>5. attempts[f].state = "none" /\ \A g \in Fences : g # f => attempts'[g] = attempts[g]
  BY <1>1 DEF Begun
<1>6. attempts'[f].state = "IN_FLIGHT" /\ ~attempts'[f].dispatched
  BY <1>1 DEF Begun
<1> HIDE DEF f
<1>7. RecordsAreTrue'
  BY <1>1, <1>3, <1>5, <1>6 DEF EmployerInv, RecordsAreTrue
<1>8. ASSUME NEW v \in Workers
      PROVE  Heard(v)'
  <2>1. CASE v = w
    BY <1>2, <1>6, <2>1 DEF Heard
  <2>2. CASE v # w
    <3>1. worker'[v] = worker[v] /\ Heard(v)
      BY <1>2, <2>2 DEF EmployerInv, HeardIsTrue
    <3>2. worker[v].pc = "begun" => attempts'[worker[v].fence] = attempts[worker[v].fence]
      BY <1>4, <1>5, <2>2, BusyWorker
    <3>3. worker[v].pc = "found" =>
            \E g \in Fences : OfApp(g, AppOfWorker(v))' /\ employer'[g] = "recorded"
      <4> SUFFICES ASSUME worker[v].pc = "found"
                   PROVE  \E g \in Fences : OfApp(g, AppOfWorker(v))' /\ employer'[g] = "recorded"
        OBVIOUS
      <4>1. PICK g \in Fences : OfApp(g, AppOfWorker(v)) /\ employer[g] = "recorded"
        BY <3>1 DEF Heard
      <4>2. attempts'[g] = attempts[g]
        BY <1>5, <4>1 DEF OfApp
      <4> QED
        BY <1>3, <3>1, <4>1, <4>2 DEF OfApp, AppOfWorker
    <3> QED
      BY <1>3, <3>1, <3>2, <3>3 DEF Heard
  <2> QED
    BY <2>1, <2>2
<1> QED
  BY <1>7, <1>8 DEF EmployerInv, HeardIsTrue

LEMMA AuthorizeKeepsRecords ==
  ASSUME TypeInv, ClickInv, EmployerInv, NEW w \in Workers, AuthorizeDispatch(w)
  PROVE  EmployerInv'
<1> DEFINE f == worker[w].fence
<1>1. f \in Fences /\ Stamped(f) /\ worker[w] # Idle
  BY BusyWorker, AuthorizeStamps DEF AuthorizeDispatch
<1>2. /\ worker'[w].pc = "permitted" /\ worker'[w].fence = f
      /\ \A v \in Workers : v # w => worker'[v] = worker[v]
  BY AdvanceKeeps DEF AuthorizeDispatch, WorkerStages
<1>3. UNCHANGED employer
  BY DEF AuthorizeDispatch
<1>4. \A v \in Workers : v # w /\ worker[v].pc # "idle" => worker[v].fence # f
  BY <1>1, BusyWorker DEF ClickInv, FenceInv, FencesDistinct
<1> HIDE DEF f
<1>5. employer[f] = "none"
  BY <1>1 DEF Stamped, EmployerInv, RecordsAreTrue
<1>6. RecordsAreTrue'
  BY <1>1, <1>3 DEF EmployerInv, RecordsAreTrue, Stamped
<1>7. ASSUME NEW v \in Workers
      PROVE  Heard(v)'
  <2>1. CASE v = w
    BY <1>2, <1>3, <1>5, <2>1 DEF Heard
  <2>2. CASE v # w
    <3>1. worker'[v] = worker[v] /\ Heard(v)
      BY <1>2, <2>2 DEF EmployerInv, HeardIsTrue
    <3>2. worker[v].pc = "begun" => attempts'[worker[v].fence] = attempts[worker[v].fence]
      BY <1>1, <1>4, <2>2, BusyWorker DEF Stamped
    <3>3. \A g \in Fences : OfApp(g, AppOfWorker(v)) => OfApp(g, AppOfWorker(v))'
      BY <1>1, <3>1 DEF Stamped, OfApp, AppOfWorker
    <3>4. worker[v].pc = "found" =>
            \E g \in Fences : OfApp(g, AppOfWorker(v))' /\ employer'[g] = "recorded"
      BY <1>3, <3>1, <3>3 DEF Heard
    <3> QED
      BY <1>3, <3>1, <3>2, <3>4 DEF Heard
  <2> QED
    BY <2>1, <2>2
<1> QED
  BY <1>6, <1>7 DEF EmployerInv, HeardIsTrue

\* The press, of an attempt that was dispatched and has no answer yet.
LEMMA ClickKeepsRecords ==
  ASSUME TypeInv, ClickInv, EmployerInv, NEW w \in Workers, Click(w)
  PROVE  EmployerInv'
<1> DEFINE f == worker[w].fence
<1>1. f \in Fences /\ worker[w] # Idle /\ worker[w].pc = "permitted"
  BY BusyWorker DEF Click, MayClick
<1>2. /\ worker'[w].pc = "clicked"
      /\ \A v \in Workers : v # w => worker'[v] = worker[v]
  BY AdvanceKeeps DEF Click, WorkerStages
<1>3. UNCHANGED attempts
  BY DEF Click, queueVars
<1>4. attempts[f].dispatched
  BY <1>1 DEF ClickInv, FenceInv, PermitUnused
<1>5. employer[f] = "none"
  BY <1>1 DEF EmployerInv, HeardIsTrue, Heard
<1>6. employer'[f] = "sent" /\ \A g \in Fences : g # f => employer'[g] = employer[g]
  BY <1>1 DEF Click, TypeInv, TypeOK
<1>7. \A v \in Workers : v # w /\ worker[v].pc # "idle" => worker[v].fence # f
  BY <1>1, BusyWorker DEF ClickInv, FenceInv, FencesDistinct
<1> HIDE DEF f
<1>8. RecordsAreTrue'
  BY <1>3, <1>4, <1>5, <1>6 DEF EmployerInv, RecordsAreTrue
<1>9. ASSUME NEW v \in Workers
      PROVE  Heard(v)'
  <2>1. CASE v = w
    BY <1>2, <2>1, NothingHeard
  <2>2. CASE v # w
    <3>1. worker'[v] = worker[v] /\ Heard(v)
      BY <1>2, <2>2 DEF EmployerInv, HeardIsTrue
    <3>2. worker[v].pc # "idle" => employer'[worker[v].fence] = employer[worker[v].fence]
      BY <1>6, <1>7, <2>2, BusyWorker
    <3>3. \A g \in Fences : OfApp(g, AppOfWorker(v)) => OfApp(g, AppOfWorker(v))'
      BY <1>3, <3>1 DEF OfApp, AppOfWorker
    <3>4. worker[v].pc = "found" =>
            \E g \in Fences : OfApp(g, AppOfWorker(v))' /\ employer'[g] = "recorded"
      BY <1>5, <1>6, <3>1, <3>3 DEF Heard
    <3> QED
      BY <1>3, <3>1, <3>2, <3>4 DEF Heard
  <2> QED
    BY <2>1, <2>2
<1> QED
  BY <1>8, <1>9 DEF EmployerInv, HeardIsTrue

LEMMA AnswerKeepsRecords ==
  ASSUME TypeInv, EmployerInv, NEW f \in Fences, NEW answer, EmployerAnswer(f, answer)
  PROVE  EmployerInv'
<1>1. /\ employer[f] = "sent" /\ employer'[f] = answer
      /\ \A g \in Fences : g # f => employer'[g] = employer[g]
  BY DEF EmployerAnswer, TypeInv, TypeOK
<1>2. UNCHANGED <<attempts, worker>>
  BY DEF EmployerAnswer, queueVars
<1>3. RecordsAreTrue'
  BY <1>1, <1>2 DEF EmployerInv, RecordsAreTrue
<1>4. ASSUME NEW v \in Workers
      PROVE  Heard(v)'
  <2>1. Heard(v)
    BY DEF EmployerInv, HeardIsTrue
  <2>2. worker[v].pc # "idle" /\ worker[v].fence # f =>
          employer'[worker[v].fence] = employer[worker[v].fence]
    BY <1>1, BusyWorker
  <2>3. \A g \in Fences : OfApp(g, AppOfWorker(v)) => OfApp(g, AppOfWorker(v))'
    BY <1>2 DEF OfApp, AppOfWorker
  <2>4. worker[v].pc = "found" =>
          \E g \in Fences : OfApp(g, AppOfWorker(v))' /\ employer'[g] = "recorded"
    BY <1>1, <2>1, <2>3 DEF Heard
  <2> QED
    BY <1>1, <1>2, <2>1, <2>2, <2>4 DEF Heard
<1> QED
  BY <1>3, <1>4 DEF EmployerInv, HeardIsTrue

\* The answer heard by commit is that of the worker's own attempt.
LEMMA RespondKeepsRecords ==
  ASSUME TypeInv, EmployerInv, NEW w \in Workers, Respond(w)
  PROVE  EmployerInv'
<1>1. UNCHANGED <<attempts, employer>>
  BY DEF Respond, queueVars
<1>2. \/ employer[worker[w].fence] = "recorded" /\ Advance(w, "accepted")
      \/ employer[worker[w].fence] = "rejected" /\ Advance(w, "refused")
  BY DEF Respond
<1>3. \A v \in Workers : v # w => worker'[v] = worker[v]
  BY <1>2, AdvanceKeeps DEF WorkerStages
<1>4. Heard(w)'
  <2>1. worker'[w].fence = worker[w].fence
    BY <1>2, AdvanceKeeps DEF WorkerStages
  <2>2. CASE employer[worker[w].fence] = "recorded" /\ Advance(w, "accepted")
    <3>1. worker'[w].pc = "accepted"
      BY <2>2, AdvanceKeeps DEF WorkerStages
    <3> QED
      BY <1>1, <2>1, <2>2, <3>1 DEF Heard
  <2>3. CASE employer[worker[w].fence] = "rejected" /\ Advance(w, "refused")
    <3>1. worker'[w].pc = "refused"
      BY <2>3, AdvanceKeeps DEF WorkerStages
    <3> QED
      BY <1>1, <2>1, <2>3, <3>1 DEF Heard
  <2> QED
    BY <1>2, <2>2, <2>3
<1> QED
  BY <1>1, <1>3, <1>4, SameAttemptsKeepRecords

LEMMA LookupKeepsRecords ==
  ASSUME TypeInv, EmployerInv, NEW w \in Workers, Lookup(w)
  PROVE  EmployerInv'
<1>1. UNCHANGED <<attempts, employer>>
  BY DEF Lookup, queueVars
<1>2. \/ /\ \E f \in Fences : OfApp(f, AppOfWorker(w)) /\ employer[f] = "recorded"
         /\ Advance(w, "found")
      \/ Advance(w, "missing")
  BY DEF Lookup
<1>3. /\ \A v \in Workers : v # w => worker'[v] = worker[v]
      /\ worker'[w].task = worker[w].task
  BY <1>2, AdvanceKeeps DEF WorkerStages
<1>4. Heard(w)'
  <2>1. CASE Advance(w, "missing")
    BY <2>1, AdvanceKeeps, NothingHeard DEF WorkerStages
  <2>2. CASE /\ \E f \in Fences : OfApp(f, AppOfWorker(w)) /\ employer[f] = "recorded"
             /\ Advance(w, "found")
    <3>1. worker'[w].pc = "found"
      BY <2>2, AdvanceKeeps DEF WorkerStages
    <3>2. \E f \in Fences : OfApp(f, AppOfWorker(w))' /\ employer'[f] = "recorded"
      BY <1>1, <1>3, <2>2 DEF OfApp, AppOfWorker
    <3> QED
      BY <3>1, <3>2 DEF Heard
  <2> QED
    BY <1>2, <2>1, <2>2
<1> QED
  BY <1>1, <1>3, <1>4, SameAttemptsKeepRecords

\* The record that was found is of the attempt that is confirmed: both are live.
LEMMA EvidenceKeepsRecords ==
  ASSUME TypeInv, ClickInv, EmployerInv, NEW w \in Workers, ReconcileEvidence(w)
  PROVE  EmployerInv'
<1> DEFINE a == AppOfWorker(w)
<1>1. PICK f \in Fences :
        /\ Settled(f, a) /\ attempts[f].state = "UNKNOWN"
        /\ \/ worker[w].pc = "found" /\ attempts'[f].state = "CONFIRMED"
           \/ worker[w].pc # "found" /\ attempts' = attempts
  BY EvidenceSettles
<1>2. a \in Apps
  BY EvidenceSettles
<1>3. worker[w].pc = "found" => employer[f] = "recorded"
  <2> SUFFICES ASSUME worker[w].pc = "found" PROVE employer[f] = "recorded"
    OBVIOUS
  <2>1. PICK g \in Fences : OfApp(g, a) /\ employer[g] = "recorded"
    BY DEF EmployerInv, HeardIsTrue, Heard
  <2>2. attempts[g].dispatched
    BY <2>1 DEF EmployerInv, RecordsAreTrue
  <2>3. g \in LiveOf(a) /\ f \in LiveOf(a)
    BY <1>1, <2>1, <2>2 DEF LiveOf, Live, OfApp, Settled
  <2> QED
    BY <1>2, <2>1, <2>3 DEF ClickInv, FenceInv, SingleLiveAttempt
<1>4. Advance(w, "settled") /\ UNCHANGED employer
  BY DEF ReconcileEvidence
<1>5. attempts'[f].state = "CONFIRMED" => employer[f] = "recorded"
  BY <1>1, <1>3
<1>6. attempts'[f].state # "DEFINITIVE_FAILURE"
  BY <1>1
<1> QED
  BY <1>1, <1>2, <1>4, <1>5, <1>6, WriteKeepsRecords

-----------------------------------------------------------------------------
(* Leases                                                                   *)

Closed == control.stopped \/ control.submissionsPaused

\* Leases stay admissible when none is added and, as the gate closes, those to
\* submit are gone.
LEMMA LeasesShrink ==
  ASSUME LeaseInv, \A t \in Leased' : t \in Leased,
         Closed' => Closed \/ \A t \in Leased' : t.type # "submit"
  PROVE  LeaseInv'
<1>1. Leased' \subseteq Leased /\ IsFiniteSet(Leased)
  BY DEF LeaseInv
<1>2. IsFiniteSet(Leased') /\ Cardinality(Leased') <= Cardinality(Leased)
  BY <1>1, FS_Subset
<1>3. /\ Cardinality(Leased) \in Nat /\ Cardinality(Leased') \in Nat
      /\ Concurrency \in Nat
  BY <1>1, <1>2, FS_CardinalityType, QueueAssumption
<1>4. Cardinality(Leased') <= Concurrency
  BY <1>2, <1>3 DEF LeaseInv, LeasesStayAdmissible
<1>5. \A t, u \in Leased' : t # u => Domain(t) # Domain(u) /\ AppOf[t.key] # AppOf[u.key]
  BY <1>1 DEF LeaseInv, LeasesStayAdmissible
<1>6. Closed' => \A t \in Leased' : t.type # "submit"
  BY <1>1 DEF LeaseInv, LeasesStayAdmissible, Closed
<1>7. \A t : Domain(t)' = Domain(t)
  BY DEF Domain
<1> QED
  BY <1>2, <1>4, <1>5, <1>6, <1>7 DEF LeaseInv, LeasesStayAdmissible, Closed

LEMMA SameLeases ==
  ASSUME LeaseInv, UNCHANGED <<tasks, control>>
  PROVE  LeaseInv'
<1>1. \A t \in Leased' : t \in Leased
  BY DEF Leased
<1>2. Closed' => Closed
  BY DEF Closed
<1> QED
  BY <1>1, <1>2, LeasesShrink

\* Recovery takes the leases of the tasks it is applied to, and gives none.
LEMMA RecoveryFrees ==
  ASSUME TypeInv, NEW T, NEW cancelled \in BOOLEAN, NEW t \in TaskIds,
         RecoveredTasks(T, cancelled)[t].state = "leased"
  PROVE  t \in Leased /\ t \notin T
<1>1. t \notin T
  BY RecoveredRow
<1>2. RecoveredTasks(T, cancelled)[t] = tasks[t]
  BY <1>1, RecoveredRow
<1> QED
  BY <1>1, <1>2 DEF Leased

LEMMA RecoverFrees ==
  ASSUME TypeInv, NEW T, NEW cancelled \in BOOLEAN, RecoverTasks(T, cancelled)
  PROVE  \A t \in Leased' : t \in Leased /\ t \notin T
  BY RecoveryFrees DEF Leased, RecoverTasks

\* A step that touches only the row of a leased task adds no lease.
LEMMA HolderFrees ==
  ASSUME TypeInv, LeaseInv, NEW t \in Leased, NEW row,
         tasks' = [tasks EXCEPT ![t] = row], UNCHANGED control
  PROVE  LeaseInv'
<1>1. \A u \in Leased' : u \in Leased
  BY DEF Leased, TypeInv, TypeOK, QueueTypeOK
<1>2. Closed' => Closed
  BY DEF Closed
<1> QED
  BY <1>1, <1>2, LeasesShrink

LEMMA ClaimLeases ==
  ASSUME TypeInv, LeaseInv, NEW types, NEW t \in TaskIds, Claim(types, t)
  PROVE  LeaseInv'
<1> DEFINE rows == RecoveredTasks(Expired, FALSE)
           leased == {u \in TaskIds : rows[u].state = "leased"}
<1>1. leased \subseteq Leased
  BY RecoveryFrees
<1>2. rows \in [TaskIds -> TaskRow]
  BY RecoverTypes DEF TypeInv, TypeOK
<1>3. /\ ~(Cardinality(leased) >= Concurrency)
      /\ t.type \in Allowed(types)
      /\ rows[t].state \in {"ready", "retry_wait"}
      /\ \A u \in leased : ~Conflicts(t, u)
  BY DEF Claim, Claimable
<1>4. tasks' = [rows EXCEPT ![t] =
        [state |-> "leased", fence |-> nextFence + 1,
         attempts |-> rows[t].attempts + 1, lease |-> LeaseTerm]]
  BY DEF Claim
<1>5. tasks'[t].state = "leased" /\ \A u \in TaskIds : u # t => tasks'[u] = rows[u]
  BY <1>2, <1>4
<1>6. Leased' = leased \cup {t} /\ t \notin leased
  BY <1>3, <1>5 DEF Leased
<1>7. IsFiniteSet(leased) /\ Cardinality(leased) \in Nat /\ Concurrency \in Nat
  BY <1>1, FS_Subset, FS_CardinalityType, QueueAssumption DEF LeaseInv
<1> HIDE DEF leased, rows
<1>8. IsFiniteSet(Leased') /\ Cardinality(Leased') = Cardinality(leased) + 1
  BY <1>6, <1>7, FS_AddElement
<1>9. Cardinality(Leased') <= Concurrency
  BY <1>3, <1>7, <1>8
<1>10. \A u \in leased : Domain(u) # Domain(t) /\ AppOf[u.key] # AppOf[t.key]
  BY <1>3 DEF Conflicts
<1>11. \A u, v \in leased : u # v => Domain(u) # Domain(v) /\ AppOf[u.key] # AppOf[v.key]
  BY <1>1 DEF LeaseInv, LeasesStayAdmissible
<1>12. \A u, v \in Leased' : u # v => Domain(u) # Domain(v) /\ AppOf[u.key] # AppOf[v.key]
  BY <1>6, <1>10, <1>11
<1>13. Closed => \A u \in Leased' : u.type # "submit"
  BY <1>1, <1>3, <1>6 DEF LeaseInv, LeasesStayAdmissible, Closed, Allowed
<1>14. UNCHANGED control
  BY DEF Claim
<1>15. \A u : Domain(u)' = Domain(u)
  BY DEF Domain
<1> QED
  BY <1>8, <1>9, <1>12, <1>13, <1>14, <1>15 DEF LeaseInv, LeasesStayAdmissible, Closed

LEMMA ClaimNothingLeases ==
  ASSUME TypeInv, LeaseInv, NEW types, ClaimNothing(types)
  PROVE  LeaseInv'
<1>1. RecoverTasks(Expired, FALSE) /\ UNCHANGED control
  BY DEF ClaimNothing
<1> QED
  BY <1>1, RecoverFrees, LeasesShrink DEF Closed

LEMMA FailLeases ==
  ASSUME TypeInv, LeaseInv, NEW t \in TaskIds, NEW fence, NEW retryable, Fail(t, fence, retryable)
  PROVE  LeaseInv'
<1>1. t \in Leased /\ UNCHANGED control
  BY DEF Fail, HasLease, Leased
<1>2. CASE RecoverTasks({t}, FALSE)
  BY <1>1, <1>2, RecoverFrees, LeasesShrink DEF Closed
<1>3. CASE ~RecoverTasks({t}, FALSE)
  <2>1. PICK state : tasks' = [tasks EXCEPT ![t].state = state, ![t].lease = 0]
    BY <1>3 DEF Fail
  <2>2. tasks' = [tasks EXCEPT ![t] = [tasks[t] EXCEPT !.state = state, !.lease = 0]]
    BY <2>1
  <2> QED
    BY <1>1, <2>2, HolderFrees
<1> QED
  BY <1>2, <1>3

LEMMA CompleteLeases ==
  ASSUME TypeInv, LeaseInv, NEW t \in TaskIds, NEW fence, Complete(t, fence)
  PROVE  LeaseInv'
<1>1. t \in Leased /\ UNCHANGED control
  BY DEF Complete, HasLease, Leased
<1>2. tasks' = [tasks EXCEPT ![t] = [tasks[t] EXCEPT !.state = "completed", !.lease = 0]]
  BY DEF Complete
<1> QED
  BY <1>1, <1>2, HolderFrees

LEMMA ClockLeases ==
  ASSUME TypeInv, LeaseInv, NEW t \in TaskIds, tasks[t].state = "leased", NEW lease,
         tasks' = [tasks EXCEPT ![t].lease = lease], UNCHANGED control
  PROVE  LeaseInv'
<1>1. t \in Leased
  BY DEF Leased
<1>2. tasks' = [tasks EXCEPT ![t] = [tasks[t] EXCEPT !.lease = lease]]
  OBVIOUS
<1> QED
  BY <1>1, <1>2, HolderFrees

\* Closing the gate, like replacing the authorization, takes all leases to submit.
LEMMA GateLeases ==
  ASSUME TypeInv, LeaseInv, RecoverTasks(LeasedSubmits, TRUE)
  PROVE  LeaseInv'
<1>1. \A t \in Leased' : t \in Leased /\ t \notin LeasedSubmits
  BY RecoverFrees
<1>2. \A t \in Leased' : t.type # "submit"
  BY <1>1 DEF LeasedSubmits
<1> QED
  BY <1>1, <1>2, LeasesShrink

LEMMA SetControlLeases ==
  ASSUME TypeInv, LeaseInv, NEW patched, SetControl(patched)
  PROVE  LeaseInv'
<1>1. CASE patched.stopped \/ patched.submissionsPaused
  BY <1>1, GateLeases DEF SetControl, LeasedSubmits
<1>2. CASE ~(patched.stopped \/ patched.submissionsPaused)
  <2>1. UNCHANGED tasks /\ ~Closed'
    BY <1>2 DEF SetControl, Closed
  <2>2. \A t \in Leased' : t \in Leased
    BY <2>1 DEF Leased
  <2> QED
    BY <2>1, <2>2, LeasesShrink
<1> QED
  BY <1>1, <1>2

LEMMA CancelLeases ==
  ASSUME TypeInv, LeaseInv, NEW t \in TaskIds, CancelTask(t)
  PROVE  LeaseInv'
<1>1. RecoverTasks({t}, TRUE) /\ UNCHANGED control
  BY DEF CancelTask
<1> QED
  BY <1>1, RecoverFrees, LeasesShrink DEF Closed

LEMMA PublishLeases ==
  ASSUME TypeInv, LeaseInv, PublishProfile
  PROVE  LeaseInv'
<1> DEFINE rest == LeasedSubmits \ Cancelled
<1>1. ASSUME NEW t \in Leased'
      PROVE  t \in Leased /\ t.type # "submit"
  <2>1. t \in TaskIds /\ tasks'[t].state = "leased"
    BY DEF Leased
  <2>2. CASE t \in Cancelled
    <3>1. tasks'[t] = [tasks[t] EXCEPT !.state = "cancelled", !.lease = 0]
      BY <2>1, <2>2 DEF PublishProfile
    <3>2. tasks[t] \in TaskRow
      BY <2>1 DEF TypeInv, TypeOK, QueueTypeOK
    <3> QED
      BY <2>1, <3>1, <3>2 DEF TaskRow
  <2>3. CASE t \notin Cancelled
    <3>1. tasks'[t] = RecoveredTasks(rest, TRUE)[t]
      BY <2>1, <2>3 DEF PublishProfile
    <3>2. t \in Leased /\ t \notin rest
      BY <2>1, <3>1, RecoveryFrees
    <3> QED
      BY <2>3, <3>2 DEF LeasedSubmits
  <2> QED
    BY <2>2, <2>3
<1> QED
  BY <1>1, LeasesShrink

LEMMA SaveLeases ==
  ASSUME TypeInv, LeaseInv, NEW k \in Keys, NEW status, NEW queueSubmit,
         SavePreparation(k, status, queueSubmit)
  PROVE  LeaseInv'
<1>1. \A t \in TaskIds : tasks'[t] = tasks[t] \/ tasks'[t] = ReadyRow
  BY DEF SavePreparation, TypeInv, TypeOK, QueueTypeOK
<1>2. ReadyRow.state = "ready"
  BY DEF ReadyRow, NoTaskRow
<1>3. \A t \in Leased' : t \in Leased
  BY <1>1, <1>2 DEF Leased
<1>4. UNCHANGED control
  BY DEF SavePreparation
<1> QED
  BY <1>3, <1>4, LeasesShrink DEF Closed

-----------------------------------------------------------------------------
(* Every step keeps all of it                                               *)

OutcomeInv == LeaseInv /\ TablesAgree /\ WorkInv /\ EmployerInv

\* What a step may do to an attempt and to a task that are done with.
FinalStep ==
  /\ \A f \in Fences :
       /\ attempts[f].state \in {"CONFIRMED", "DEFINITIVE_FAILURE", "BLOCKED_BEFORE_DISPATCH"}
            => attempts'[f] = attempts[f]
       /\ attempts[f].state = "UNKNOWN" => attempts'[f].state \in {"UNKNOWN", "CONFIRMED"}
  /\ \A t \in TaskIds : tasks[t].state \in Finished => tasks'[t] = tasks[t]

LEMMA MovesKeep ==
  ASSUME TypeInv, TypeInv', OutcomeInv, LeaseInv', NEW T, QueueMoves(T),
         WorkersKnow, UNCHANGED <<prep, employer>>,
         \A w \in Workers : worker'[w] = worker[w] \/ Heard(w)'
  PROVE  OutcomeInv' /\ FinalStep
<1>1. AppsRecovered(T) /\ TasksRecovered(T) /\ attempts' = RecoveredAttempts(T)
  BY DEF QueueMoves, AppsRecovered
<1>2. TablesAgree'
  BY <1>1, RecoveryAgrees DEF OutcomeInv
<1>3. WorkInv'
  BY <1>2, MovesKeepWork DEF OutcomeInv
<1>4. EmployerInv'
  BY <1>1, RecoveryKeepsRecords DEF OutcomeInv
<1>5. FinalStep
  BY <1>1 DEF FinalStep, TasksRecovered, RecoveredAttempts
<1> QED
  BY <1>2, <1>3, <1>4, <1>5 DEF OutcomeInv

\* The steps in which only the queue moves.
LEMMA QueueStepKeeps ==
  ASSUME TypeInv, TypeInv', OutcomeInv, LeaseInv', NEW T, QueueMoves(T),
         UNCHANGED <<prep, worker, employer>>
  PROVE  OutcomeInv' /\ FinalStep
<1>1. WorkersKnow
  BY DEF WorkersKnow
<1> QED
  BY <1>1, MovesKeep

LEMMA ClaimTaskKeeps ==
  ASSUME TypeInv, TypeInv', OutcomeInv, NEW w \in Workers, ClaimTask(w)
  PROVE  OutcomeInv' /\ FinalStep
<1>1. PICK types \in PollTypes, t \in TaskIds :
        /\ Claim(types, t)
        /\ worker' = [worker EXCEPT ![w] =
             [pc |-> "claimed", task |-> t, fence |-> nextFence + 1, revision |-> 0]]
  BY DEF ClaimTask
<1>2. LeaseInv' /\ QueueMoves(Expired)
  BY <1>1, ClaimLeases, ClaimMoves DEF OutcomeInv
<1>3. worker'[w].pc = "claimed" /\ \A v \in Workers : v # w => worker'[v] = worker[v]
  BY <1>1 DEF TypeInv, TypeOK
<1>4. WorkersKnow
  BY <1>3 DEF WorkersKnow, HoldsHandle
<1>5. Heard(w)'
  BY <1>3, NothingHeard
<1>6. UNCHANGED <<prep, employer>>
  BY DEF ClaimTask
<1> QED
  BY <1>2, <1>3, <1>4, <1>5, <1>6, MovesKeep

LEMMA PollNothingKeeps ==
  ASSUME TypeInv, TypeInv', OutcomeInv, NEW w \in Workers, PollNothing(w)
  PROVE  OutcomeInv' /\ FinalStep
<1>1. PICK types \in PollTypes : ClaimNothing(types)
  BY DEF PollNothing
<1>2. LeaseInv' /\ QueueMoves(Expired)
  BY <1>1, ClaimNothingLeases, ClaimNothingMoves DEF OutcomeInv
<1> QED
  BY <1>2, QueueStepKeeps DEF PollNothing, workVars

\* A worker's task ends, or the worker does.
LEMMA EndKeeps ==
  ASSUME TypeInv, TypeInv', OutcomeInv, NEW w \in Workers,
         Acknowledge(w) \/ GiveUp(w) \/ Crash(w)
  PROVE  OutcomeInv' /\ FinalStep
<1>1. /\ worker[w] # Idle /\ worker' = [worker EXCEPT ![w] = Idle]
      /\ UNCHANGED <<prep, employer>>
  BY DEF Acknowledge, GiveUp, Crash, Idle
<1>2. worker[w].task \in TaskIds
  BY <1>1 DEF TypeInv, WorkerHasTask
<1>3. WorkersKnow /\ \A v \in Workers : worker'[v] = worker[v] \/ Heard(v)'
  BY <1>1, ForgettingKnows, ForgettingHears
<1>4. CASE UNCHANGED queueVars
  <2>1. LeaseInv'
    BY <1>4, SameLeases DEF queueVars, OutcomeInv
  <2>2. QueueMoves({})
    BY <1>4, StandingStill DEF queueVars
  <2> QED
    BY <1>1, <1>3, <2>1, <2>2, MovesKeep
<1>5. CASE Acknowledge(w)
  <2>1. Complete(worker[w].task, worker[w].fence) /\ worker[w].pc = "settled"
    BY <1>5 DEF Acknowledge
  <2>2. LeaseInv'
    BY <1>2, <2>1, CompleteLeases DEF OutcomeInv
  <2>3. worker[w].task.type = "reconcile" => apps[AppOf[worker[w].task.key]].state # "UNKNOWN"
    BY <2>1 DEF OutcomeInv, WorkInv, StageTellsTask, AppOfWorker
  <2>4. QueueMoves({})
    BY <1>2, <2>1, <2>3, CompleteMoves
  <2> QED
    BY <1>1, <1>3, <2>2, <2>4, MovesKeep
<1>6. ASSUME NEW retryable, Fail(worker[w].task, worker[w].fence, retryable)
      PROVE  OutcomeInv' /\ FinalStep
  <2>1. LeaseInv'
    BY <1>2, <1>6, FailLeases DEF OutcomeInv
  <2>2. PICK T : QueueMoves(T)
    BY <1>2, <1>6, FailMoves
  <2> QED
    BY <1>1, <1>3, <2>1, <2>2, MovesKeep
<1>7. CASE GiveUp(w)
  BY <1>4, <1>6, <1>7 DEF GiveUp
<1>8. CASE Crash(w)
  BY <1>4, <1>8 DEF Crash
<1> QED
  BY <1>5, <1>7, <1>8

LEMMA RenewLeaseKeeps ==
  ASSUME TypeInv, TypeInv', OutcomeInv, NEW w \in Workers, RenewLease(w)
  PROVE  OutcomeInv' /\ FinalStep
<1> DEFINE t == worker[w].task
<1>1. t \in TaskIds
  BY DEF RenewLease, TypeInv, WorkerHasTask
<1>2. /\ tasks[t].state = "leased" /\ tasks' = [tasks EXCEPT ![t].lease = LeaseTerm]
      /\ UNCHANGED <<control, apps, attempts>>
  BY DEF RenewLease, Renew, HasLease
<1>3. UNCHANGED <<prep, worker, employer>>
  BY DEF RenewLease, workVars
<1> HIDE DEF t
<1>4. LeaseInv' /\ QueueMoves({})
  BY <1>1, <1>2, ClockLeases, LeaseMoves DEF OutcomeInv
<1> QED
  BY <1>3, <1>4, QueueStepKeeps

LEMMA ElapseKeeps ==
  ASSUME TypeInv, TypeInv', OutcomeInv, NEW t \in TaskIds, Elapse(t), UNCHANGED workVars
  PROVE  OutcomeInv' /\ FinalStep
<1>1. /\ tasks[t].state = "leased"
      /\ tasks' = [tasks EXCEPT ![t].lease = tasks[t].lease - 1]
      /\ UNCHANGED <<control, apps, attempts>>
  BY DEF Elapse
<1>2. LeaseInv' /\ QueueMoves({})
  BY <1>1, ClockLeases, LeaseMoves DEF OutcomeInv
<1> QED
  BY <1>2, QueueStepKeeps DEF workVars

\* The steps of a worker in which the tables stand still.
LEMMA ReadRevisionKeeps ==
  ASSUME TypeInv, TypeInv', OutcomeInv, NEW w \in Workers, ReadRevision(w)
  PROVE  OutcomeInv' /\ FinalStep
<1>1. UNCHANGED <<control, tasks, apps, attempts, prep, employer>>
  BY DEF ReadRevision, queueVars
<1>2. /\ worker[w] \in WorkerMemory
      /\ worker'[w] = [worker[w] EXCEPT !.pc = "read",
                                        !.revision = apps[AppOfWorker(w)].revision]
      /\ \A v \in Workers : v # w => worker'[v] = worker[v]
  BY DEF ReadRevision, TypeInv, TypeOK
<1>3. worker[w].task.type = "submit"
  BY DEF ReadRevision
<1>3a. worker'[w].pc = "read" /\ worker'[w].task.type = "submit"
  BY ONLY <1>2, <1>3 DEF WorkerMemory
<1>4. WorkersKnow /\ Heard(w)'
  BY <1>2, <1>3a, NothingHeard DEF WorkersKnow
<1>5. LeaseInv' /\ QueueMoves({})
  BY <1>1, SameLeases, StandingStill DEF OutcomeInv
<1> QED
  BY <1>1, <1>2, <1>4, <1>5, MovesKeep

LEMMA StillKeeps ==
  ASSUME TypeInv, TypeInv', OutcomeInv, EmployerInv', WorkersKnow,
         UNCHANGED <<control, tasks, apps, attempts, prep>>
  PROVE  OutcomeInv' /\ FinalStep
<1>1. LeaseInv' /\ QueueMoves({})
  BY SameLeases, StandingStill DEF OutcomeInv
<1>2. TablesAgree'
  BY <1>1, RecoveryAgrees DEF OutcomeInv, QueueMoves
<1>3. WorkInv'
  BY <1>1, <1>2, MovesKeepWork DEF OutcomeInv
<1>4. FinalStep
  BY DEF FinalStep
<1> QED
  BY <1>1, <1>2, <1>3, <1>4 DEF OutcomeInv

LEMMA ClickKeeps ==
  ASSUME TypeInv, TypeInv', ClickInv, OutcomeInv, NEW w \in Workers, Click(w)
  PROVE  OutcomeInv' /\ FinalStep
<1>1. UNCHANGED <<control, tasks, apps, attempts, prep>>
  BY DEF Click, queueVars
<1>2. WorkersKnow
  BY AdvanceKnows DEF Click, MayClick, WorkerStages, HoldsHandle, OutcomeInv
<1>3. EmployerInv'
  BY ClickKeepsRecords DEF OutcomeInv
<1> QED
  BY <1>1, <1>2, <1>3, StillKeeps

LEMMA RespondKeeps ==
  ASSUME TypeInv, TypeInv', OutcomeInv, NEW w \in Workers, Respond(w)
  PROVE  OutcomeInv' /\ FinalStep
<1>1. UNCHANGED <<control, tasks, apps, attempts, prep>>
  BY DEF Respond, queueVars
<1>2. WorkersKnow
  BY AdvanceKnows DEF Respond, WorkerStages, HoldsHandle, OutcomeInv
<1>3. EmployerInv'
  BY RespondKeepsRecords DEF OutcomeInv
<1> QED
  BY <1>1, <1>2, <1>3, StillKeeps

LEMMA LookupKeeps ==
  ASSUME TypeInv, TypeInv', OutcomeInv, NEW w \in Workers, Lookup(w)
  PROVE  OutcomeInv' /\ FinalStep
<1>1. UNCHANGED <<control, tasks, apps, attempts, prep>>
  BY DEF Lookup, queueVars
<1>2. WorkersKnow
  BY AdvanceKnows DEF Lookup, WorkerStages, HoldsHandle, OutcomeInv
<1>3. EmployerInv'
  BY LookupKeepsRecords DEF OutcomeInv
<1> QED
  BY <1>1, <1>2, <1>3, StillKeeps

LEMMA AnswerKeeps ==
  ASSUME TypeInv, TypeInv', OutcomeInv, NEW f \in Fences, NEW answer, EmployerAnswer(f, answer)
  PROVE  OutcomeInv' /\ FinalStep
<1>1. UNCHANGED <<control, tasks, apps, attempts, prep, worker>>
  BY DEF EmployerAnswer, queueVars
<1>2. WorkersKnow
  BY <1>1 DEF WorkersKnow
<1>3. EmployerInv'
  BY AnswerKeepsRecords DEF OutcomeInv
<1> QED
  BY <1>1, <1>2, <1>3, StillKeeps

\* The steps that write about an attempt.
LEMMA BeginKeeps ==
  ASSUME TypeInv, TypeInv', ClickInv, OutcomeInv, NEW w \in Workers, Begin(w)
  PROVE  OutcomeInv' /\ FinalStep
<1>1. /\ worker[w].fence \in Fences /\ AppOfWorker(w) \in Apps
      /\ Begun(worker[w].fence, AppOfWorker(w))
  BY BeginBegins
<1>2. TablesAgree'
  BY <1>1, BeginAgrees DEF OutcomeInv
<1>3. WorkInv' /\ EmployerInv'
  BY BeginKeepsWork, BeginKeepsRecords DEF OutcomeInv
<1>4. UNCHANGED <<tasks, control>>
  BY DEF Begin
<1>5. LeaseInv'
  BY <1>4, SameLeases DEF OutcomeInv
<1>6. FinalStep
  BY <1>1, <1>4 DEF FinalStep, Begun
<1> QED
  BY <1>2, <1>3, <1>5, <1>6 DEF OutcomeInv

LEMMA AuthorizeKeeps ==
  ASSUME TypeInv, TypeInv', ClickInv, OutcomeInv, NEW w \in Workers, AuthorizeDispatch(w)
  PROVE  OutcomeInv' /\ FinalStep
<1>1. worker[w].fence \in Fences /\ Stamped(worker[w].fence)
  BY AuthorizeStamps
<1>2. UNCHANGED <<tasks, control, apps>>
  BY DEF AuthorizeDispatch
<1>3. TablesAgree'
  BY <1>1, <1>2, StampAgrees DEF OutcomeInv
<1>4. WorkInv' /\ EmployerInv'
  BY AuthorizeKeepsWork, AuthorizeKeepsRecords DEF OutcomeInv
<1>5. LeaseInv'
  BY <1>2, SameLeases DEF OutcomeInv
<1>6. FinalStep
  BY <1>1, <1>2 DEF FinalStep, Stamped
<1> QED
  BY <1>3, <1>4, <1>5, <1>6 DEF OutcomeInv

LEMMA WriteKeeps ==
  ASSUME TypeInv, TypeInv', ClickInv, OutcomeInv, NEW f \in Fences, NEW a \in Apps,
         Settled(f, a), WorkersKnow, EmployerInv', UNCHANGED <<control, tasks, prep>>
  PROVE  OutcomeInv' /\ FinalStep
<1>1. TablesAgree'
  BY SettlingAgrees DEF OutcomeInv
<1>2. WorkInv'
  BY WriteKeepsWork DEF OutcomeInv
<1>3. LeaseInv'
  BY SameLeases DEF OutcomeInv
<1>4. FinalStep
  BY DEF FinalStep, Settled
<1> QED
  BY <1>1, <1>2, <1>3, <1>4 DEF OutcomeInv

LEMMA AbortKeeps ==
  ASSUME TypeInv, TypeInv', ClickInv, OutcomeInv, NEW w \in Workers, AbortBeforeDispatch(w)
  PROVE  OutcomeInv' /\ FinalStep
<1>1. /\ worker[w].fence \in Fences /\ AppOfWorker(w) \in Apps
      /\ Settled(worker[w].fence, AppOfWorker(w))
      /\ attempts'[worker[w].fence].state = "BLOCKED_BEFORE_DISPATCH"
  BY AbortSettles
<1>2. Advance(w, "settled") /\ UNCHANGED <<control, tasks, prep, employer>>
  BY DEF AbortBeforeDispatch
<1>3. WorkersKnow
  BY <1>2, AdvanceKnows DEF AbortBeforeDispatch, WorkerStages, HoldsHandle, OutcomeInv
<1>4. EmployerInv'
  BY <1>1, <1>2, WriteKeepsRecords DEF OutcomeInv
<1> QED
  BY <1>1, <1>2, <1>3, <1>4, WriteKeeps

LEMMA ConfirmKeeps ==
  ASSUME TypeInv, TypeInv', ClickInv, OutcomeInv, NEW w \in Workers, ConfirmReceipt(w)
  PROVE  OutcomeInv' /\ FinalStep
<1>1. /\ worker[w].fence \in Fences /\ AppOfWorker(w) \in Apps
      /\ Settled(worker[w].fence, AppOfWorker(w))
      /\ attempts'[worker[w].fence].state = "CONFIRMED"
  BY ConfirmSettles
<1>2. Advance(w, "settled") /\ UNCHANGED <<control, tasks, prep, employer>>
  BY DEF ConfirmReceipt
<1>3. WorkersKnow
  BY <1>2, AdvanceKnows DEF ConfirmReceipt, WorkerStages, HoldsHandle, OutcomeInv
<1>4. employer[worker[w].fence] = "recorded"
  BY DEF ConfirmReceipt, OutcomeInv, EmployerInv, HeardIsTrue, Heard
<1>5. EmployerInv'
  BY <1>1, <1>2, <1>4, WriteKeepsRecords DEF OutcomeInv
<1> QED
  BY <1>1, <1>2, <1>3, <1>5, WriteKeeps

LEMMA RejectionKeeps ==
  ASSUME TypeInv, TypeInv', ClickInv, OutcomeInv, NEW w \in Workers, RecordDefinitiveRejection(w)
  PROVE  OutcomeInv' /\ FinalStep
<1>1. /\ worker[w].fence \in Fences /\ AppOfWorker(w) \in Apps
      /\ Settled(worker[w].fence, AppOfWorker(w))
      /\ attempts'[worker[w].fence].state = "DEFINITIVE_FAILURE"
  BY RejectionSettles
<1>2. Advance(w, "settled") /\ UNCHANGED <<control, tasks, prep, employer>>
  BY DEF RecordDefinitiveRejection
<1>3. WorkersKnow
  BY <1>2, AdvanceKnows DEF RecordDefinitiveRejection, WorkerStages, HoldsHandle, OutcomeInv
<1>4. employer[worker[w].fence] = "rejected"
  BY DEF RecordDefinitiveRejection, OutcomeInv, EmployerInv, HeardIsTrue, Heard
<1>5. EmployerInv'
  BY <1>1, <1>2, <1>4, WriteKeepsRecords DEF OutcomeInv
<1> QED
  BY <1>1, <1>2, <1>3, <1>5, WriteKeeps

LEMMA EvidenceKeeps ==
  ASSUME TypeInv, TypeInv', ClickInv, OutcomeInv, NEW w \in Workers, ReconcileEvidence(w)
  PROVE  OutcomeInv' /\ FinalStep
<1>1. PICK f \in Fences : Settled(f, AppOfWorker(w))
  BY EvidenceSettles
<1>2. /\ AppOfWorker(w) \in Apps
      /\ apps'[AppOfWorker(w)].state \in {"NEEDS_REVIEW", "CONFIRMED"}
  BY EvidenceSettles
<1>3. Advance(w, "settled") /\ UNCHANGED <<control, tasks, prep>>
  BY DEF ReconcileEvidence
<1>4. /\ worker'[w].pc = "settled" /\ worker'[w].task = worker[w].task
      /\ \A v \in Workers : v # w => worker'[v] = worker[v]
  BY <1>3, AdvanceKeeps DEF WorkerStages
<1>5. WorkersKnow
  BY <1>2, <1>4 DEF WorkersKnow, AppOfWorker
<1>6. EmployerInv'
  BY EvidenceKeepsRecords DEF OutcomeInv
<1> QED
  BY <1>1, <1>2, <1>3, <1>5, <1>6, WriteKeeps

\* The owner's steps.
LEMMA SaveKeeps ==
  ASSUME TypeInv, TypeInv', OutcomeInv,
         NEW k \in Keys, NEW status \in Statuses, NEW queueSubmit \in BOOLEAN,
         Save(k, status, queueSubmit)
  PROVE  OutcomeInv' /\ FinalStep
<1>1. SavePreparation(k, status, queueSubmit) /\ UNCHANGED worker
  BY DEF Save
<1>2. TablesAgree' /\ WorkInv' /\ LeaseInv'
  BY <1>1, SaveAgrees, SaveKeepsWork, SaveLeases DEF OutcomeInv
<1>3. UNCHANGED <<attempts, employer>>
  BY <1>1 DEF SavePreparation
<1>4. EmployerInv'
  BY <1>1, <1>3, SameAttemptsKeepRecords DEF OutcomeInv
<1>5. FinalStep
  <2>1. ASSUME NEW t \in TaskIds, tasks[t].state \in Finished
        PROVE  tasks'[t] = tasks[t]
    <3>1. t # Task("submit", k)
      <4> SUFFICES ASSUME t = Task("submit", k) PROVE FALSE
        OBVIOUS
      <4>1. t.type = "submit" /\ t.key = k /\ tasks[t].state # "absent"
        BY <2>1 DEF Task, Finished
      <4>2. prep[k].status = "none"
        BY <1>1 DEF SavePreparation
      <4> QED
        BY <4>1, <4>2 DEF OutcomeInv, WorkInv, SubmitIsPrepared
    <3> QED
      BY <1>1, <3>1 DEF SavePreparation, TypeInv, TypeOK, QueueTypeOK
  <2> QED
    BY <1>3, <2>1 DEF FinalStep
<1> QED
  BY <1>2, <1>4, <1>5 DEF OutcomeInv

LEMMA OwnerKeeps ==
  ASSUME TypeInv, TypeInv', OutcomeInv, OwnerStep
  PROVE  OutcomeInv' /\ FinalStep
<1>1. ASSUME NEW k \in Keys, NEW status \in Statuses, NEW queueSubmit \in BOOLEAN,
             Save(k, status, queueSubmit)
      PROVE  OutcomeInv' /\ FinalStep
  BY <1>1, SaveKeeps
<1>2. CASE PublishProfile
  <2>1. LeaseInv' /\ QueueMoves(LeasedSubmits \ Cancelled)
    BY <1>2, PublishLeases, PublishMoves DEF OutcomeInv
  <2>2. UNCHANGED <<prep, worker, employer>>
    BY <1>2 DEF PublishProfile
  <2> QED
    BY <2>1, <2>2, QueueStepKeeps
<1>3. ASSUME RecoverTasks(LeasedSubmits, TRUE), UNCHANGED <<prep, worker, employer>>
      PROVE  OutcomeInv' /\ FinalStep
  <2>1. LeaseInv' /\ QueueMoves(LeasedSubmits)
    BY <1>3, GateLeases, LeasedSubmitsMoves DEF OutcomeInv
  <2> QED
    BY <1>3, <2>1, QueueStepKeeps
<1>4. ASSUME NEW autoSubmit \in BOOLEAN, SaveAuthorization(autoSubmit)
      PROVE  OutcomeInv' /\ FinalStep
  BY <1>3, <1>4 DEF SaveAuthorization
<1>5. CASE RevokeAuthorization
  BY <1>3, <1>5 DEF RevokeAuthorization
<1>6. ASSUME NEW patched \in ControlPatches, SetControl(patched), UNCHANGED workVars
      PROVE  OutcomeInv' /\ FinalStep
  <2>1. PICK T : QueueMoves(T)
    BY <1>6, SetControlMoves
  <2>2. LeaseInv'
    BY <1>6, SetControlLeases DEF OutcomeInv
  <2> QED
    BY <1>6, <2>1, <2>2, QueueStepKeeps DEF workVars
<1>7. ASSUME NEW t \in TaskIds, CancelTask(t), UNCHANGED workVars
      PROVE  OutcomeInv' /\ FinalStep
  <2>1. LeaseInv' /\ QueueMoves({t})
    BY <1>7, CancelLeases, CancelMoves DEF OutcomeInv
  <2> QED
    BY <1>7, <2>1, QueueStepKeeps DEF workVars
<1> QED
  BY <1>1, <1>2, <1>4, <1>5, <1>6, <1>7 DEF OwnerStep

LEMMA OutcomeInit == Init => OutcomeInv
<1> SUFFICES ASSUME Init PROVE OutcomeInv
  OBVIOUS
<1>1. /\ \A f \in Fences : attempts[f] = NoAttempt /\ employer[f] = "none"
      /\ \A w \in Workers : worker[w] = Idle
      /\ \A t \in TaskIds : tasks[t] = NoTaskRow
      /\ \A a \in Apps : apps[a].state = "PREPARED"
  BY DEF Init, QueueInit, AppsIn
<1>2. NoTaskRow.state = "absent" /\ NoAttempt.state = "none" /\ ~NoAttempt.dispatched
      /\ Idle.pc = "idle"
  BY DEF NoTaskRow, NoAttempt, Idle
<1>3. LeaseInv
  <2>1. Leased = {}
    BY <1>1, <1>2 DEF Leased
  <2>2. IsFiniteSet({}) /\ Cardinality({}) = 0
    BY FS_EmptySet
  <2>3. 0 <= Concurrency
    BY QueueAssumption
  <2> QED
    BY <2>1, <2>2, <2>3 DEF LeaseInv, LeasesStayAdmissible
<1>4. TablesAgree
  <2>1. AttemptsStand
    BY <1>1, <1>2 DEF AttemptsStand
  <2>2. AppsAttempted
    BY <1>1 DEF AppsAttempted, AppAttempted
  <2> QED
    BY <2>1, <2>2 DEF TablesAgree
<1>5. WorkInv
  BY <1>1, <1>2
  DEF WorkInv, InFlightLeased, UnknownPending, ReconcileFollowsLoss, SubmitIsPrepared,
      StageTellsTask, HoldsHandle
<1>6. EmployerInv
  BY <1>1, <1>2 DEF EmployerInv, RecordsAreTrue, HeardIsTrue, Heard
<1> QED
  BY <1>3, <1>4, <1>5, <1>6 DEF OutcomeInv

LEMMA OutcomeStep ==
  TypeInv /\ TypeInv' /\ ClickInv /\ OutcomeInv /\ [Next]_vars => OutcomeInv' /\ FinalStep
<1> SUFFICES ASSUME TypeInv, TypeInv', ClickInv, OutcomeInv, [Next]_vars
             PROVE  OutcomeInv' /\ FinalStep
  OBVIOUS
<1>1. ASSUME NEW w \in Workers, WorkerStep(w) PROVE OutcomeInv' /\ FinalStep
  BY <1>1, ReadRevisionKeeps, BeginKeeps, AbortKeeps, AuthorizeKeeps, ClickKeeps,
     RespondKeeps, ConfirmKeeps, RejectionKeeps, LookupKeeps, EvidenceKeeps, EndKeeps
  DEF WorkerStep
<1>2. ASSUME NEW w \in Workers, Poll(w) PROVE OutcomeInv' /\ FinalStep
  BY <1>2, ClaimTaskKeeps, PollNothingKeeps DEF Poll
<1>3. ASSUME NEW w \in Workers, Crash(w) PROVE OutcomeInv' /\ FinalStep
  BY <1>3, EndKeeps
<1>4. ASSUME NEW w \in Workers, RenewLease(w) PROVE OutcomeInv' /\ FinalStep
  BY <1>4, RenewLeaseKeeps
<1>5. ASSUME NEW f \in Fences, NEW answer \in {"recorded", "rejected", "lost"},
             EmployerAnswer(f, answer)
      PROVE  OutcomeInv' /\ FinalStep
  BY <1>5, AnswerKeeps
<1>6. ASSUME NEW t \in TaskIds, Elapse(t), UNCHANGED workVars
      PROVE  OutcomeInv' /\ FinalStep
  BY <1>6, ElapseKeeps
<1>7. ASSUME OwnerStep PROVE OutcomeInv' /\ FinalStep
  BY <1>7, OwnerKeeps
<1>8. CASE UNCHANGED vars
  <2>1. UNCHANGED <<control, tasks, apps, attempts, prep, worker, employer>>
    BY <1>8 DEF vars, queueVars, workVars
  <2>2. LeaseInv' /\ QueueMoves({})
    BY <2>1, SameLeases, StandingStill DEF OutcomeInv
  <2> QED
    BY <2>1, <2>2, QueueStepKeeps
<1> QED
  BY <1>1, <1>2, <1>3, <1>4, <1>5, <1>6, <1>7, <1>8 DEF Next

LEMMA OutcomeInvariance == Spec => []OutcomeInv
  BY OutcomeInit, OutcomeStep, TypeInvariance, ClickInvariance, PTL DEF Spec

-----------------------------------------------------------------------------
(* The theorems                                                             *)

\* Leases stay within the concurrency limit, apart by adapter domain and by
\* application, and none is to submit while the gate is closed: what a claim
\* was admitted for stays so whatever the owner and other pollers do.
THEOREM LeasesAdmissible == Spec => []LeasesStayAdmissible
<1>1. OutcomeInv => LeasesStayAdmissible
  BY DEF OutcomeInv, LeaseInv
<1> QED
  BY <1>1, OutcomeInvariance, PTL

\* An application that the employer holds a record of is never again taken for
\* one that was not submitted.
THEOREM NeverForgotten == Spec => []RecordNeverForgotten
<1>1. TypeInv /\ OutcomeInv => RecordNeverForgotten
  <2> SUFFICES ASSUME TypeInv, OutcomeInv, NEW f \in Fences, employer[f] = "recorded"
               PROVE  /\ attempts[f].state \in {"IN_FLIGHT", "UNKNOWN", "CONFIRMED"}
                      /\ apps[AppOf[attempts[f].key]].state \in Uncertain \cup {"CONFIRMED"}
    BY DEF RecordNeverForgotten
  <2>1. /\ attempts[f].dispatched /\ attempts[f].state # "none"
        /\ attempts[f].state # "DEFINITIVE_FAILURE"
    BY DEF OutcomeInv, EmployerInv, RecordsAreTrue
  <2>2. /\ attempts[f].state # "BLOCKED_BEFORE_DISPATCH"
        /\ apps[AppOf[attempts[f].key]].state \in Standing(attempts[f].state)
    BY <2>1 DEF OutcomeInv, TablesAgree, AttemptsStand
  <2>3. attempts[f].state \in AttemptStates
    BY DEF TypeInv, TypeOK, QueueTypeOK, AttemptRow
  <2>4. attempts[f].state \in {"IN_FLIGHT", "UNKNOWN", "CONFIRMED"}
    BY <2>1, <2>2, <2>3 DEF AttemptStates
  <2> QED
    BY <2>2, <2>4 DEF Standing, Uncertain
<1> QED
  BY <1>1, TypeInvariance, OutcomeInvariance, PTL

\* CONFIRMED is never guessed: the employer holds the record of every confirmed
\* attempt, and every confirmed application has one.
THEOREM ConfirmationIsReal == Spec => []ConfirmedIsReal
<1>1. OutcomeInv => ConfirmedIsReal
  BY DEF OutcomeInv, EmployerInv, RecordsAreTrue, TablesAgree, AppsAttempted,
         AppAttempted, Attempted, ConfirmedIsReal
<1> QED
  BY <1>1, OutcomeInvariance, PTL

\* What may have been sent is never left without a lease that will be found, a
\* reconcile task, or the exception of one that died.
THEOREM UncertaintyHasWork == Spec => []UncertainHasWork
<1>1. OutcomeInv => UncertainHasWork
  <2> SUFFICES ASSUME OutcomeInv, NEW a \in Apps
               PROVE  /\ apps[a].state = "IN_FLIGHT" =>
                           LET f == apps[a].commitFence IN
                           /\ f \in Fences
                           /\ OfApp(f, a) /\ attempts[f].state = "IN_FLIGHT"
                           /\ \E t \in Leased : t.type = "submit" /\ AppOf[t.key] = a /\ tasks[t].fence = f
                      /\ apps[a].state = "UNKNOWN" =>
                           \E t \in TaskIds : /\ t.type = "reconcile" /\ AppOf[t.key] = a
                                              /\ tasks[t].state \in {"ready", "leased", "retry_wait", "dead"}
    BY DEF UncertainHasWork
  <2>1. AppAttempted(a) /\ InFlightLeased /\ UnknownPending
    BY DEF OutcomeInv, TablesAgree, AppsAttempted, WorkInv
  <2> QED
    BY <2>1 DEF AppAttempted, InFlightLeased, UnknownPending, Pending
<1> QED
  BY <1>1, OutcomeInvariance, PTL

\* What an attempt came to is final but for an unknown outcome, which may still
\* be confirmed; and no finished task is taken up again.
THEOREM OutcomesAreFinal == Spec => OutcomeIsFinal
<1>1. Spec => [][FinalStep]_vars
  <2>1. TypeInv /\ TypeInv' /\ ClickInv /\ OutcomeInv /\ [Next]_vars => [FinalStep]_vars
    BY OutcomeStep
  <2> QED
    BY <2>1, TypeInvariance, ClickInvariance, OutcomeInvariance, PTL DEF Spec
<1> QED
  BY <1>1 DEF OutcomeIsFinal, FinalStep

\* Who moves, and what it may write: a step moves one worker, or none.
StaleStep ==
  \A w \in Workers :
    (worker[w] # Idle /\ worker'[w] # worker[w] /\ ~Holds(w)) =>
      UNCHANGED <<tasks, apps, attempts>>

LEMMA StaleWrites == TypeInv /\ [Next]_vars => StaleStep
<1> SUFFICES ASSUME TypeInv, [Next]_vars PROVE StaleStep
  OBVIOUS
<1>1. ASSUME UNCHANGED worker PROVE StaleStep
  BY <1>1 DEF StaleStep
<1>2. ASSUME NEW w \in Workers, \A v \in Workers : v # w => worker'[v] = worker[v],
             UNCHANGED <<tasks, apps, attempts>> \/ Holds(w) \/ worker[w] = Idle
      PROVE  StaleStep
  BY <1>2 DEF StaleStep
<1>3. ASSUME NEW w \in Workers, NEW pc, Advance(w, pc)
      PROVE  \A v \in Workers : v # w => worker'[v] = worker[v]
  BY <1>3 DEF Advance, TypeInv, TypeOK
<1>4. ASSUME NEW w \in Workers, WorkerStep(w) PROVE StaleStep
  <2>1. CASE ReadRevision(w)
    <3>1. \A v \in Workers : v # w => worker'[v] = worker[v]
      BY <2>1 DEF ReadRevision, TypeInv, TypeOK
    <3> QED
      BY <1>2, <2>1, <3>1 DEF ReadRevision, queueVars
  <2>2. CASE Begin(w)
    BY <1>2, <1>3, <2>2 DEF Begin
  <2>3. CASE AbortBeforeDispatch(w)
    BY <1>2, <1>3, <2>3 DEF AbortBeforeDispatch, InFlight
  <2>4. CASE AuthorizeDispatch(w)
    BY <1>2, <1>3, <2>4 DEF AuthorizeDispatch, InFlight
  <2>5. CASE Click(w)
    BY <1>2, <1>3, <2>5 DEF Click, queueVars
  <2>6. CASE Respond(w)
    BY <1>2, <1>3, <2>6 DEF Respond, queueVars
  <2>7. CASE ConfirmReceipt(w)
    BY <1>2, <1>3, <2>7 DEF ConfirmReceipt, InFlight
  <2>8. CASE RecordDefinitiveRejection(w)
    BY <1>2, <1>3, <2>8 DEF RecordDefinitiveRejection, InFlight
  <2>9. CASE Lookup(w)
    BY <1>2, <1>3, <2>9 DEF Lookup, queueVars
  <2>10. CASE ReconcileEvidence(w)
    BY <1>2, <1>3, <2>10 DEF ReconcileEvidence
  <2>11. CASE Acknowledge(w) \/ GiveUp(w)
    <3>1. \A v \in Workers : v # w => worker'[v] = worker[v]
      BY <2>11 DEF Acknowledge, GiveUp, TypeInv, TypeOK
    <3>2. UNCHANGED <<tasks, apps, attempts>> \/ Holds(w)
      BY <2>11 DEF Acknowledge, GiveUp, Complete, Fail, Holds, queueVars
    <3> QED
      BY <1>2, <3>1, <3>2
  <2> QED
    BY <1>4, <2>1, <2>2, <2>3, <2>4, <2>5, <2>6, <2>7, <2>8, <2>9, <2>10, <2>11
    DEF WorkerStep
<1>5. ASSUME NEW w \in Workers, Poll(w) PROVE StaleStep
  <2>1. CASE ClaimTask(w)
    <3>1. worker[w] = Idle /\ \A v \in Workers : v # w => worker'[v] = worker[v]
      BY <2>1 DEF ClaimTask, TypeInv, TypeOK
    <3> QED
      BY <1>2, <3>1
  <2>2. CASE PollNothing(w)
    BY <1>1, <2>2 DEF PollNothing, workVars
  <2> QED
    BY <1>5, <2>1, <2>2 DEF Poll
<1>6. ASSUME NEW w \in Workers, Crash(w) PROVE StaleStep
  <2>1. \A v \in Workers : v # w => worker'[v] = worker[v]
    BY <1>6 DEF Crash, TypeInv, TypeOK
  <2> QED
    BY <1>2, <1>6, <2>1 DEF Crash, queueVars
<1>7. ASSUME NEW w \in Workers, RenewLease(w) PROVE StaleStep
  BY <1>1, <1>7 DEF RenewLease, workVars
<1>8. ASSUME NEW f \in Fences, NEW answer, EmployerAnswer(f, answer) PROVE StaleStep
  BY <1>1, <1>8 DEF EmployerAnswer
<1>9. ASSUME NEW t \in TaskIds, Elapse(t), UNCHANGED workVars PROVE StaleStep
  BY <1>1, <1>9 DEF workVars
<1>10. CASE OwnerStep
  <2>1. UNCHANGED worker
    BY <1>10 DEF OwnerStep, Save, PublishProfile, SaveAuthorization, RevokeAuthorization, workVars
  <2> QED
    BY <1>1, <2>1
<1>11. CASE UNCHANGED vars
  BY <1>1, <1>11 DEF vars, workVars
<1> QED
  BY <1>4, <1>5, <1>6, <1>7, <1>8, <1>9, <1>10, <1>11 DEF Next

\* A worker that lost its lease writes nothing more: its further steps leave
\* the tasks, applications and attempts as they are.
THEOREM StaleIsHarmless == Spec => StaleWorkerWritesNothing
<1>1. Spec => [][StaleStep]_vars
  <2>1. TypeInv /\ [Next]_vars => [StaleStep]_vars
    BY StaleWrites
  <2> QED
    BY <2>1, TypeInvariance, PTL DEF Spec
<1> QED
  BY <1>1 DEF StaleWorkerWritesNothing, StaleStep

-----------------------------------------------------------------------------
(***************************************************************************)
(* The worker protocol implements SubmitOnce: every step of it is a step   *)
(* of the abstract promise or leaves what that promise speaks of alone.    *)
(*                                                                         *)
(* The mapping reads an application's phase off its live attempt, and the  *)
(* employer's answer off the attempt that was pressed.  Both are chosen    *)
(* among many, so each rests on there being at most one (ClickInv); what   *)
(* was pressed and what was recorded of it is told by EmployerInv.         *)
(***************************************************************************)
(* Reading the mapping                                                      *)

\* The phase that one live attempt gives its application.
AttemptPhase(f) ==
  CASE attempts[f].state = "UNKNOWN" -> "uncertain"
    [] attempts[f].state = "CONFIRMED" -> "confirmed"
    [] attempts[f].state = "DEFINITIVE_FAILURE" -> "rejected"
    [] OTHER -> IF attempts[f].dispatched THEN "permitted" ELSE "recorded"

MappingInv == TypeInv /\ ClickInv /\ EmployerInv

\* An application's phase is that of its live attempt, if it has one.
PhaseReads ==
  \A a \in Apps :
    /\ LiveOf(a) = {} => PhaseOf(a) = "open"
    /\ \A f \in LiveOf(a) : PhaseOf(a) = AttemptPhase(f)

LEMMA PhaseIs == MappingInv => PhaseReads
<1> SUFFICES ASSUME MappingInv, NEW a \in Apps
             PROVE  /\ LiveOf(a) = {} => PhaseOf(a) = "open"
                    /\ \A f \in LiveOf(a) : PhaseOf(a) = AttemptPhase(f)
  BY DEF PhaseReads
<1>1. LiveOf(a) = {} => PhaseOf(a) = "open"
  BY DEF PhaseOf
<1>2. ASSUME NEW f \in LiveOf(a)
      PROVE  PhaseOf(a) = AttemptPhase(f)
  <2>1. (CHOOSE g \in LiveOf(a) : TRUE) \in LiveOf(a)
    OBVIOUS
  <2>2. (CHOOSE g \in LiveOf(a) : TRUE) = f
    BY <2>1 DEF MappingInv, ClickInv, FenceInv, SingleLiveAttempt
  <2>3. LiveOf(a) # {}
    OBVIOUS
  <2> QED
    BY <2>2, <2>3 DEF PhaseOf, AttemptPhase
<1> QED
  BY <1>1, <1>2

\* The answer is that to the attempt that was pressed, if one was: it was
\* dispatched, so it is live, and there is only one.
AnswerReads ==
  \A a \in Apps :
    /\ (\A f \in Fences : OfApp(f, a) => employer[f] = "none") => AnswerOf(a) = "none"
    /\ \A f \in Fences : OfApp(f, a) /\ employer[f] # "none" => AnswerOf(a) = employer[f]

LEMMA AnswerIs == MappingInv => AnswerReads
<1> SUFFICES ASSUME MappingInv, NEW a \in Apps
             PROVE  /\ (\A f \in Fences : OfApp(f, a) => employer[f] = "none") => AnswerOf(a) = "none"
                    /\ \A f \in Fences : OfApp(f, a) /\ employer[f] # "none" => AnswerOf(a) = employer[f]
  BY DEF AnswerReads
<1> DEFINE clicked == {f \in Fences : OfApp(f, a) /\ employer[f] # "none"}
<1>1. AnswerOf(a) = IF clicked = {} THEN "none" ELSE employer[CHOOSE f \in clicked : TRUE]
  BY DEF AnswerOf
<1>2. clicked \subseteq LiveOf(a)
  BY DEF MappingInv, EmployerInv, RecordsAreTrue, LiveOf, Live
<1>3. ASSUME NEW f \in Fences, OfApp(f, a), employer[f] # "none"
      PROVE  AnswerOf(a) = employer[f]
  <2>1. f \in clicked
    BY <1>3
  <2> HIDE DEF clicked
  <2>2. (CHOOSE g \in clicked : TRUE) \in clicked
    BY <2>1
  <2>3. (CHOOSE g \in clicked : TRUE) = f
    BY <1>2, <2>1, <2>2 DEF MappingInv, ClickInv, FenceInv, SingleLiveAttempt
  <2> QED
    BY <1>1, <2>1, <2>3
<1>4. (\A f \in Fences : OfApp(f, a) => employer[f] = "none") => AnswerOf(a) = "none"
  BY <1>1
<1> QED
  BY <1>3, <1>4

\* The same of the state a step leads to.
LEMMA ReadsNext == MappingInv' => PhaseReads' /\ AnswerReads'
<1>1. MappingInv => PhaseReads /\ AnswerReads
  BY PhaseIs, AnswerIs
<1> QED
  BY <1>1, PTL

\* Where the attempts of an application stand still, so does its phase.
LEMMA SamePhase ==
  ASSUME MappingInv, MappingInv', NEW a \in Apps,
         \A f \in Fences : OfApp(f, a) \/ OfApp(f, a)' => attempts'[f] = attempts[f]
  PROVE  PhaseOf(a)' = PhaseOf(a)
<1>1. PhaseReads /\ PhaseReads'
  BY PhaseIs, ReadsNext
<1>2. ASSUME NEW f \in LiveOf(a)
      PROVE  f \in LiveOf(a)' /\ AttemptPhase(f)' = AttemptPhase(f)
  BY <1>2 DEF LiveOf, Live, OfApp, AttemptPhase
<1>3. ASSUME NEW f \in LiveOf(a)'
      PROVE  f \in LiveOf(a)
  BY <1>3 DEF LiveOf, Live, OfApp
<1>4. CASE LiveOf(a) = {}
  <2>1. LiveOf(a)' = {}
    BY <1>3, <1>4
  <2> QED
    BY <1>1, <1>4, <2>1 DEF PhaseReads
<1>5. CASE LiveOf(a) # {}
  <2>1. PICK f : f \in LiveOf(a)
    BY <1>5
  <2>2. PhaseOf(a) = AttemptPhase(f) /\ PhaseOf(a)' = AttemptPhase(f)'
    BY <1>1, <1>2, <2>1 DEF PhaseReads
  <2> QED
    BY <1>2, <2>1, <2>2
<1> QED
  BY <1>4, <1>5

\* And its answer, where no attempt that was pressed comes or goes.
LEMMA SameAnswer ==
  ASSUME MappingInv, MappingInv', NEW a \in Apps,
         \A f \in Fences :
           /\ OfApp(f, a) /\ employer[f] # "none" => OfApp(f, a)' /\ employer'[f] = employer[f]
           /\ OfApp(f, a)' /\ employer'[f] # "none" => OfApp(f, a) /\ employer[f] # "none"
  PROVE  AnswerOf(a)' = AnswerOf(a)
<1>1. AnswerReads /\ AnswerReads'
  BY AnswerIs, ReadsNext
<1>2. CASE \E f \in Fences : OfApp(f, a) /\ employer[f] # "none"
  <2>1. PICK f \in Fences : OfApp(f, a) /\ employer[f] # "none"
    BY <1>2
  <2>2. AnswerOf(a) = employer[f] /\ AnswerOf(a)' = employer'[f]
    BY <1>1, <2>1 DEF AnswerReads
  <2> QED
    BY <2>1, <2>2
<1>3. CASE ~\E f \in Fences : OfApp(f, a) /\ employer[f] # "none"
  BY <1>1, <1>3 DEF AnswerReads
<1> QED
  BY <1>2, <1>3

-----------------------------------------------------------------------------
(* The steps of the promise, read point by point                            *)

LEMMA MapsToLose ==
  ASSUME UNCHANGED clicks, \A a \in Apps : AnswerOf(a)' = AnswerOf(a),
         \A a \in Apps : PhaseOf(a)' # PhaseOf(a) =>
           PhaseOf(a) \in {"recorded", "permitted"} /\ PhaseOf(a)' = "uncertain"
  PROVE  [Promise!Next]_(Promise!vars)
<1>1. [a \in Apps |-> AnswerOf(a)]' = [a \in Apps |-> AnswerOf(a)]
  OBVIOUS
<1>2. Promise!Lose
  BY DEF Promise!Lose
<1> QED
  BY <1>1, <1>2 DEF Promise!Next, Promise!vars

LEMMA MapsToProceed ==
  ASSUME UNCHANGED clicks, \A b \in Apps : AnswerOf(b)' = AnswerOf(b), NEW a \in Apps,
         \A b \in Apps : b # a => PhaseOf(b)' = PhaseOf(b),
         \/ PhaseOf(a) = "open" /\ PhaseOf(a)' = "recorded"
         \/ PhaseOf(a) = "recorded" /\ PhaseOf(a)' \in {"open", "permitted"}
         \/ PhaseOf(a) \in {"permitted", "uncertain"} /\ PhaseOf(a)' = "confirmed"
            /\ AnswerOf(a) = "recorded"
         \/ PhaseOf(a) = "permitted" /\ PhaseOf(a)' = "rejected" /\ AnswerOf(a) = "rejected"
  PROVE  [Promise!Next]_(Promise!vars)
<1>1. [b \in Apps |-> AnswerOf(b)]' = [b \in Apps |-> AnswerOf(b)]
  OBVIOUS
<1>2. <<PhaseOf(a), PhaseOf(a)'>> \in Promise!Steps
  BY DEF Promise!Steps
<1>3. DOMAIN Promise!Settled = {"confirmed", "rejected"}
      /\ Promise!Settled["confirmed"] = "recorded" /\ Promise!Settled["rejected"] = "rejected"
  BY DEF Promise!Settled
<1>4. Promise!Proceed(a)
  BY <1>2, <1>3 DEF Promise!Proceed
<1>5. [b \in Apps |-> PhaseOf(b)]' # [b \in Apps |-> PhaseOf(b)]
  <2>1. [b \in Apps |-> PhaseOf(b)]'[a] = PhaseOf(a)' /\ [b \in Apps |-> PhaseOf(b)][a] = PhaseOf(a)
    OBVIOUS
  <2>2. PhaseOf(a)' # PhaseOf(a)
    OBVIOUS
  <2> QED
    BY <2>1, <2>2
<1> QED
  BY <1>1, <1>4, <1>5 DEF Promise!Next, Promise!vars

LEMMA MapsToAct ==
  ASSUME TypeInv, NEW a \in Apps, clicks[a] = 0, clicks' = [clicks EXCEPT ![a] = 1],
         \A b \in Apps : PhaseOf(b)' = PhaseOf(b), PhaseOf(a) \in {"permitted", "uncertain"},
         AnswerOf(a)' = "sent", \A b \in Apps : b # a => AnswerOf(b)' = AnswerOf(b)
  PROVE  [Promise!Next]_(Promise!vars)
<1>1. [b \in Apps |-> PhaseOf(b)]' = [b \in Apps |-> PhaseOf(b)]
  OBVIOUS
<1>2. [b \in Apps |-> AnswerOf(b)]' = [[b \in Apps |-> AnswerOf(b)] EXCEPT ![a] = "sent"]
  OBVIOUS
<1>3. Promise!Act(a)
  BY <1>2 DEF Promise!Act
<1> QED
  BY <1>1, <1>3 DEF Promise!Next, Promise!vars

LEMMA MapsToReply ==
  ASSUME UNCHANGED clicks, NEW a \in Apps, \A b \in Apps : PhaseOf(b)' = PhaseOf(b),
         AnswerOf(a) = "sent", AnswerOf(a)' \in {"recorded", "rejected", "lost"},
         \A b \in Apps : b # a => AnswerOf(b)' = AnswerOf(b)
  PROVE  [Promise!Next]_(Promise!vars)
<1>1. [b \in Apps |-> PhaseOf(b)]' = [b \in Apps |-> PhaseOf(b)]
  OBVIOUS
<1>2. [b \in Apps |-> AnswerOf(b)]' = [[b \in Apps |-> AnswerOf(b)] EXCEPT ![a] = AnswerOf(a)']
  OBVIOUS
<1>3. AnswerOf(a)' \in Promise!Answers \ {"none", "sent"}
  BY DEF Promise!Answers
<1>4. Promise!Reply(a)
  BY <1>2, <1>3 DEF Promise!Reply
<1> QED
  BY <1>1, <1>4 DEF Promise!Next, Promise!vars

-----------------------------------------------------------------------------
(* Every step of the protocol is one of them                                *)

\* Steps in which no attempt changes but by being interrupted.
LEMMA InterruptionLoses ==
  ASSUME MappingInv, MappingInv', NEW T, attempts' = RecoveredAttempts(T),
         UNCHANGED <<employer, clicks>>
  PROVE  [Promise!Next]_(Promise!vars)
<1>1. ASSUME NEW f \in Fences
      PROVE  /\ attempts'[f].key = attempts[f].key
             /\ attempts'[f].dispatched = attempts[f].dispatched
             /\ \/ attempts'[f].state = attempts[f].state
                \/ attempts[f].state = "IN_FLIGHT" /\ attempts'[f].state = "UNKNOWN"
  <2>1. attempts[f] \in AttemptRow
    BY DEF MappingInv, TypeInv, TypeOK, QueueTypeOK
  <2>2. \/ attempts'[f] = attempts[f]
        \/ /\ attempts[f].state = "IN_FLIGHT"
           /\ attempts'[f] = [attempts[f] EXCEPT !.state = "UNKNOWN"]
    BY DEF RecoveredAttempts
  <2> QED
    BY <2>1, <2>2 DEF AttemptRow
<1>2. \A f \in Fences, a \in Apps : OfApp(f, a)' <=> OfApp(f, a)
  BY <1>1 DEF OfApp
<1>3. \A a \in Apps : AnswerOf(a)' = AnswerOf(a)
  BY <1>2, SameAnswer
<1>4. \A f \in Fences : Live(f)' <=> Live(f)
  BY <1>1 DEF Live
<1>5. \A a \in Apps : LiveOf(a)' = LiveOf(a)
  BY <1>2, <1>4 DEF LiveOf
<1>6. PhaseReads /\ PhaseReads'
  BY PhaseIs, ReadsNext
<1>7. ASSUME NEW a \in Apps, PhaseOf(a)' # PhaseOf(a)
      PROVE  PhaseOf(a) \in {"recorded", "permitted"} /\ PhaseOf(a)' = "uncertain"
  <2>1. CASE LiveOf(a) = {}
    BY <1>5, <1>6, <1>7, <2>1 DEF PhaseReads
  <2>2. CASE LiveOf(a) # {}
    <3>1. PICK f \in Fences : f \in LiveOf(a)
      BY <2>2 DEF LiveOf
    <3>2. PhaseOf(a) = AttemptPhase(f) /\ PhaseOf(a)' = AttemptPhase(f)'
      BY <1>5, <1>6, <3>1 DEF PhaseReads
    <3>3. \/ attempts'[f].state = attempts[f].state /\ AttemptPhase(f)' = AttemptPhase(f)
          \/ /\ attempts[f].state = "IN_FLIGHT" /\ attempts'[f].state = "UNKNOWN"
             /\ AttemptPhase(f) \in {"recorded", "permitted"} /\ AttemptPhase(f)' = "uncertain"
      BY <1>1 DEF AttemptPhase
    <3> QED
      BY <1>7, <3>2, <3>3
  <2> QED
    BY <2>1, <2>2
<1> QED
  BY <1>3, <1>7, MapsToLose

LEMMA StillMaps ==
  ASSUME MappingInv, MappingInv', UNCHANGED <<attempts, employer, clicks>>
  PROVE  [Promise!Next]_(Promise!vars)
<1>1. attempts' = RecoveredAttempts({})
  BY NothingRecovered DEF MappingInv
<1> QED
  BY <1>1, InterruptionLoses

\* The answers stand still when no attempt that was pressed does anything.
LEMMA AnswersStand ==
  ASSUME MappingInv, MappingInv', UNCHANGED employer,
         \A f \in Fences : attempts[f].state # "none" =>
           attempts'[f].key = attempts[f].key /\ attempts'[f].state # "none"
  PROVE  \A a \in Apps : AnswerOf(a)' = AnswerOf(a)
<1>1. \A f \in Fences, a \in Apps : OfApp(f, a) => OfApp(f, a)'
  BY DEF OfApp
<1>2. \A f \in Fences : employer[f] # "none" => attempts[f].state # "none"
  BY DEF MappingInv, EmployerInv, RecordsAreTrue
<1>3. \A f \in Fences, a \in Apps : OfApp(f, a)' /\ employer'[f] # "none" =>
        OfApp(f, a) /\ employer[f] # "none"
  BY <1>2 DEF OfApp
<1> QED
  BY <1>1, <1>3, SameAnswer

LEMMA BeginMaps ==
  ASSUME MappingInv, MappingInv', NEW f \in Fences, NEW a \in Apps, Begun(f, a),
         UNCHANGED <<employer, clicks>>
  PROVE  [Promise!Next]_(Promise!vars)
<1>1. \A b \in Apps : AnswerOf(b)' = AnswerOf(b)
  BY AnswersStand DEF Begun
<1>2. \A b \in Apps : b # a => PhaseOf(b)' = PhaseOf(b)
  BY SamePhase DEF Begun, OfApp
<1>3. PhaseOf(a) = "open"
  BY PhaseIs DEF PhaseReads, Begun
<1>4. f \in LiveOf(a)' /\ AttemptPhase(f)' = "recorded"
  BY DEF Begun, LiveOf, Live, OfApp, AttemptPhase
<1>5. PhaseOf(a)' = "recorded"
  BY <1>4, ReadsNext DEF PhaseReads
<1> QED
  BY <1>1, <1>2, <1>3, <1>5, MapsToProceed

LEMMA StampMaps ==
  ASSUME MappingInv, MappingInv', NEW f \in Fences, NEW a \in Apps, OfApp(f, a), Stamped(f),
         UNCHANGED <<employer, clicks>>
  PROVE  [Promise!Next]_(Promise!vars)
<1>1. \A b \in Apps : AnswerOf(b)' = AnswerOf(b)
  BY AnswersStand DEF Stamped
<1>2. \A b \in Apps : b # a => PhaseOf(b)' = PhaseOf(b)
  BY SamePhase DEF Stamped, OfApp
<1>3. f \in LiveOf(a) /\ AttemptPhase(f) = "recorded"
  BY DEF Stamped, LiveOf, Live, AttemptPhase
<1>4. f \in LiveOf(a)' /\ AttemptPhase(f)' = "permitted"
  BY DEF Stamped, LiveOf, Live, OfApp, AttemptPhase
<1>5. PhaseOf(a) = "recorded" /\ PhaseOf(a)' = "permitted"
  BY <1>3, <1>4, PhaseIs, ReadsNext DEF PhaseReads
<1> QED
  BY <1>1, <1>2, <1>5, MapsToProceed

\* An outcome is written: of an attempt whose dispatch was permitted, or whose
\* outcome was unknown, and as the employer answered; or it is withdrawn.
LEMMA WriteMaps ==
  ASSUME MappingInv, MappingInv', NEW f \in Fences, NEW a \in Apps, Settled(f, a),
         UNCHANGED <<employer, clicks>>,
         attempts'[f].state \in {"CONFIRMED", "DEFINITIVE_FAILURE"} =>
           attempts[f].dispatched \/ attempts[f].state = "UNKNOWN"
  PROVE  [Promise!Next]_(Promise!vars)
<1>1. \A b \in Apps : AnswerOf(b)' = AnswerOf(b)
  BY AnswersStand DEF Settled
<1>2. \A b \in Apps : b # a => PhaseOf(b)' = PhaseOf(b)
  BY SamePhase DEF Settled, OfApp
<1>3. f \in LiveOf(a) /\ OfApp(f, a)'
  BY DEF Settled, LiveOf, Live, OfApp
<1>4. PhaseOf(a) = AttemptPhase(f)
  BY <1>3, PhaseIs DEF PhaseReads
<1>5. CASE attempts'[f].state = "BLOCKED_BEFORE_DISPATCH"
  <2>1. attempts[f].state = "IN_FLIGHT" /\ ~attempts[f].dispatched /\ ~attempts'[f].dispatched
    BY <1>5 DEF Settled
  <2>2. ASSUME NEW g \in LiveOf(a)'
        PROVE  FALSE
    <3>1. g \in Fences /\ OfApp(g, a)' /\ Live(g)'
      BY DEF LiveOf
    <3>2. g # f
      BY <1>5, <2>1, <3>1 DEF Live
    <3>3. g \in LiveOf(a)
      BY <3>1, <3>2 DEF LiveOf, Live, OfApp, Settled
    <3> QED
      BY <1>3, <3>2, <3>3 DEF MappingInv, ClickInv, FenceInv, SingleLiveAttempt
  <2>3. PhaseOf(a)' = "open"
    BY <2>2, ReadsNext DEF PhaseReads
  <2>4. PhaseOf(a) = "recorded"
    BY <1>4, <2>1 DEF AttemptPhase
  <2> QED
    BY <1>1, <1>2, <2>3, <2>4, MapsToProceed
<1>6. CASE attempts'[f].state # "BLOCKED_BEFORE_DISPATCH"
  <2>1. f \in LiveOf(a)'
    BY <1>3, <1>6 DEF LiveOf, Live, OfApp
  <2>2. PhaseOf(a)' = AttemptPhase(f)'
    BY <2>1, ReadsNext DEF PhaseReads
  <2>3. CASE attempts'[f].state = "CONFIRMED"
    <3>1. employer[f] = "recorded"
      BY <2>3 DEF MappingInv, EmployerInv, RecordsAreTrue
    <3>2. AnswerOf(a) = "recorded"
      BY <1>3, <3>1, AnswerIs DEF AnswerReads, LiveOf
    <3>3. AttemptPhase(f) \in {"permitted", "uncertain"} /\ AttemptPhase(f)' = "confirmed"
      BY <2>3 DEF AttemptPhase, Settled
    <3> QED
      BY <1>1, <1>2, <1>4, <2>2, <3>2, <3>3, MapsToProceed
  <2>4. CASE attempts'[f].state = "DEFINITIVE_FAILURE"
    <3>1. employer[f] = "rejected"
      BY <2>4 DEF MappingInv, EmployerInv, RecordsAreTrue
    <3>2. AnswerOf(a) = "rejected"
      BY <1>3, <3>1, AnswerIs DEF AnswerReads, LiveOf
    <3>3. AttemptPhase(f) = "permitted" /\ AttemptPhase(f)' = "rejected"
      BY <2>4 DEF AttemptPhase, Settled
    <3> QED
      BY <1>1, <1>2, <1>4, <2>2, <3>2, <3>3, MapsToProceed
  <2>5. CASE attempts'[f].state = "UNKNOWN"
    <3>1. attempts[f].state = "UNKNOWN"
      BY <2>5 DEF Settled
    <3>2. PhaseOf(a)' = PhaseOf(a)
      BY <1>4, <2>2, <2>5, <3>1 DEF AttemptPhase
    <3> QED
      BY <1>1, <1>2, <3>2, MapsToLose
  <2> QED
    BY <1>6, <2>3, <2>4, <2>5 DEF Settled
<1> QED
  BY <1>5, <1>6

LEMMA ClickMaps ==
  ASSUME MappingInv, MappingInv', NEW w \in Workers, Click(w)
  PROVE  [Promise!Next]_(Promise!vars)
<1>1. worker[w].pc = "permitted" /\ UNCHANGED attempts
  BY DEF Click, MayClick, queueVars
<1>2. PICK f \in Fences, a \in Apps : f = worker[w].fence /\ a = AppOfWorker(w)
  BY <1>1, BusyWorker DEF MappingInv
<1>3. attempts[f].dispatched /\ clicks[a] = 0
  BY <1>1, <1>2 DEF MappingInv, ClickInv, FenceInv, PermitUnused
<1>4. OfApp(f, a)
  BY <1>1, <1>2 DEF MappingInv, ClickInv, FenceInv, HandleIsOwn, HoldsHandle, OfApp, AppOfWorker
<1>5. employer[f] = "none"
  BY <1>1, <1>2 DEF MappingInv, EmployerInv, HeardIsTrue, Heard
<1>6. employer'[f] = "sent" /\ \A g \in Fences : g # f => employer'[g] = employer[g]
  BY <1>2 DEF Click, MappingInv, TypeInv, TypeOK
<1>7. clicks' = [clicks EXCEPT ![a] = 1]
  BY <1>2, <1>3 DEF Click
<1>8. \A g \in Fences, b \in Apps : OfApp(g, b)' <=> OfApp(g, b)
  BY <1>1 DEF OfApp
<1>9. \A b \in Apps : PhaseOf(b)' = PhaseOf(b)
  BY <1>1, SamePhase
<1>10. AnswerOf(a)' = "sent"
  BY <1>2, <1>4, <1>6, <1>8, ReadsNext DEF AnswerReads
<1>11. ASSUME NEW b \in Apps, b # a
       PROVE  AnswerOf(b)' = AnswerOf(b)
  <2>1. ~OfApp(f, b)
    BY <1>4, <1>11 DEF OfApp
  <2> QED
    BY <1>6, <1>8, <2>1, SameAnswer
<1>12. PhaseOf(a) \in {"permitted", "uncertain"}
  <2>1. attempts[f].state \notin {"none", "CONFIRMED", "DEFINITIVE_FAILURE"}
    BY <1>2, <1>4, <1>5 DEF OfApp, MappingInv, EmployerInv, RecordsAreTrue
  <2>2. AttemptPhase(f) \in {"permitted", "uncertain"}
    BY <1>3, <2>1 DEF AttemptPhase
  <2>3. f \in LiveOf(a)
    BY <1>2, <1>3, <1>4 DEF LiveOf, Live, OfApp
  <2> QED
    BY <1>2, <2>2, <2>3, PhaseIs DEF PhaseReads
<1>13. clicks[a] = 0 /\ TypeInv
  BY <1>3 DEF MappingInv
<1> QED
  BY <1>2, <1>7, <1>9, <1>10, <1>11, <1>12, <1>13, MapsToAct

LEMMA AnswerMaps ==
  ASSUME MappingInv, MappingInv', NEW f \in Fences,
         NEW answer \in {"recorded", "rejected", "lost"}, EmployerAnswer(f, answer)
  PROVE  [Promise!Next]_(Promise!vars)
<1>1. UNCHANGED <<attempts, clicks>>
  BY DEF EmployerAnswer, queueVars
<1>2. /\ employer[f] = "sent" /\ employer'[f] = answer
      /\ \A g \in Fences : g # f => employer'[g] = employer[g]
  BY DEF EmployerAnswer, MappingInv, TypeInv, TypeOK
<1>3. \A g \in Fences, b \in Apps : OfApp(g, b)' <=> OfApp(g, b)
  BY <1>1 DEF OfApp
<1>4. \A b \in Apps : PhaseOf(b)' = PhaseOf(b)
  BY <1>1, SamePhase
<1>5. CASE \E a \in Apps : OfApp(f, a)
  <2>1. PICK a \in Apps : OfApp(f, a)
    BY <1>5
  <2>2. AnswerOf(a) = "sent"
    BY <1>2, <2>1, AnswerIs DEF AnswerReads
  <2>3. AnswerOf(a)' = answer
    BY <1>2, <1>3, <2>1, ReadsNext DEF AnswerReads
  <2>4. \A b \in Apps : b # a => AnswerOf(b)' = AnswerOf(b)
    <3>1. \A b \in Apps : b # a => ~OfApp(f, b)
      BY <2>1 DEF OfApp
    <3> QED
      BY <1>2, <1>3, <3>1, SameAnswer
  <2> QED
    BY <1>1, <1>4, <2>2, <2>3, <2>4, MapsToReply
<1>6. CASE ~\E a \in Apps : OfApp(f, a)
  <2>1. \A b \in Apps : AnswerOf(b)' = AnswerOf(b)
    BY <1>2, <1>3, <1>6, SameAnswer
  <2> QED
    BY <1>1, <1>4, <2>1, MapsToLose
<1> QED
  BY <1>5, <1>6

LEMMA WorkerMaps ==
  ASSUME MappingInv, MappingInv', NEW w \in Workers, WorkerStep(w)
  PROVE  [Promise!Next]_(Promise!vars)
<1>1. TypeInv /\ ClickInv
  BY DEF MappingInv
<1>2. CASE ReadRevision(w) \/ Respond(w) \/ Lookup(w)
  BY <1>2, StillMaps DEF ReadRevision, Respond, Lookup, queueVars
<1>3. CASE Begin(w)
  BY <1>1, <1>3, BeginBegins, BeginMaps DEF Begin
<1>4. CASE AuthorizeDispatch(w)
  <2>1. worker[w].fence \in Fences /\ Stamped(worker[w].fence) /\ AppOfWorker(w) \in Apps
    BY <1>1, <1>4, AuthorizeStamps, BusyWorker DEF AuthorizeDispatch
  <2>2. OfApp(worker[w].fence, AppOfWorker(w))
    BY <1>1, <1>4 DEF AuthorizeDispatch, ClickInv, FenceInv, HandleIsOwn, HoldsHandle, OfApp, AppOfWorker
  <2> QED
    BY <1>4, <2>1, <2>2, StampMaps DEF AuthorizeDispatch
<1>5. CASE AbortBeforeDispatch(w)
  <2>1. UNCHANGED <<employer, clicks>>
    BY <1>5 DEF AbortBeforeDispatch
  <2> QED
    BY <1>1, <1>5, <2>1, AbortSettles, WriteMaps
<1>6. CASE ConfirmReceipt(w)
  <2>1. UNCHANGED <<employer, clicks>> /\ attempts[worker[w].fence].dispatched
    BY <1>6 DEF ConfirmReceipt
  <2> QED
    BY <1>1, <1>6, <2>1, ConfirmSettles, WriteMaps
<1>7. CASE RecordDefinitiveRejection(w)
  <2>1. UNCHANGED <<employer, clicks>> /\ attempts[worker[w].fence].dispatched
    BY <1>7 DEF RecordDefinitiveRejection
  <2> QED
    BY <1>1, <1>7, <2>1, RejectionSettles, WriteMaps
<1>8. CASE ReconcileEvidence(w)
  <2>1. UNCHANGED <<employer, clicks>>
    BY <1>8 DEF ReconcileEvidence
  <2>2. PICK f \in Fences : Settled(f, AppOfWorker(w)) /\ attempts[f].state = "UNKNOWN"
    BY <1>1, <1>8, EvidenceSettles
  <2>3. AppOfWorker(w) \in Apps
    BY <1>1, <1>8, EvidenceSettles
  <2> QED
    BY <2>1, <2>2, <2>3, WriteMaps
<1>9. CASE Click(w)
  BY <1>9, ClickMaps
<1>10. CASE Acknowledge(w) \/ GiveUp(w)
  <2>1. UNCHANGED <<employer, clicks>>
    BY <1>10 DEF Acknowledge, GiveUp
  <2>2. attempts' = attempts \/ \E T : attempts' = RecoveredAttempts(T)
    BY <1>10 DEF Acknowledge, GiveUp, Complete, Fail, RecoverTasks, queueVars
  <2> QED
    BY <2>1, <2>2, StillMaps, InterruptionLoses
<1> QED
  BY <1>2, <1>3, <1>4, <1>5, <1>6, <1>7, <1>8, <1>9, <1>10 DEF WorkerStep

LEMMA OwnerMaps ==
  ASSUME MappingInv, MappingInv', OwnerStep
  PROVE  [Promise!Next]_(Promise!vars)
<1>1. UNCHANGED <<employer, clicks>>
  BY DEF OwnerStep, Save, SavePreparation, PublishProfile, SaveAuthorization,
         RevokeAuthorization, workVars
<1>2. attempts' = attempts \/ \E T : attempts' = RecoveredAttempts(T)
  BY DEF OwnerStep, Save, SavePreparation, PublishProfile, SaveAuthorization,
         RevokeAuthorization, SetControl, CancelTask, RecoverTasks
<1> QED
  BY <1>1, <1>2, StillMaps, InterruptionLoses

LEMMA StepMaps == MappingInv /\ MappingInv' /\ [Next]_vars => [Promise!Next]_(Promise!vars)
<1> SUFFICES ASSUME MappingInv, MappingInv', [Next]_vars PROVE [Promise!Next]_(Promise!vars)
  OBVIOUS
<1>1. ASSUME NEW w \in Workers, Poll(w) PROVE [Promise!Next]_(Promise!vars)
  <2>1. attempts' = RecoveredAttempts(Expired) /\ UNCHANGED <<employer, clicks>>
    BY <1>1 DEF Poll, ClaimTask, Claim, PollNothing, ClaimNothing, RecoverTasks, workVars
  <2> QED
    BY <2>1, InterruptionLoses
<1>2. ASSUME NEW w \in Workers, Crash(w) \/ RenewLease(w) PROVE [Promise!Next]_(Promise!vars)
  BY <1>2, StillMaps DEF Crash, RenewLease, Renew, queueVars, workVars
<1>3. ASSUME NEW t \in TaskIds, Elapse(t), UNCHANGED workVars PROVE [Promise!Next]_(Promise!vars)
  BY <1>3, StillMaps DEF Elapse, workVars
<1>4. CASE UNCHANGED vars
  BY <1>4, StillMaps DEF vars, queueVars, workVars
<1> QED
  BY <1>1, <1>2, <1>3, <1>4, WorkerMaps, AnswerMaps, OwnerMaps DEF Next

LEMMA InitMaps == Init /\ MappingInv => Promise!Init
<1> SUFFICES ASSUME Init, MappingInv PROVE Promise!Init
  OBVIOUS
<1>1. \A f \in Fences : attempts[f].state = "none" /\ employer[f] = "none"
  BY DEF Init, QueueInit, NoAttempt
<1>2. ASSUME NEW a \in Apps
      PROVE  PhaseOf(a) = "open" /\ AnswerOf(a) = "none"
  <2>1. LiveOf(a) = {}
    BY <1>1 DEF LiveOf, OfApp
  <2> QED
    BY <1>1, <2>1, PhaseIs, AnswerIs DEF PhaseReads, AnswerReads
<1>3. clicks = [a \in Apps |-> 0]
  BY DEF Init
<1> QED
  BY <1>2, <1>3 DEF Promise!Init

-----------------------------------------------------------------------------
\* The worker protocol, with its crashes, lapsed leases, pauses and retries,
\* implements the abstract promise: one final action per application, after its
\* intent and its permit, an outcome that is lost becomes uncertain, and an
\* uncertain one is settled only by what the employer holds.
THEOREM SubmitsOnce == Spec => ImplementsSubmitOnce
<1>1. Spec => []MappingInv
  <2>1. TypeInv /\ ClickInv /\ OutcomeInv => MappingInv
    BY DEF MappingInv, OutcomeInv
  <2> QED
    BY <2>1, TypeInvariance, ClickInvariance, OutcomeInvariance, PTL
<1>2. Spec => Promise!Spec
  BY <1>1, InitMaps, StepMaps, PTL DEF Spec, Promise!Spec
<1> QED
  BY <1>2 DEF ImplementsSubmitOnce

=============================================================================
