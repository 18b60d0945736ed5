------------------------------ MODULE TaskQueue ------------------------------
(***************************************************************************)
(* The durable task queue of packages/persistence/src/repository.ts.       *)
(* A task is leased to one worker under a fence taken from a counter of    *)
(* the owner; the lease runs out unless it is renewed, and the next claim  *)
(* of anybody recovers what ran out.  Recovering a submit task whose       *)
(* application may have reached the employer never retries it: the         *)
(* application becomes UNKNOWN and a reconcile task takes over.            *)
(*                                                                         *)
(* Every operation here is one database transaction that locks the owner   *)
(* row, so each is one atomic action.  A caller passes the task and the    *)
(* fence of its own copy of the task row, which may be stale.              *)
(***************************************************************************)
EXTENDS Lifecycle, Naturals, FiniteSets

CONSTANTS
  Apps,         \* job applications of the owner
  Keys,         \* browser preparations: each names one submit task
  NoKey,        \* the key of an attempt that was never begun
  AppOf,        \* the application a preparation belongs to
  AdapterOf,    \* the submission adapter (task domain) it was made with
  Types,        \* task types in use
  Budget,       \* max_attempts of each type
  Concurrency,  \* leases the owner may hold at once (2 in the worker)
  LeaseTerm,    \* lease length in clock steps
  MaxFence      \* bound: fences ever handed out

Fences  == 1 .. MaxFence
TaskIds == [type : Types, key : Keys]
Task(type, key) == [type |-> type, key |-> key]

ASSUME QueueAssumption ==
  /\ Apps # {} /\ NoKey \notin Keys
  /\ AppOf \in [Keys -> Apps]
  /\ Types \subseteq {"prepare", "inspect", "submit", "reconcile"}
  /\ {"submit", "reconcile"} \subseteq Types
  /\ Budget \in [Types -> Nat \ {0}]
  /\ Concurrency \in Nat \ {0}
  /\ LeaseTerm \in Nat \ {0}
  /\ MaxFence \in Nat

VARIABLES
  control,      \* the controls row: what the owner has stopped or paused
  quarantined,  \* applications held by restore reviews (module Restores)
  tasks,        \* the tasks table
  apps,         \* the applications table
  attempts,     \* the attempts table, by the fence the attempt was begun with
  nextFence     \* owners.next_fence

queueVars == <<control, quarantined, tasks, apps, attempts, nextFence>>

TaskStates ==
  {"absent", "ready", "leased", "retry_wait", "completed", "cancelled", "dead"}
Finished == {"completed", "cancelled", "dead"}

AttemptStates ==
  {"none", "IN_FLIGHT", "UNKNOWN", "CONFIRMED", "DEFINITIVE_FAILURE",
   "BLOCKED_BEFORE_DISPATCH"}

NoTaskRow == [state |-> "absent", fence |-> 0, attempts |-> 0, lease |-> 0]
ReadyRow  == [NoTaskRow EXCEPT !.state = "ready"]
NoAttempt == [key |-> NoKey, state |-> "none", dispatched |-> FALSE,
              policy |-> 0, packet |-> 0]

Leased == {t \in TaskIds : tasks[t].state = "leased"}

\* validLease and assertLease: the caller's copy of the task still is the
\* leased row and its lease has not run out.  A fence is handed out once, so
\* an equal fence implies the equal lease_owner the query also asks for.
HasLease(t, fence) ==
  /\ tasks[t].state = "leased"
  /\ tasks[t].fence = fence
  /\ tasks[t].lease > 0

Domain(t) ==
  CASE t.type = "prepare" -> "documents"
    [] t.type = "inspect" -> "browser"
    [] OTHER -> AdapterOf[t.key]

Priority(t) ==
  CASE t.type = "reconcile" -> 100
    [] t.type = "submit" -> 50
    [] t.type = "inspect" -> 30
    [] OTHER -> 0

-----------------------------------------------------------------------------
(* recoverTask, for a set T of tasks: one for fail and cancelTask, every    *)
(* expired one for claim, every leased submit task for a pause.  The code   *)
(* recovers them one after the other; leased tasks belong to different      *)
(* applications (LeasesStayAdmissible), so the order does not matter.             *)

\* The attempt of this claim was aborted before it was dispatched.
StoppedBeforeDispatch(t) ==
  \E f \in Fences :
    /\ f = tasks[t].fence
    /\ attempts[f].key = t.key
    /\ attempts[f].state = "BLOCKED_BEFORE_DISPATCH"
    /\ ~attempts[f].dispatched

MustReconcile(t) == t.type = "submit" /\ apps[AppOf[t.key]].state \in Uncertain

Acknowledged(t) ==
  /\ t.type = "submit"
  /\ \/ apps[AppOf[t.key]].state = "CONFIRMED"
     \/ apps[AppOf[t.key]].state = "UNSUPPORTED" /\ StoppedBeforeDispatch(t)

\* Faulty: an expired lease leaves a state the tasks table does not know.
RecoveredStateExpired(t, cancelled) ==
  IF MustReconcile(t) THEN "expired" ELSE "cancelled"

RecoveredState(t, cancelled) ==
  CASE MustReconcile(t)                      -> "cancelled"
    [] ~MustReconcile(t) /\ Acknowledged(t)  -> "completed"
    [] OTHER -> IF cancelled THEN "cancelled"
                ELSE IF tasks[t].attempts >= Budget[t.type] THEN "dead"
                ELSE "retry_wait"

\* A reconcile task is keyed by the submit task it answers for: enqueueing it
\* again leaves the existing row alone.
RecoveredTasks(T, cancelled) ==
  [t \in TaskIds |->
     IF t \in T
     THEN [tasks[t] EXCEPT !.state = RecoveredState(t, cancelled), !.lease = 0]
     ELSE IF /\ t.type = "reconcile"
             /\ tasks[t].state = "absent"
             /\ \E s \in T : s.key = t.key /\ MustReconcile(s)
          THEN ReadyRow
          ELSE tasks[t]]

\* Applications whose in-flight attempt is interrupted by recovering T.
Interrupted(T) ==
  {a \in Apps : /\ apps[a].state = "IN_FLIGHT"
                /\ \E t \in T : t.type = "submit" /\ AppOf[t.key] = a}

RecoveredApps(T) ==
  [a \in Apps |->
     IF a \in Interrupted(T)
     THEN [apps[a] EXCEPT !.state = "UNKNOWN", !.revision = @ + 1]
     ELSE apps[a]]

\* Faulty: the update of attempts lacks its "state = IN_FLIGHT" condition.
RecoveredAttemptsAll(T) ==
  [f \in Fences |->
     IF attempts[f].state # "none" /\ AppOf[attempts[f].key] \in Interrupted(T)
     THEN [attempts[f] EXCEPT !.state = "UNKNOWN"]
     ELSE attempts[f]]

RecoveredAttempts(T) ==
  [f \in Fences |->
     IF attempts[f].state = "IN_FLIGHT" /\ AppOf[attempts[f].key] \in Interrupted(T)
     THEN [attempts[f] EXCEPT !.state = "UNKNOWN"]
     ELSE attempts[f]]

RecoverTasks(T, cancelled) ==
  /\ tasks' = RecoveredTasks(T, cancelled)
  /\ apps' = RecoveredApps(T)
  /\ attempts' = RecoveredAttempts(T)

-----------------------------------------------------------------------------
(* claim                                                                    *)

\* Faulty: expired submit leases are left to their owner.
ExpiredButSubmits == {t \in Leased : tasks[t].lease = 0 /\ t.type # "submit"}

Expired == {t \in Leased : tasks[t].lease = 0}

\* Faulty: a pause of submissions holds up the reconciliation of what was
\* already submitted.
AllowedUnpaused(types) ==
  {type \in types : ~control.stopped /\ ~control.submissionsPaused}

\* The types a claim may still hand out under the controls.
Allowed(types) ==
  {type \in types :
     /\ ~control.stopped
     /\ type = "submit" => ~control.submissionsPaused /\ ~control.restoreBlocked
     /\ type \in {"prepare", "inspect"} => ~control.preparationPaused}

\* Faulty: leases exclude one another by adapter domain only.
ConflictsByDomain(t, u) == Domain(u) = Domain(t)

Conflicts(t, u) == Domain(u) = Domain(t) \/ AppOf[u.key] = AppOf[t.key]

\* What the claim's query selects among, over the rows that recovery left.
Claimable(types, rows, applications) ==
  LET leased == {t \in TaskIds : rows[t].state = "leased"} IN
  IF Cardinality(leased) >= Concurrency THEN {}
  ELSE {t \in TaskIds :
          /\ t.type \in Allowed(types)
          /\ rows[t].state \in {"ready", "retry_wait"}
          /\ \A u \in leased : ~Conflicts(t, u)
          /\ t.type = "submit" =>
               /\ applications[AppOf[t.key]].state \notin Parked
               /\ AppOf[t.key] \notin quarantined}

\* The highest priority goes first.  A retry waits for its backoff, which the
\* model leaves to chance, so a task in retry_wait may be passed over.
Claim(types, t) ==
  LET rows == RecoveredTasks(Expired, FALSE)
      applications == RecoveredApps(Expired)
      claimable == Claimable(types, rows, applications)
  IN /\ t \in claimable
     /\ \A u \in claimable : rows[u].state = "ready" => Priority(u) <= Priority(t)
     /\ nextFence < MaxFence
     /\ nextFence' = nextFence + 1
     /\ tasks' = [rows EXCEPT ![t] =
          [state |-> "leased", fence |-> nextFence + 1,
           attempts |-> @.attempts + 1, lease |-> LeaseTerm]]
     /\ apps' = IF t.type = "submit"
                THEN [applications EXCEPT ![AppOf[t.key]].commitFence = nextFence + 1]
                ELSE applications
     /\ attempts' = RecoveredAttempts(Expired)
     /\ UNCHANGED <<control, quarantined>>

\* A claim that finds nothing to hand out still commits what it recovered.
ClaimNothing(types) ==
  LET rows == RecoveredTasks(Expired, FALSE) IN
  /\ Expired # {}
  /\ \A u \in Claimable(types, rows, RecoveredApps(Expired)) :
       rows[u].state = "retry_wait"
  /\ RecoverTasks(Expired, FALSE)
  /\ UNCHANGED <<control, quarantined, nextFence>>

-----------------------------------------------------------------------------
(* The holder's operations                                                  *)

\* A step of the clock against one lease.
Elapse(t) ==
  /\ tasks[t].state = "leased" /\ tasks[t].lease > 0
  /\ tasks' = [tasks EXCEPT ![t].lease = @ - 1]
  /\ UNCHANGED <<control, quarantined, apps, attempts, nextFence>>

Renew(t, fence) ==
  /\ HasLease(t, fence)
  /\ ~control.stopped
  /\ t.type = "submit" => ~control.submissionsPaused /\ ~control.restoreBlocked
  /\ tasks' = [tasks EXCEPT ![t].lease = LeaseTerm]
  /\ UNCHANGED <<control, quarantined, apps, attempts, nextFence>>

Complete(t, fence) ==
  /\ HasLease(t, fence)
  /\ t.type = "submit" =>
       \/ apps[AppOf[t.key]].state \in {"CONFIRMED", "DEFINITIVE_FAILURE"}
       \/ apps[AppOf[t.key]].state = "UNSUPPORTED" /\ StoppedBeforeDispatch(t)
  /\ tasks' = [tasks EXCEPT ![t].state = "completed", ![t].lease = 0]
  /\ UNCHANGED <<control, quarantined, apps, attempts, nextFence>>

\* fail: a dead task is written together with its open exception, so the
\* state "dead" stands for both.
Fail(t, fence, retryable) ==
  /\ HasLease(t, fence)
  /\ IF t.type = "submit" /\ apps[AppOf[t.key]].state \in Uncertain \cup {"CONFIRMED"}
     THEN RecoverTasks({t}, FALSE)
     ELSE /\ tasks' = [tasks EXCEPT
               ![t].state = IF retryable /\ tasks[t].attempts < Budget[t.type]
                            THEN "retry_wait" ELSE "dead",
               ![t].lease = 0]
          /\ UNCHANGED <<apps, attempts>>
  /\ UNCHANGED <<control, quarantined, nextFence>>

-----------------------------------------------------------------------------
(* The owner's operations                                                   *)

\* Faulty: any unfinished task may be cancelled.
CancellableAny(t) == tasks[t].state \in {"ready", "leased", "retry_wait"}

\* Reconciliation work cannot be discarded.
Cancellable(t) ==
  tasks[t].state \in {"ready", "leased", "retry_wait"} /\ t.type # "reconcile"

CancelTask(t) ==
  /\ Cancellable(t)
  /\ RecoverTasks({t}, TRUE)
  /\ UNCHANGED <<control, quarantined, nextFence>>

\* setControl: closing the submission gate cancels every submit lease.
SetControl(patched) ==
  /\ control' = patched
  /\ IF patched.stopped \/ patched.submissionsPaused
     THEN RecoverTasks({t \in Leased : t.type = "submit"}, TRUE)
     ELSE UNCHANGED <<tasks, apps, attempts>>
  /\ UNCHANGED <<quarantined, nextFence>>

\* The patches the control routes send: pause and unpause submissions, stop
\* (which also pauses them) and resume (which leaves them paused).  The pause
\* of preparation is in module Preparation, as nothing here looks at it.
ControlPatches ==
  { [control EXCEPT !.submissionsPaused = TRUE],
    [control EXCEPT !.submissionsPaused = FALSE],
    [control EXCEPT !.stopped = TRUE, !.submissionsPaused = TRUE],
    [control EXCEPT !.stopped = FALSE] }

SubmissionsOpen ==
  ~control.stopped /\ ~control.submissionsPaused /\ ~control.restoreBlocked

-----------------------------------------------------------------------------
ControlRow == [stopped : BOOLEAN, submissionsPaused : BOOLEAN,
               preparationPaused : BOOLEAN, restoreBlocked : BOOLEAN]
TaskRow == [state : TaskStates, fence : Nat, attempts : Nat, lease : 0 .. LeaseTerm]
AppRow == [state : ApplicationStates, revision : Nat, commitFence : Nat]
AttemptRow == [key : Keys \cup {NoKey}, state : AttemptStates,
               dispatched : BOOLEAN, policy : Nat, packet : Nat]

QueueTypeOK ==
  /\ control \in ControlRow
  /\ quarantined \subseteq Apps
  /\ tasks \in [TaskIds -> TaskRow]
  /\ apps \in [Apps -> AppRow]
  /\ attempts \in [Fences -> AttemptRow]
  /\ nextFence \in 0 .. MaxFence

AppsIn(state) == [a \in Apps |-> [state |-> state, revision |-> 0, commitFence |-> 0]]

\* Nothing enqueued yet; what state the applications are in is left open.  A new owner's
\* submissions are paused (repository.ts:29): the model starts once they are opened.
QueueInit ==
  /\ control = [stopped |-> FALSE, submissionsPaused |-> FALSE,
                preparationPaused |-> FALSE, restoreBlocked |-> FALSE]
  /\ quarantined = {}
  /\ tasks = [t \in TaskIds |-> NoTaskRow]
  /\ attempts = [f \in Fences |-> NoAttempt]
  /\ nextFence = 0
=============================================================================
