------------------------------- MODULE History -------------------------------
(***************************************************************************)
(* How an application comes to exist, and what the owner asserts to have   *)
(* submitted elsewhere or before: createApplication                        *)
(* (packages/persistence/src/repository.ts), called for a vacancy that was *)
(* assessed as eligible, and importHistory, ingest and applyHistory        *)
(* (packages/persistence/src/discovery-repository.ts), around the pipeline *)
(* of module Preparation.                                                  *)
(*                                                                         *)
(* An element of Apps is a vacancy; its application is the row that        *)
(* (owner, candidate, job) is unique for.                                  *)
(***************************************************************************)
EXTENDS Preparation

CONSTANT
  Overlapping   \* whether history is asserted while a packet is being drafted

ASSUME HistoryAssumption ==
  /\ Overlapping \in BOOLEAN
  /\ Events \cap {"publish", "invalidate"} = {}   \* they would find unknown rows

VARIABLES
  known,        \* applications whose row exists
  history       \* historical_records of a submitted application

pastVars == <<known, history>>
historyVars == <<prepVars, pastVars>>

-----------------------------------------------------------------------------
\* createApplication, for a vacancy no record of which has been ingested.
Create(a) ==
  /\ a \notin known \cup history
  /\ known' = known \cup {a}
  /\ UNCHANGED <<prepVars, history>>

Normalize(a) ==
  /\ a \in known /\ apps[a].state = "DISCOVERED"
  /\ MoveApp(a, "NORMALIZED", 1)
  /\ UNCHANGED <<control, quarantined, tasks, attempts, nextFence, workVars, docVars, pastVars>>

\* States that a historical assertion leaves alone.
Protected ==
  {"IN_FLIGHT", "UNKNOWN", "RECONCILING", "NEEDS_REVIEW", "CONFIRMED", "HISTORICAL_SUBMITTED"}

\* Tasks that wait are not cancelled: the condition names a state "queued",
\* which no task has.
CancelledByHistory(a) == {t \in Leased : AppOf[t.key] = a}

\* applyHistory; with an attempt that is not protected it throws.
ApplyHistory(a) ==
  IF apps[a].state \in Protected
  THEN UNCHANGED <<known, tasks, apps>>
  ELSE /\ \A f \in Fences : ~OfApp(f, a)
       /\ known' = known \cup {a}
       /\ MoveApp(a, "HISTORICAL_SUBMITTED", 1)
       /\ tasks' = [t \in TaskIds |->
            IF t \in CancelledByHistory(a)
            THEN [tasks[t] EXCEPT !.state = "cancelled", !.lease = 0]
            ELSE tasks[t]]

\* A packet for the application is under way that has been let through already.
Drafting(a) ==
  \/ \E w \in Workers : worker[w].pc = "drafted" /\ AppOfWorker(w) = a
  \/ \E r \in requests : r.app = a

\* importHistory of one record; a vacancy that has not been discovered yet
\* leaves it without a job.
ImportHistory(a) ==
  /\ Overlapping \/ ~Drafting(a)
  /\ a \notin history
  /\ history' = history \cup {a}
  /\ \/ ApplyHistory(a)
     \/ a \notin known /\ UNCHANGED <<known, tasks, apps>>
  /\ UNCHANGED <<control, quarantined, attempts, nextFence, workVars, docVars>>

\* ingest finds the vacancy once more and applies what was asserted of it.
Ingest(a) ==
  /\ Overlapping \/ ~Drafting(a)
  /\ a \in history
  /\ ApplyHistory(a)
  /\ UNCHANGED <<control, quarantined, attempts, nextFence, workVars, docVars, history>>

-----------------------------------------------------------------------------
Past == \E a \in Apps : Create(a) \/ Normalize(a) \/ ImportHistory(a) \/ Ingest(a)

\* The rest of the assessment, and everything else of module Preparation.
Present ==
  /\ \/ \E a \in Apps : Qualify(a)
     \/ \E k \in Keys : apps[AppOf[k]].state # "DISCOVERED" /\ SaveAssessment(k, Profile)
     \/ \E w \in Workers : DocumentStep(w)
     \/ SubmissionStep
     \/ OwnerSubmissionStep
     \/ OwnerDocumentStep
  /\ UNCHANGED pastVars

HistoryNext == Past \/ Present

HistoryInit ==
  /\ NothingPrepared /\ apps = AppsIn("DISCOVERED")
  /\ known = {} /\ history = {}

HistorySpec == HistoryInit /\ [][HistoryNext]_historyVars

-----------------------------------------------------------------------------
(* Properties                                                               *)

\* docs/architecture.md says that historical assertions of the owner suppress
\* duplicate work: no submission begins for an application asserted before.
AssertedIsNotSubmitted ==
  [][\A f \in Fences : attempts[f].state = "none" /\ attempts'[f].state # "none" =>
       AppOf[attempts'[f].key] \notin history]_historyVars
=============================================================================
