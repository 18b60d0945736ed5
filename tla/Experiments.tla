----------------------------- MODULE Experiments ------------------------------
(***************************************************************************)
(* Enrollment of applications in an owner's experiment:                    *)
(* packages/persistence/src/experiment-repository.ts (the experiment, its  *)
(* assignments, the guard of every final action),                          *)
(* experiment-generation-repository.ts and experiment-generation-binding.ts*)
(* (letters generated by a variant's recipe) and the worker's              *)
(* variant-preparation.ts.                                                 *)
(*                                                                         *)
(* One experiment, with a wording variant that has a recipe and one that   *)
(* has none.  An application is named by its job; the owner can merge the  *)
(* jobs.  A generation is bound to the revision of its application and to  *)
(* its sources (profile, policy, assessment, job and answers): the fields  *)
(* current and fresh say that neither has been written since.              *)
(***************************************************************************)
EXTENDS Integers, FiniteSets

CONSTANTS Enrollable,               \* applications
          MaximumAssignments,
          Drafters,                 \* workers; a slow one may outlive its lease
          DraftAttempts,            \* maxAttempts of a task
          MaxGenerations, MaxPackets,  \* bounds
          MaxFences           \* bound on the leases of any two generations

ASSUME ExperimentsAssumption ==
  /\ IsFiniteSet(Enrollable) /\ Enrollable \subseteq Nat
  /\ {MaximumAssignments, DraftAttempts, MaxGenerations, MaxPackets, MaxFences} \subseteq Nat

VARIABLES
  trialActive, \* the experiment is neither stopped nor expired
  merged,      \* the applications' jobs are one vacancy
  appl,        \* applications: state, and whether an inspection of its packet is queued
  packets,     \* packets, oldest first, with their packet_validity
  generations, \* experiment_generations with their tasks, oldest first
  assigned,    \* experiment_assignments: packet and canonical job
  drafting,    \* what each worker is doing, in memory
  sentAs       \* the packet of the final action, with its assignment (history)

experimentVars == <<trialActive, merged, appl, packets, generations, assigned, drafting, sentAs>>

GenerationIds == DOMAIN generations
Live(g) == generations[g].state # "failed"
Unassigned == [packet |-> 0, job |-> 0]
IdleDrafter == [gen |-> 0, fence |-> 0, begun |-> FALSE]
Sent == {a \in Enrollable : appl[a].state \in {"INTENT_RECORDED", "IN_FLIGHT"}}

\* jobIdentity
Vacancy(a) == IF merged THEN Enrollable ELSE {a}
CanonicalJob(a) == CHOOSE j \in Vacancy(a) : \A k \in Vacancy(a) : j <= k

AssignedIn(jobs) == {a \in Enrollable : assigned[a].job \in jobs}

Valid(p) == p # 0 /\ packets[p].valid
PacketsWithout(a) ==
  [p \in DOMAIN packets |-> [packets[p] EXCEPT !.valid = @ /\ packets[p].app # a]]

\* A write of an application raises its revision.
Outdated(gens, a) ==
  [g \in DOMAIN gens |-> [gens[g] EXCEPT !.current = @ /\ gens[g].app # a]]

\* generationSubmissionHeld
HeldByAnother(a) ==
  \E g \in GenerationIds : generations[g].app \in Vacancy(a) \ {a}
EnrollmentHolds(a) ==
  \/ HeldByAnother(a)
  \/ /\ \E g \in GenerationIds : generations[g].app = a
     /\ ~\E g \in GenerationIds : /\ generations[g].app = a
                                  /\ generations[g].state = "assigned"
                                  /\ generations[g].packet = assigned[a].packet

-----------------------------------------------------------------------------
(* ExperimentGenerationRepository                                           *)

\* available: nothing sent, assigned or generated for the vacancy.
Available(gens, a, except) ==
  /\ Vacancy(a) \cap Sent = {}
  /\ AssignedIn(Vacancy(a)) = {}
  /\ \A g \in DOMAIN gens \ {except} :
       gens[g].state # "failed" => gens[g].job \notin Vacancy(a)

\* check, with the sources of the binding.
Checked(g) ==
  LET gen == generations[g] IN
  /\ trialActive /\ gen.fresh /\ gen.current
  /\ Available(generations, gen.app, g)
  /\ CanonicalJob(gen.app) = gen.job
  /\ appl[gen.app].state \in {"ELIGIBLE", "PREPARED"}

EnrollmentOpen(gens) ==
  Cardinality({a \in Enrollable : assigned[a] # Unassigned})
    + Cardinality({g \in DOMAIN gens : gens[g].state \in {"queued", "drafting", "prepared"}})
    < MaximumAssignments

\* create: a prepared letter whose packet is void gives its place up; every packet
\* of the application is voided, and a task queued.
CreateGeneration(a) ==
  LET retired == [g \in GenerationIds |->
        IF generations[g].app = a /\ generations[g].state = "prepared"
             /\ ~Valid(generations[g].packet)
        THEN [generations[g] EXCEPT !.state = "failed"] ELSE generations[g]]
      n == Cardinality(GenerationIds) + 1 IN
  /\ n <= MaxGenerations /\ trialActive /\ Available(retired, a, 0)
  /\ EnrollmentOpen(retired)
  /\ \A g \in GenerationIds : generations[g].app = a => generations[g].task # "leased"
  /\ appl[a].state \in {"ELIGIBLE", "PREPARED"}
  /\ generations' = [g \in 1 .. n |->
       IF g < n THEN retired[g]
       ELSE [app |-> a, job |-> CanonicalJob(a), state |-> "queued", packet |-> 0,
             fresh |-> TRUE, current |-> TRUE, task |-> "ready", fence |-> 0, tries |-> 0,
             draft |-> 0]]
  /\ packets' = PacketsWithout(a)
  /\ UNCHANGED <<trialActive, merged, appl, assigned, drafting, sentAs>>

LeaseDraft(w, g) ==
  /\ drafting[w] = IdleDrafter /\ generations[g].task = "ready"
  /\ \A h \in GenerationIds :
       (IF h = g THEN 0 ELSE generations[h].fence) + generations[g].fence < MaxFences
  /\ generations' = [generations EXCEPT ![g].task = "leased", ![g].fence = @ + 1,
                                        ![g].tries = @ + 1]
  /\ drafting' = [drafting EXCEPT ![w] =
       [gen |-> g, fence |-> generations[g].fence + 1, begun |-> FALSE]]
  /\ UNCHANGED <<trialActive, merged, appl, packets, assigned, sentAs>>

\* validLease
HoldsDraft(w) ==
  LET g == drafting[w].gen IN
  g # 0 /\ generations[g].task = "leased" /\ generations[g].fence = drafting[w].fence

\* A generation task ends: completed, or dead, as its errors are not retried.
Ended(g, state) == [generations EXCEPT ![g].task = "done", ![g].state = state]

\* failGeneration records the failure under the lease.
FailGeneration(w) ==
  LET g == drafting[w].gen IN
  /\ generations' = IF ~HoldsDraft(w) THEN generations
                    ELSE Ended(g, IF generations[g].state \in {"queued", "drafting"}
                                  THEN "failed" ELSE generations[g].state)
  /\ drafting' = [drafting EXCEPT ![w] = IdleDrafter]
  /\ UNCHANGED <<trialActive, merged, appl, packets, assigned, sentAs>>

Begins(w, states) ==
  /\ drafting[w].gen # 0 /\ ~drafting[w].begun
  /\ generations[drafting[w].gen].state \in states

BeginDraft(w) ==
  LET g == drafting[w].gen IN
  /\ Begins(w, {"queued"}) /\ HoldsDraft(w) /\ Checked(g)
  /\ generations' = [generations EXCEPT ![g].state = "drafting",
                                        ![g].draft = drafting[w].fence]
  /\ drafting' = [drafting EXCEPT ![w].begun = TRUE]
  /\ UNCHANGED <<trialActive, merged, appl, packets, assigned, sentAs>>

\* The attempt after one that had published queues the inspection it left out.
ReplayDraft(w) ==
  LET g == drafting[w].gen IN
  /\ Begins(w, {"prepared", "assigned"}) /\ HoldsDraft(w) /\ Valid(generations[g].packet)
  /\ appl' = [appl EXCEPT ![generations[g].app].inspection = generations[g].packet]
  /\ generations' = Ended(g, generations[g].state)
  /\ drafting' = [drafting EXCEPT ![w] = IdleDrafter]
  /\ UNCHANGED <<trialActive, merged, packets, assigned, sentAs>>

\* A failed model, a check that fails, a lost lease, a draft an earlier attempt was at.
DraftFails(w) == drafting[w].gen # 0 /\ FailGeneration(w)

\* savePacketIn with the generation's record, one transaction.
Publish(w) ==
  LET g == drafting[w].gen
      a == generations[g].app
      p == Cardinality(DOMAIN packets) + 1 IN
  /\ drafting[w].begun /\ HoldsDraft(w)
  /\ generations[g].state = "drafting" /\ generations[g].draft = drafting[w].fence
  /\ Checked(g) /\ p <= MaxPackets
  /\ packets' = [q \in 1 .. p |-> IF q < p THEN PacketsWithout(a)[q]
                                  ELSE [app |-> a, gen |-> g, valid |-> TRUE]]
  /\ appl' = [appl EXCEPT ![a].state = "PREPARED"]
  /\ generations' = [Outdated(generations, a) EXCEPT ![g].state = "prepared", ![g].packet = p]
  /\ UNCHANGED <<trialActive, merged, assigned, drafting, sentAs>>

QueueInspection(w) ==
  LET g == drafting[w].gen IN
  /\ drafting[w].begun /\ generations[g].state = "prepared"
  /\ appl' = IF Valid(generations[g].packet)
             THEN [appl EXCEPT ![generations[g].app].inspection = generations[g].packet]
             ELSE appl
  /\ generations' = IF HoldsDraft(w) THEN Ended(g, "prepared") ELSE generations
  /\ drafting' = [drafting EXCEPT ![w] = IdleDrafter]
  /\ UNCHANGED <<trialActive, merged, packets, assigned, sentAs>>

DrafterDies(w) ==
  /\ drafting[w] # IdleDrafter
  /\ drafting' = [drafting EXCEPT ![w] = IdleDrafter]
  /\ UNCHANGED <<trialActive, merged, appl, packets, generations, assigned, sentAs>>

\* A lease runs out, or the owner cancels the task: its generation is left as it is.
DraftTaskLost(g) ==
  /\ generations[g].task \in {"ready", "leased"}
  /\ generations' = [generations EXCEPT
       ![g].task = IF @ = "leased" /\ generations[g].tries < DraftAttempts THEN "ready"
                   ELSE "done"]
  /\ UNCHANGED <<trialActive, merged, appl, packets, assigned, drafting, sentAs>>

-----------------------------------------------------------------------------
(* Preparation without a recipe, inspection and assignment                  *)

SavedBy(a, p) ==
  packets' = [q \in 1 .. p |-> IF q < p THEN PacketsWithout(a)[q]
                               ELSE [app |-> a, gen |-> 0, valid |-> TRUE]]

\* The worker prepares no application that has ever been enrolled for generation.
PrepareManually(a) ==
  LET p == Cardinality(DOMAIN packets) + 1 IN
  /\ appl[a].state \in {"ELIGIBLE", "PREPARED", "READY"} /\ p <= MaxPackets
  /\ \A g \in GenerationIds : generations[g].app # a
  /\ SavedBy(a, p)
  /\ appl' = [appl EXCEPT ![a] = [state |-> "PREPARED", inspection |-> p, submit |-> 0]]
  /\ UNCHANGED <<trialActive, merged, generations, assigned, drafting, sentAs>>

\* The owner's own request asks nothing of experiments: it voids the letter generated
\* for the application, and queues no inspection.
GenerateByHand(a) ==
  LET p == Cardinality(DOMAIN packets) + 1 IN
  /\ appl[a].state \in {"ELIGIBLE", "PREPARED"} /\ p <= MaxPackets
  /\ SavedBy(a, p)
  /\ appl' = [appl EXCEPT ![a].state = "PREPARED"]
  /\ generations' = Outdated(generations, a)
  /\ UNCHANGED <<trialActive, merged, assigned, drafting, sentAs>>

\* The form is filled and saved; a submit task follows unless the application is held.
InspectForm(a) ==
  LET p == appl[a].inspection IN
  /\ appl[a].state = "PREPARED" /\ Valid(p)
  /\ appl' = [appl EXCEPT ![a] = [state |-> "READY", inspection |-> 0,
                                  submit |-> IF EnrollmentHolds(a) THEN 0 ELSE p]]
  /\ generations' = Outdated(generations, a)
  /\ UNCHANGED <<trialActive, merged, packets, assigned, drafting, sentAs>>

\* assign: of the letter generated for the application, or of a manual packet.
Assign(a, p) ==
  LET gens == {g \in GenerationIds : Live(g) /\ generations[g].app = a} IN
  /\ assigned[a] = Unassigned /\ trialActive /\ appl[a].state = "READY"
  /\ EnrollmentOpen([g \in {h \in GenerationIds : generations[h].app # a} |-> generations[g]])
  /\ AssignedIn(Vacancy(a)) = {}
  /\ Valid(p) /\ packets[p].app = a
  /\ \/ gens = {} /\ ~EnrollmentHolds(a) /\ UNCHANGED <<appl, generations>>
     \/ \E g \in gens :
          /\ gens = {g} /\ generations[g].state = "prepared" /\ generations[g].packet = p
          /\ generations[g].fresh
          /\ generations' = [Outdated(generations, a) EXCEPT ![g].state = "assigned"]
          /\ appl' = [appl EXCEPT ![a] = [state |-> "PREPARED", inspection |-> p,
                                          submit |-> 0]]
  /\ assigned' = [assigned EXCEPT ![a] = [packet |-> p, job |-> CanonicalJob(a)]]
  /\ UNCHANGED <<trialActive, merged, packets, drafting, sentAs>>

-----------------------------------------------------------------------------
(* The final action                                                         *)

\* assertExperimentDispatch
MayDispatch(a, p) ==
  /\ ~EnrollmentHolds(a)
  /\ assigned[a] # Unassigned =>
       /\ trialActive /\ assigned[a].packet = p
       /\ \A g \in GenerationIds : generations[g].app = a /\ generations[g].state = "assigned"
                                     => generations[g].fresh
       /\ AssignedIn(Vacancy(a)) \subseteq {a} /\ assigned[a].job \in Vacancy(a)

\* begin: the snapshot of the intent names the assignment.
BeginAction(a) ==
  LET p == appl[a].submit IN
  /\ appl[a].state = "READY" /\ Valid(p) /\ MayDispatch(a, p)
  /\ Vacancy(a) \cap Sent = {}
  /\ appl' = [appl EXCEPT ![a].state = "INTENT_RECORDED"]
  /\ sentAs' = [sentAs EXCEPT ![a] = [packet |-> p, assignment |-> assigned[a].packet,
                                      sent |-> FALSE]]
  /\ UNCHANGED <<trialActive, merged, packets, generations, assigned, drafting>>

\* authorizeDispatch asks again.
DispatchAction(a) ==
  /\ appl[a].state = "INTENT_RECORDED"
  /\ MayDispatch(a, sentAs[a].packet) /\ sentAs[a].assignment = assigned[a].packet
  /\ appl' = [appl EXCEPT ![a].state = "IN_FLIGHT"]
  /\ sentAs' = [sentAs EXCEPT ![a].sent = TRUE]
  /\ UNCHANGED <<trialActive, merged, packets, generations, assigned, drafting>>

-----------------------------------------------------------------------------
(* The owner                                                                *)

StopTrial ==
  /\ trialActive /\ trialActive' = FALSE
  /\ UNCHANGED <<merged, appl, packets, generations, assigned, drafting, sentAs>>

\* A profile, policy or answer is written.
SourcesChange ==
  /\ \E g \in GenerationIds : generations[g].fresh
  /\ generations' = [g \in GenerationIds |-> [generations[g] EXCEPT !.fresh = FALSE]]
  /\ UNCHANGED <<trialActive, merged, appl, packets, assigned, drafting, sentAs>>

\* mergeJobs, of jobs of which one at most is sent, and splitJobs.
MergeOrSplit ==
  /\ merged \/ Cardinality(Sent) < 2
  /\ merged' = ~merged
  /\ UNCHANGED <<trialActive, appl, packets, generations, assigned, drafting, sentAs>>

ExperimentsInit ==
  /\ trialActive = TRUE /\ merged = FALSE
  /\ appl = [a \in Enrollable |-> [state |-> "ELIGIBLE", inspection |-> 0, submit |-> 0]]
  /\ packets = <<>> /\ generations = <<>>
  /\ assigned = [a \in Enrollable |-> Unassigned]
  /\ drafting = [w \in Drafters |-> IdleDrafter]
  /\ sentAs = [a \in Enrollable |-> [packet |-> 0, assignment |-> 0, sent |-> FALSE]]

DraftStep(w) ==
  \/ \E g \in GenerationIds : LeaseDraft(w, g)
  \/ BeginDraft(w) \/ ReplayDraft(w) \/ DraftFails(w) \/ Publish(w)
  \/ QueueInspection(w) \/ DrafterDies(w)

ExperimentsNext ==
  \/ \E a \in Enrollable :
       \/ CreateGeneration(a) \/ PrepareManually(a) \/ GenerateByHand(a) \/ InspectForm(a)
       \/ BeginAction(a) \/ DispatchAction(a)
       \/ \E p \in DOMAIN packets : Assign(a, p)
  \/ \E w \in Drafters : DraftStep(w)
  \/ \E g \in GenerationIds : DraftTaskLost(g)
  \/ StopTrial \/ SourcesChange \/ MergeOrSplit

ExperimentsSpec == ExperimentsInit /\ [][ExperimentsNext]_experimentVars

-----------------------------------------------------------------------------
(* Properties                                                               *)

ExperimentsTypeOK ==
  /\ {trialActive, merged} \subseteq BOOLEAN
  /\ \A g \in GenerationIds :
       /\ generations[g].state \in {"queued", "drafting", "prepared", "failed", "assigned"}
       /\ generations[g].task \in {"ready", "leased", "done"}
       /\ generations[g].packet \in 0 .. Cardinality(DOMAIN packets)
  /\ \A a \in Enrollable : assigned[a].packet \in 0 .. Cardinality(DOMAIN packets)

\* An application that was enrolled is sent with the very packet the owner reviewed
\* and assigned, whatever failed or replayed drafts, other packets, merges, splits,
\* and changes of what the letter was made from come before and between the intent
\* and the dispatch.
SentAsAssigned ==
  \A a \in Enrollable : sentAs[a].sent =>
    /\ assigned[a] # Unassigned => sentAs[a].packet = assigned[a].packet
    /\ (\E g \in GenerationIds : generations[g].app = a) =>
         \E g \in GenerationIds : /\ generations[g].app = a
                                  /\ generations[g].state = "assigned"
                                  /\ generations[g].packet = sentAs[a].packet
=============================================================================
