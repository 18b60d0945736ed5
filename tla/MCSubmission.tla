---------------------------- MODULE MCSubmission -----------------------------
(***************************************************************************)
(* Instances of Submission for TLC.  k1 and k2 are two preparations of one *)
(* application: its form has been inspected again.                         *)
(***************************************************************************)
EXTENDS Submission, TLC

CONSTANTS k1, k2, a1, w1, w2

OneApp == [k \in {k1, k2} |-> a1]

OneAdapter == [k \in {k1, k2} |-> "mock-ats"]

SubmitTypes == {"submit", "reconcile"}
\* The polls of task-selection.ts, as far as these types go.
WorkerPolls == {{"reconcile"}, {"submit", "reconcile"}}
\* Workers run the same program, and the two preparations of OneApp differ in
\* nothing but their names.
Interchangeable == Permutations({w1, w2}) \cup Permutations({k1, k2})

\* Revisions only grow and are only compared for equality with one a worker
\* read, so whether that one still is current is all that tells states apart.
\* The three authorities that do not submit differ in nothing a step looks at,
\* except whether they can still be revoked, which pausing does as well.
UpToRevisions ==
  << control, quarantined, tasks, attempts, nextFence, policy, packet, prep,
     latest, employer, clicks, authority = "auto_submit",
     [a \in Apps |-> <<apps[a].state, apps[a].commitFence>>],
     [w \in Workers |->
        << worker[w].pc, worker[w].task, worker[w].fence,
           worker[w].pc = "read" /\ worker[w].revision = apps[AppOfWorker(w)].revision >>] >>

OneKeyApp == k1 :> a1
OneKeyAdapter == k1 :> "mock-ats"

\* save gives a submit task one attempt; a reconcile task has four, of which
\* two already tell a retry from the last failure.
RetryBudget == [submit |-> 1, reconcile |-> 2]
=============================================================================
