---------------------------- MODULE MCPreparation ----------------------------
(***************************************************************************)
(* Instances of Preparation for TLC: one application, whose packets,       *)
(* inspections and submissions may be made more than once.                 *)
(***************************************************************************)
EXTENDS Preparation, TLC

CONSTANTS k1, k2, a1, w1, w2

OneApp == [k \in {k1, k2} |-> a1]
OneAdapter == [k \in {k1, k2} |-> "mock-ats"]
AllTypes == {"prepare", "inspect", "submit", "reconcile"}
\* The two polls of an iteration: recovery first, then everything.
WorkerPolls == {{"reconcile"}, AllTypes}

\* A task that fails for good is noticed by the owner; what a retry may do is
\* explored with module Submission.
OneTry == [type \in AllTypes |-> 1]

Interchangeable == Permutations({w1, w2}) \cup Permutations({k1, k2})
KeysAlike == Permutations({k1, k2})

\* As in MCSubmission: a revision only matters as far as it still is the one
\* that a worker has read.
UpToRevisions ==
  << control, quarantined, tasks, attempts, nextFence, policy, authority, packet,
     prep, latest, employer, clicks, docVars,
     [a \in Apps |-> <<apps[a].state, apps[a].commitFence>>],
     [w \in Workers |->
        << worker[w].pc, worker[w].task, worker[w].fence,
           IF worker[w].pc \in {"read", "looked", "renewed"}
           THEN IF worker[w].revision = apps[AppOfWorker(w)].revision THEN 1 ELSE 0
           ELSE worker[w].revision >>] >>
=============================================================================
