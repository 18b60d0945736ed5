----------------------------- MODULE MCExceptions -----------------------------
(***************************************************************************)
(* Instances of Exceptions for TLC: one application, one worker.           *)
(***************************************************************************)
EXTENDS Exceptions, TLC

CONSTANTS k1, k2, a1, w1

OneApp == [k \in Keys |-> a1]
OneAdapter == [k \in Keys |-> "mock-ats"]
AllTypes == {"prepare", "inspect", "submit", "reconcile"}
WorkerPolls == {{"reconcile"}, AllTypes}
OneTry == [type \in AllTypes |-> 1]
KeysAlike == Permutations({k1, k2})

\* As in MCPreparation.
UpToRevisions ==
  << control, tasks, attempts, nextFence, policy, authority, packet,
     prep, latest, employer, clicks, docVars, noticeVars,
     [a \in Apps |-> <<apps[a].state, apps[a].commitFence>>],
     [w \in Workers |->
        << worker[w].pc, worker[w].task, worker[w].fence,
           IF worker[w].pc \in {"read", "looked", "renewed"}
           THEN IF worker[w].revision = apps[AppOfWorker(w)].revision THEN 1 ELSE 0
           ELSE worker[w].revision >>] >>
=============================================================================
