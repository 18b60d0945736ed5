------------------------------ MODULE MCRestores ------------------------------
(***************************************************************************)
(* Instances of Restores and of History for TLC: one vacancy, one worker.  *)
(***************************************************************************)
EXTENDS Restores, TLC

CONSTANTS k1, a1, w1

OneApp == [k \in Keys |-> a1]
OneAdapter == [k \in Keys |-> "mock-ats"]
AllTypes == {"prepare", "inspect", "submit", "reconcile"}
WorkerPolls == {{"reconcile"}, AllTypes}
OneTry == [type \in AllTypes |-> 1]

\* As in MCPreparation; a revision in a copy is compared with nothing, as no
\* worker outlives the restore.
UpToRevisions ==
  << control, tasks, attempts, nextFence, policy, authority, packet,
     prep, latest, employer, clicks, docVars, pastVars, reviewVars, restores,
     [a \in Apps |-> <<apps[a].state, apps[a].commitFence>>],
     [w \in Workers |->
        << worker[w].pc, worker[w].task, worker[w].fence,
           IF worker[w].pc \in {"read", "looked", "renewed"}
           THEN IF worker[w].revision = apps[AppOfWorker(w)].revision THEN 1 ELSE 0
           ELSE worker[w].revision >>],
     {[d EXCEPT !.apps = [a \in Apps |-> <<d.apps[a].state, d.apps[a].commitFence>>]] :
        d \in copies} >>
=============================================================================
