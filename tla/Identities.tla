----------------------------- MODULE Identities -----------------------------
(***************************************************************************)
(* Which postings are one vacancy: the owner's merges and splits of job    *)
(* identities (packages/persistence/src/discovery-repository.ts over       *)
(* job-identity.ts), with the applications of the jobs, the listings they  *)
(* were found by and the history the owner asserted of those.  What        *)
(* becomes of an application is modules Submission and Preparation; here   *)
(* its state is one of                                                     *)
(*   open       before a final action, or after one that surely failed     *)
(*   uncertain  INTENT_RECORDED to RECONCILING, and NEEDS_REVIEW, which is *)
(*              also where an application waits whose packet went bad      *)
(*   over       SKIPPED or CLOSED                                          *)
(* or CONFIRMED, HISTORICAL_SUBMITTED, DUPLICATE, or none.                 *)
(***************************************************************************)
EXTENDS Integers, FiniteSets

CONSTANTS
  Jobs,          \* jobs of one employer, each with a posting of its own
  Listed,        \* those whose postings are found, and may be in the owner's history
  DraftsOverlap  \* whether a draft may still be under way when what it drafts for
                 \* is submitted or asserted as history

ASSUME IdentitiesAssumption ==
  IsFiniteSet(Jobs) /\ Listed \subseteq Jobs /\ DraftsOverlap \in BOOLEAN

VARIABLES
  parent,     \* identity_resolutions in force; a job is its own parent without
  appOf,      \* the application of a job: its state, its age, and whether it has no
              \* attempt, only such as surely failed, or one that is or may be sent
  listedAs,   \* job_id of the listing of a posting
  recordedAs  \* job_id of the historical record of a posting

identityVars == <<parent, appOf, listedAs, recordedAs>>

Committed == {"CONFIRMED", "HISTORICAL_SUBMITTED"}
Engaged(a) == a.state \in Committed \cup {"uncertain"}
HasApp(j) == appOf[j].state # "none"

\* It reached the employer or may have, or the owner says that it did.
MaybeSent(a) == a.attempt = "live" \/ a.state = "HISTORICAL_SUBMITTED"

\* jobIdentity: the root of a job, and all jobs of a root.
Canonical(j) ==
  LET up[n \in 0 .. Cardinality(Jobs)] == IF n = 0 THEN j ELSE parent[up[n - 1]]
  IN up[Cardinality(Jobs)]
Members(j) == LET root == Canonical(j) IN {m \in Jobs : Canonical(m) = root}

Older(m, n) == appOf[m].born < appOf[n].born
Oldest(S) == CHOOSE m \in S : \A n \in S \ {m} : Older(m, n)
Births == Cardinality({j \in Jobs : HasApp(j)})

WithState(j, state) == [appOf[j] EXCEPT !.state = state]

-----------------------------------------------------------------------------
(* Applications                                                             *)

\* createApplication: none when one of the vacancy will do.
CreateApplication(j) ==
  LET root == Canonical(j) IN
  /\ \A m \in Members(j) : appOf[m].state \in {"none", "DUPLICATE"}
  /\ ~HasApp(root)
  /\ \E state \in {"open", "HISTORICAL_SUBMITTED"} :
       appOf' = [appOf EXCEPT ![root] = [state |-> state, born |-> Births + 1, attempt |-> "none"]]
  /\ UNCHANGED <<parent, listedAs, recordedAs>>

\* assertDiscoveryEligibility, in the transaction that records an intent; what
\* else may keep the application from it is left open.
BeginSubmission(j) ==
  /\ appOf[j].state = "open" /\ appOf[j].attempt # "live"
  /\ \A m \in Members(j) \ {j} : ~Engaged(appOf[m])
  /\ appOf' = [appOf EXCEPT ![j].state = "uncertain", ![j].attempt = "live"]
  /\ UNCHANGED <<parent, listedAs, recordedAs>>

\* A receipt, a failure for certain, or an end put to it before.
ResolveSubmission(j) ==
  /\ appOf[j].state = "uncertain" /\ appOf[j].attempt = "live"
  /\ \/ appOf' = [appOf EXCEPT ![j].state = "CONFIRMED"]
     \/ appOf' = [appOf EXCEPT ![j].state = "open", ![j].attempt = "failed"]
  /\ UNCHANGED <<parent, listedAs, recordedAs>>

SkipOrClose(j) ==
  /\ appOf[j].state = "open"
  /\ appOf' = [appOf EXCEPT ![j].state = "over"]
  /\ UNCHANGED <<parent, listedAs, recordedAs>>

\* invalidate: a packet turns out to be bad when it is opened, whatever has become
\* of its application meanwhile.  With no intent it may ask for input instead.
Invalidate(j) ==
  /\ HasApp(j) /\ appOf[j].state \notin Committed
  /\ appOf[j].state = "uncertain" => appOf[j].attempt # "live"
  /\ \E state \in {"uncertain"} \cup (IF appOf[j].attempt = "none" THEN {"open"} ELSE {}) :
       appOf' = [appOf EXCEPT ![j].state = state]
  /\ UNCHANGED <<parent, listedAs, recordedAs>>

\* savePacketIn: a draft ends, and with it whatever its application had become.
SaveDraft(j) ==
  /\ HasApp(j) /\ (DraftsOverlap \/ ~MaybeSent(appOf[j]))
  /\ appOf' = [appOf EXCEPT ![j].state = "open"]
  /\ UNCHANGED <<parent, listedAs, recordedAs>>

\* The owner has the form rebuilt where nothing may have been sent.
Rebuild(j) ==
  /\ appOf[j].state = "uncertain" /\ appOf[j].attempt # "live"
  /\ appOf' = [appOf EXCEPT ![j].state = "open"]
  /\ UNCHANGED <<parent, listedAs, recordedAs>>

-----------------------------------------------------------------------------
(* History                                                                  *)

\* applyHistory to a job whose identity has nothing committed or uncertain:
\* it throws for one with attempts.
Suppressible(apps, members, j) ==
  \/ \E m \in members : Engaged(apps[m])
  \/ apps[j].attempt = "none"
Suppressed(apps, members, j) ==
  IF \E m \in members : Engaged(apps[m]) THEN apps
  ELSE [apps EXCEPT ![j].state = "HISTORICAL_SUBMITTED",
                    ![j].born = IF @ = 0 THEN Births + 1 ELSE @]

Suppress(j) ==
  /\ Suppressible(appOf, Members(j), j)
  /\ appOf' = Suppressed(appOf, Members(j), j)

\* importHistory of a record for a posting that was listed, or was not yet.
ImportRecord(p) ==
  /\ p \in Listed /\ recordedAs[p] = "none"
  /\ IF listedAs[p] = "none"
     THEN recordedAs' = [recordedAs EXCEPT ![p] = "unmatched"] /\ UNCHANGED appOf
     ELSE recordedAs' = [recordedAs EXCEPT ![p] = listedAs[p]] /\ Suppress(listedAs[p])
  /\ UNCHANGED <<parent, listedAs>>

\* ingest of a posting: a known listing keeps its job, a new one is listed as
\* what its job is now; a record of it follows.
IngestPosting(p) ==
  LET job == Canonical(IF listedAs[p] = "none" THEN p ELSE listedAs[p]) IN
  /\ p \in Listed
  /\ listedAs' = [listedAs EXCEPT ![p] = IF @ = "none" THEN job ELSE @]
  /\ recordedAs' = [recordedAs EXCEPT ![p] = IF @ = "none" THEN @ ELSE job]
  /\ IF \E q \in Jobs : recordedAs'[q] = job THEN Suppress(job) ELSE UNCHANGED appOf
  /\ UNCHANGED parent

-----------------------------------------------------------------------------
(* Merges and splits                                                        *)

Moved(jobOf, from, to) == [p \in Jobs |-> IF jobOf[p] = from THEN to ELSE jobOf[p]]

\* Faulty: what was submitted for either is not counted.
MergeableUncommitted(from, to) ==
  /\ from # to /\ Canonical(from) = from /\ Canonical(to) = to
  /\ Members(from) = {from}
  /\ \A m \in {from} \cup Members(to) : appOf[m].state # "uncertain"

\* Only a job that nothing was merged into, nothing being uncertain, is merged.
Mergeable(from, to) ==
  /\ MergeableUncommitted(from, to)
  /\ Cardinality({m \in {from} \cup Members(to) : appOf[m].state \in Committed}) <= 1

\* The application that stands for the merged vacancy: one that was submitted,
\* or else the oldest.  The others are duplicates, their work cancelled.
Winner(live) ==
  LET committed == {m \in live : appOf[m].state \in Committed}
  IN IF committed # {} THEN CHOOSE m \in committed : TRUE ELSE Oldest(live)

MergeJobs(from, to) ==
  LET live == {m \in {from} \cup Members(to) : appOf[m].state \notin {"none", "DUPLICATE"}} IN
  /\ Mergeable(from, to)
  /\ parent' = [parent EXCEPT ![from] = to]
  /\ appOf' = [j \in Jobs |->
       IF j \in live /\ j # Winner(live) THEN WithState(j, "DUPLICATE") ELSE appOf[j]]
  /\ listedAs' = Moved(listedAs, from, to) /\ recordedAs' = Moved(recordedAs, from, to)

\* Faulty: nothing takes the place of the winner that leaves.
RestartedNever(apps, rest) == apps

\* When only duplicates are left behind, the oldest starts again.
Restarted(apps, rest) ==
  LET kept == {m \in rest : apps[m].state # "none"} IN
  IF kept # {} /\ \A m \in kept : apps[m].state = "DUPLICATE"
  THEN [apps EXCEPT ![Oldest(kept)].state = "open"] ELSE apps

\* splitJobs: the job that was merged leaves with its listing and its record; its
\* duplicate starts again; history is applied to both sides once more.
SplitJobs(from) ==
  LET to == parent[from]
      rest == Members(to) \ {from}
      records == [p \in Jobs |->
        IF p = from /\ listedAs[p] # "none" /\ recordedAs[p] # "none" THEN from ELSE recordedAs[p]]
      apart == [appOf EXCEPT ![from].state = IF @ = "DUPLICATE" THEN "open" ELSE @]
      hasRecord(j) == \E p \in Jobs : records[p] = j
      left == IF hasRecord(from) THEN Suppressed(apart, {from}, from) ELSE apart
      again == Restarted(left, rest) IN
  /\ to # from
  /\ \A m \in Members(to) : appOf[m].state # "uncertain"
  /\ hasRecord(from) => Suppressible(apart, {from}, from)
  /\ hasRecord(to) => Suppressible(again, rest, to)
  /\ parent' = [parent EXCEPT ![from] = from]
  /\ listedAs' = [listedAs EXCEPT ![from] = IF @ = "none" THEN @ ELSE from]
  /\ recordedAs' = records
  /\ appOf' = IF hasRecord(to) THEN Suppressed(again, rest, to) ELSE again

-----------------------------------------------------------------------------
IdentitiesInit ==
  /\ parent = [j \in Jobs |-> j]
  /\ appOf = [j \in Jobs |-> [state |-> "none", born |-> 0, attempt |-> "none"]]
  /\ listedAs = [j \in Jobs |-> "none"] /\ recordedAs = [j \in Jobs |-> "none"]

IdentitiesNext ==
  \E j \in Jobs :
    \/ CreateApplication(j) \/ BeginSubmission(j) \/ ResolveSubmission(j) \/ SkipOrClose(j)
    \/ Invalidate(j) \/ SaveDraft(j) \/ Rebuild(j)
    \/ ImportRecord(j) \/ IngestPosting(j) \/ SplitJobs(j)
    \/ \E to \in Jobs : MergeJobs(j, to)

-----------------------------------------------------------------------------
(* Properties                                                               *)

IdentitiesTypeOK ==
  /\ parent \in [Jobs -> Jobs]
  /\ \A j \in Jobs :
       /\ appOf[j].state \in {"none", "open", "uncertain", "over", "DUPLICATE"} \cup Committed
       /\ appOf[j].born \in 0 .. Cardinality(Jobs)
       /\ appOf[j].attempt \in {"none", "failed", "live"}
       /\ listedAs[j] \in Jobs \cup {"none"} /\ recordedAs[j] \in Jobs \cup {"none", "unmatched"}

\* However jobs are merged, split and merged again while their applications are
\* submitted, fail, are drafted anew and are asserted as history, at most one
\* application of a vacancy was or may have been sent to the employer, and one with
\* applications has one that is not set aside as the duplicate of another.  One that
\* was set aside may wait in NEEDS_REVIEW beside the one that was sent, when its old
\* packet turns out to be bad: it has no attempt, and is not counted here.  Without
\* DraftsOverlap, a draft that ends after its application was sent is left out: it
\* puts the application back to PREPARED.
OnePerVacancy ==
  \A j \in Jobs : HasApp(j) =>
    /\ Cardinality({m \in Members(j) : MaybeSent(appOf[m])}) <= 1
    /\ \E m \in Members(j) : appOf[m].state \notin {"none", "DUPLICATE"}
=============================================================================
