-------------------------------- MODULE Forms --------------------------------
(***************************************************************************)
(* What the adapters enter into an employer's form and what reaches the    *)
(* portal: packages/browser, with the guard of its answers in              *)
(* candidate-repository.ts.  A pass is a preparation or a commit of one    *)
(* application; the owner changes what is approved, the portal its form,   *)
(* and a page that runs scripts what was entered, between any two steps of *)
(* it.  A value is a number: Blank, what the packet says, the approved     *)
(* answer to a question, or Other, what the page put there by itself.      *)
(***************************************************************************)
EXTENDS Integers, Sequences, FiniteSets

CONSTANTS
  Backed,     \* the fields that the packet itself answers
  Limits,     \* for each question, how many answers the owner may approve
  Portals,    \* what may be behind the vacancy: adapter, fixture and forms
  Scripted,   \* the fields that the scripts of a Greenhouse page may overwrite
  MaxPasses   \* preparations and commits explored

Questions == DOMAIN Limits
FieldKeys == Backed \cup Questions

\* A form is a set of fields, each of a step, and perhaps revealed by another.
FormField ==
  [key : FieldKeys, step : Nat, kind : {"plain", "file", "radio", "alien"},
   required : BOOLEAN,
   when : {<< >>} \cup (FieldKeys \X Nat)]
FormType == [fields : SUBSET FormField, blocker : {"none", "challenge", "unsupported"}]

\* The synthetic portal shows a challenge, or nothing that is in the way.
ASSUME FormsAssumption ==
  /\ Backed \cap Questions = {} /\ \A q \in Questions : Limits[q] \in Nat
  /\ MaxPasses \in Nat
  /\ \A p \in Portals :
       /\ p.adapter \in {"mock", "greenhouse", "hosted", "recruitee"}
       /\ p.forms \in Seq(FormType) /\ p.forms # << >>
       /\ p.adapter = "mock" =>
            \A i \in DOMAIN p.forms : p.forms[i].blocker # "unsupported"

VARIABLES
  portal,     \* the portal of this vacancy
  form,       \* which of its forms it serves
  approved,   \* the answer to each question that matches now, 0 for none
  revoked,    \* whether the bindings and controls of the application refuse
  packet,     \* the answers that the packet was drafted with
  pass,       \* the preparation or commit under way; `late` is history: what the
              \* page put over an entry after the last look at it
  page,       \* what the fields of the open page hold
  blocked,    \* writes that the routes of this pass counted
  prepared,   \* the last preparation of the packet
  wire,       \* the applications posted to the portal
  outcome,    \* what the last commit ended with
  passes

formVars == <<portal, form, approved, revoked, packet, pass, page, blocked, prepared,
              wire, outcome, passes>>

Blank == 0
Other == 0 - 1
None == [status |-> "none", snaps |-> << >>, plans |-> << >>]
NoPass == [kind |-> "idle", at |-> "open", snaps |-> << >>, plans |-> << >>,
         todo |-> {}, faults |-> {}, filled |-> FALSE, permit |-> << >>, late |-> {}]
Empty == [k \in FieldKeys |-> Blank]

----------------------------------------------------------------------------
(* Inspection: what each adapter sees of the form. *)

Form == portal.forms[form]
Steps == IF portal.adapter = "mock" THEN 2 ELSE 1
Step == Len(pass.snaps)

\* A field that another one reveals is shown once that one holds the answer.
Visible(f) == f.when = << >> \/ page[f.when[1]] = f.when[2]
Shown(step) == {f \in Form.fields : f.step = step /\ Visible(f)}

MockSnapshot(step) == [fields |-> Shown(step), hidden |-> {}, blocker |-> Form.blocker]

\* Radio buttons and dates are controls that this adapter does not enter, and a
\* required field that is hidden makes the variant unsupported.
GreenhouseSnapshot ==
  LET hidden == {f.key : f \in {g \in Form.fields : g.required /\ ~Visible(g)}} IN
  [fields |-> {[f EXCEPT !.kind = IF f.kind = "radio" THEN "alien" ELSE f.kind] :
                 f \in Shown(1)},
   hidden |-> hidden,
   blocker |-> IF Form.blocker = "none" /\ hidden # {} THEN "unsupported" ELSE Form.blocker]

\* Only plain controls that the packet's identity answers are safe.
HostedSnapshot ==
  LET Safe(f) == f.kind = "plain" /\ f.key \in Backed \ {"letter"} IN
  [fields |-> {[f EXCEPT !.kind = IF Safe(f) THEN f.kind ELSE "alien"] : f \in Shown(1)},
   hidden |-> {},
   blocker |-> IF Form.blocker # "none" \/ \A f \in Shown(1) : Safe(f)
               THEN Form.blocker ELSE "unsupported"]

\* The offer read from the public API: its revision is part of what is compared.
RecruiteeSnapshot == [fields |-> Form.fields, hidden |-> {form}, blocker |-> Form.blocker]

Snapshot(step) ==
  CASE portal.adapter = "mock" -> MockSnapshot(step)
    [] portal.adapter = "greenhouse" -> GreenhouseSnapshot
    [] portal.adapter = "hosted" -> HostedSnapshot
    [] portal.adapter = "recruitee" -> RecruiteeSnapshot

Fingerprint(snap) == <<snap.fields, snap.hidden>>

----------------------------------------------------------------------------
(* The plan of a form's values, and what the database makes of it. *)

\* The values told by `known`; a required field without one is unresolved.
Planned(snap, known) ==
  LET usable == {f.key : f \in {g \in snap.fields : g.kind # "alien" /\ known[g.key] # Blank}}
  IN [entries |-> [k \in usable |-> known[k]],
      unresolved |-> {f.key : f \in {g \in snap.fields : g.required}} \ usable]

PlanFields(snap) == Planned(snap, [k \in FieldKeys |-> IF k \in Backed THEN 1 ELSE packet[k]])

\* A Greenhouse form has no field for the letter.
PlanGreenhouse(snap) ==
  Planned(snap, [k \in FieldKeys |-> IF k \in Questions THEN packet[k]
                                ELSE IF k = "letter" THEN Blank ELSE 1])

PlanFor(snap) == IF portal.adapter = "greenhouse" THEN PlanGreenhouse(snap) ELSE PlanFields(snap)

\* The bindings of packet, profile, authorization, attempt and controls.
MayFill == ~revoked

\* An entry stays when the packet backs it or its answer is the one approved now.
Guarded(snap, plan) ==
  LET alien == {f.key : f \in {g \in snap.fields : g.kind = "alien"}}
      kept == {k \in DOMAIN plan.entries \ alien :
                 k \in Backed \/ approved[k] = plan.entries[k]}
      required == {f.key : f \in {g \in snap.fields : g.required}}
  IN [entries |-> [k \in kept |-> plan.entries[k]],
      unresolved |-> plan.unresolved \cup alien \cup (DOMAIN plan.entries \ kept)
                       \cup (required \ kept)]

\* Faulty: a plan that has no gap is taken as it was made.
SupportedAsPlanned(snap, plan) == MayFill /\ plan.unresolved = {}

\* assertGuardedPlan: the same values, and nothing left open.
Supported(snap, plan) ==
  /\ MayFill
  /\ Guarded(snap, plan) = [plan EXCEPT !.unresolved = {}]

----------------------------------------------------------------------------
(* The ends of a pass. *)

\* A preparation that throws leaves what was prepared before.
Throws ==
  /\ pass' = NoPass
  /\ outcome' = IF pass.kind = "commit" THEN "unknown" ELSE outcome
  /\ UNCHANGED <<page, blocked, prepared, wire>>

\* A commit that finds the form or its answers changed is closed before dispatch.
Aborts ==
  /\ pass' = NoPass
  /\ outcome' = IF pass.kind = "commit" THEN "aborted" ELSE outcome
  /\ UNCHANGED <<page, blocked, prepared, wire>>

Advances(next) ==
  /\ pass' = next
  /\ UNCHANGED <<blocked, prepared, wire, outcome>>

----------------------------------------------------------------------------
(* The owner, and the portal by itself. *)

\* An answer is approved, replaced, or rests on evidence that no longer holds.
Approve(q, answer) ==
  /\ approved[q] # answer
  /\ approved' = [approved EXCEPT ![q] = answer]
  /\ UNCHANGED <<portal, form, revoked, packet, pass, page, blocked, prepared, wire,
                 outcome, passes>>

Revoke ==
  /\ revoked' = ~revoked
  /\ UNCHANGED <<portal, form, approved, packet, pass, page, blocked, prepared, wire,
                 outcome, passes>>

\* A packet drafted anew takes the answers of its day, and has no preparation.
Draft ==
  /\ pass.kind = "idle" /\ outcome \in {"none", "aborted"} /\ packet # approved
  /\ packet' = approved /\ prepared' = None
  /\ UNCHANGED <<portal, form, approved, revoked, pass, page, blocked, wire, outcome, passes>>

\* The hosted page runs no script and is cut from the network once it is loaded.
Sealed == portal.adapter = "hosted" /\ pass.kind # "idle"

\* The portal serves another form.  The synthetic one only shows its challenge, or
\* hides it from a session in which the owner has solved it.
Reform ==
  /\ ~Sealed /\ (portal.adapter = "mock" => pass.kind = "idle")
  /\ form' \in DOMAIN portal.forms \ {form}
  /\ UNCHANGED <<portal, approved, revoked, packet, pass, page, blocked, prepared, wire,
                 outcome, passes>>

\* A resume parser, or any script, puts a value over one that was entered: while
\* others are entered or read back, while a permit is asked for, until the click.
Overwrite(k) ==
  LET seen == pass.at \in {"permit", "click"} \/ (pass.at = "read" /\ k \notin pass.todo) IN
  /\ portal.adapter = "greenhouse" /\ pass.at \in {"fill", "read", "permit", "click"}
  /\ k \in Scripted /\ page[k] \notin {Blank, Other}
  /\ page' = [page EXCEPT ![k] = Other]
  /\ pass' = [pass EXCEPT !.late = IF seen THEN @ \cup {k} ELSE @]
  /\ UNCHANGED <<portal, form, approved, revoked, packet, blocked, prepared, wire,
                 outcome, passes>>

----------------------------------------------------------------------------
(* A preparation. *)

\* A hosted preparation is tried on an empty plan before a browser is opened for it.
Admitted == portal.adapter = "hosted" => MayFill

StartPrepare ==
  /\ pass.kind = "idle" /\ Admitted /\ outcome \in {"none", "aborted"} /\ passes < MaxPasses
  /\ pass' = [NoPass EXCEPT !.kind = "prepare"]
  /\ page' = Empty /\ blocked' = 0 /\ passes' = passes + 1
  /\ UNCHANGED <<portal, form, approved, revoked, packet, prepared, wire, outcome>>

\* Whether the adapter enters this plan at all: the synthetic one enters what it
\* can, the public API has no page to enter it into.
Enters(snap, plan) ==
  /\ portal.adapter # "recruitee"
  /\ snap.blocker = "none"
  /\ portal.adapter = "mock" \/ (plan.unresolved = {} /\ blocked = 0)

\* The hosted plan is guarded when it is filled, the others as they are made.
InspectToPrepare ==
  LET snap == Snapshot(Step + 1)
      plan == IF portal.adapter = "hosted" THEN PlanFor(snap)
              ELSE Guarded(snap, PlanFor(snap))
  IN /\ pass.kind = "prepare" /\ pass.at = "open"
     /\ IF MayFill \/ portal.adapter = "hosted"
        THEN /\ Advances([pass EXCEPT !.snaps = Append(@, snap), !.plans = Append(@, plan),
                                      !.at = IF Enters(snap, plan) THEN "fill" ELSE "done",
                                      !.filled = Enters(snap, plan),
                                      !.todo = DOMAIN plan.entries])
             /\ page' = page
        ELSE Throws
     /\ UNCHANGED <<portal, form, approved, revoked, packet, passes>>

Blocked(status) == \E i \in DOMAIN pass.snaps : pass.snaps[i].blocker = status
Unresolved == \E i \in DOMAIN pass.plans : pass.plans[i].unresolved # {}

MockStatus ==
  CASE Blocked("challenge") -> "challenge"
    [] "upload" \in pass.faults -> "upload_failed"
    [] Unresolved \/ pass.faults # {} -> "needs_input"
    [] OTHER -> "ready"

\* Ready only on the form that the target names, which is the first one.
GreenhouseStatus ==
  CASE Blocked("challenge") -> "challenge"
    [] pass.snaps[1].blocker # "none" \/ blocked > 0 -> "unsupported"
    [] Unresolved -> "needs_input"
    [] Fingerprint(pass.snaps[1]) # portal.pinned \/ ~pass.filled -> "unsupported"
    [] pass.faults # {} -> "unsupported"
    [] OTHER -> "ready"

RecruiteeStatus ==
  IF Unresolved \/ Blocked("unsupported")
       \/ \E f \in pass.snaps[1].fields : f.required /\ f.kind = "alien"
  THEN "unsupported" ELSE "ready"

\* Final submission requires a reviewed adapter, whatever was entered.
HostedStatus == IF Blocked("challenge") THEN "challenge" ELSE "unsupported"

Report ==
  /\ pass.kind = "prepare" /\ pass.at = "done"
  /\ prepared' = [status |-> CASE portal.adapter = "mock" -> MockStatus
                               [] portal.adapter = "greenhouse" -> GreenhouseStatus
                               [] portal.adapter = "hosted" -> HostedStatus
                               [] portal.adapter = "recruitee" -> RecruiteeStatus,
                  snaps |-> pass.snaps, plans |-> pass.plans]
  /\ pass' = NoPass
  /\ UNCHANGED <<portal, form, approved, revoked, packet, page, blocked, wire, outcome, passes>>

----------------------------------------------------------------------------
(* Entering a plan, and reading it back. *)

Plan == pass.plans[Step]
Snap == pass.snaps[Step]
Entered(k) == [pass EXCEPT !.todo = @ \ {k}]

\* A native control keeps what is entered, or shows something else at once.
Keep(k) == page' = [page EXCEPT ![k] = Plan.entries[k]]
Alter(k) == page' = [page EXCEPT ![k] = Other]

\* One fixture refuses the upload; another posts the form when the country changes.
FillMock(k) ==
  /\ portal.adapter = "mock" /\ pass.at = "fill" /\ k \in pass.todo
  /\ ~(portal.fixture = "implicit-submit" /\ k = "country")
  /\ Keep(k)
  /\ Advances(IF portal.fixture = "upload-fail" /\ k = "cv"
              THEN [Entered(k) EXCEPT !.faults = @ \cup {"upload"}] ELSE Entered(k))
  /\ UNCHANGED <<portal, form, approved, revoked, packet, passes>>

\* What posts the form by itself: a dry run answers it, a commit lets it through,
\* and the page that the pass was in is gone.  The portal refuses what is incomplete.
ImplicitSubmit ==
  /\ portal.adapter = "mock" /\ portal.fixture = "implicit-submit"
  /\ pass.at = "fill" /\ "country" \in pass.todo
  /\ pass' = NoPass
  /\ outcome' = IF pass.kind = "commit" THEN "unknown" ELSE outcome
  /\ blocked' = IF pass.kind = "prepare" THEN 1 ELSE blocked
  /\ wire' = IF pass.kind = "prepare" THEN wire
             ELSE Append(wire, [values |-> page, plans |-> prepared.plans,
                                permit |-> pass.permit, kept |-> FALSE, late |-> pass.late])
  /\ UNCHANGED <<portal, form, approved, revoked, packet, page, prepared, passes>>

\* Before each entry the form is inspected again and the plan guarded again.
FillGreenhouse(k) ==
  LET now == GreenhouseSnapshot
      steady == now.blocker = "none" /\ Fingerprint(now) = Fingerprint(Snap) IN
  /\ portal.adapter = "greenhouse" /\ pass.at = "fill" /\ k \in pass.todo
  /\ \/ ~steady /\ Throws
     \/ steady /\ ~Supported(now, Plan) /\ Aborts
     \/ steady /\ Supported(now, Plan) /\ Keep(k) /\ Advances(Entered(k))
     \/ /\ steady /\ Supported(now, Plan) /\ Alter(k)
        /\ Advances([Entered(k) EXCEPT !.faults = @ \cup {"value"}])
  /\ UNCHANGED <<portal, form, approved, revoked, packet, passes>>

\* No script runs in this page and no request leaves it.
FillHosted(k) ==
  /\ portal.adapter = "hosted" /\ pass.at = "fill" /\ k \in pass.todo
  /\ IF Supported(Snap, Plan) THEN Keep(k) /\ Advances(Entered(k)) ELSE Aborts
  /\ UNCHANGED <<portal, form, approved, revoked, packet, passes>>

\* What was entered in the first step and no longer holds at the end.
Disturbed ==
  {k \in DOMAIN pass.plans[1].entries : k # "cv" /\ page[k] # pass.plans[1].entries[k]}

\* The end of a step.  "Next" is where one fixture overwrites the name; only a dry
\* run looks at the first step once more.
ReadMock ==
  LET changed == Fingerprint(MockSnapshot(Step)) # Fingerprint(Snap)
      faults == pass.faults \cup (IF changed THEN {"changed"} ELSE {})
                  \cup (IF pass.kind = "prepare" /\ Step = 2 /\ Disturbed # {}
                        THEN {"value"} ELSE {})
      clean == pass.faults = {} /\ Plan.unresolved = {}
  IN /\ portal.adapter = "mock" /\ pass.at = "fill" /\ pass.todo = {}
     /\ \/ /\ pass.kind = "commit" /\ changed
           /\ Aborts
        \/ /\ pass.kind = "commit" /\ ~changed /\ ~clean
           /\ Throws
        \/ /\ ~changed /\ clean /\ Step = 1
           /\ page' = IF portal.fixture = "resume-overwrite" THEN [page EXCEPT !["name"] = Other]
                      ELSE page
           /\ Advances([pass EXCEPT !.at = "open"])
        \/ /\ pass.kind = "prepare" /\ (Step = 2 \/ changed \/ ~clean)
           /\ page' = page
           /\ Advances([pass EXCEPT !.at = "done", !.faults = faults])
        \/ /\ pass.kind = "commit" /\ ~changed /\ clean /\ Step = 2
           /\ page' = page
           /\ Advances([pass EXCEPT !.at = "permit"])
     /\ UNCHANGED <<portal, form, approved, revoked, packet, passes>>

\* When the last control has been entered the form is inspected and the plan guarded
\* once more; then each control is read again, one after another.
ReinspectGreenhouse ==
  LET now == GreenhouseSnapshot IN
  /\ portal.adapter = "greenhouse" /\ pass.at = "fill" /\ pass.todo = {}
  /\ IF Fingerprint(now) = Fingerprint(Snap) /\ Supported(now, Plan)
     THEN /\ Advances([pass EXCEPT !.at = "read", !.todo = DOMAIN Plan.entries,
                          !.faults = @ \cup (IF now.blocker = "none" THEN {} ELSE {"changed"})])
          /\ page' = page
     ELSE Aborts
  /\ UNCHANGED <<portal, form, approved, revoked, packet, passes>>

ReadControl(k) ==
  /\ portal.adapter = "greenhouse" /\ pass.at = "read" /\ k \in pass.todo
  /\ Advances([Entered(k) EXCEPT
                 !.faults = @ \cup (IF page[k] = Plan.entries[k] THEN {} ELSE {"value"})])
  /\ UNCHANGED <<portal, form, approved, revoked, packet, page, passes>>

FinishGreenhouse ==
  /\ portal.adapter = "greenhouse" /\ pass.at = "read" /\ pass.todo = {}
  /\ IF pass.kind = "prepare" \/ (pass.faults = {} /\ blocked = 0)
     THEN /\ Advances([pass EXCEPT !.at = IF pass.kind = "prepare" THEN "done" ELSE "permit"])
          /\ page' = page
     ELSE Aborts
  /\ UNCHANGED <<portal, form, approved, revoked, packet, passes>>

ReadHosted ==
  /\ portal.adapter = "hosted" /\ pass.at = "fill" /\ pass.todo = {}
  /\ IF Supported(Snap, Plan)
     THEN Advances([pass EXCEPT !.at = "done"]) /\ page' = page
     ELSE Aborts
  /\ UNCHANGED <<portal, form, approved, revoked, packet, passes>>

----------------------------------------------------------------------------
(* A commit. *)

\* Only a preparation that ended ready, by the same adapter on the same target.
StartCommit ==
  /\ pass.kind = "idle" /\ prepared.status = "ready"
  /\ outcome \in {"none", "aborted"} /\ passes < MaxPasses
  /\ pass' = [NoPass EXCEPT !.kind = "commit"]
  /\ page' = Empty /\ blocked' = 0 /\ passes' = passes + 1
  /\ outcome' = "none"
  /\ UNCHANGED <<portal, form, approved, revoked, packet, prepared, wire>>

\* What the form must still be: the synthetic one shows no challenge either.
SameForm(snap) ==
  /\ Fingerprint(snap) = Fingerprint(prepared.snaps[Step + 1])
  /\ portal.adapter = "mock" => snap.blocker = "none"

\* The synthetic adapter plans anew, the others take the plan that was prepared.
PlanToCommit(snap) ==
  IF portal.adapter = "mock" THEN PlanFields(snap) ELSE prepared.plans[1]

InspectToCommit ==
  LET snap == Snapshot(Step + 1)
      plan == PlanToCommit(snap)
  IN /\ pass.kind = "commit" /\ pass.at = "open"
     /\ IF SameForm(snap) /\ Supported(snap, plan)
        THEN /\ Advances([pass EXCEPT !.snaps = Append(@, snap), !.plans = Append(@, plan),
                                      !.at = IF portal.adapter = "recruitee" THEN "permit"
                                             ELSE "fill",
                                      !.todo = DOMAIN plan.entries])
             /\ page' = page
        ELSE Aborts
     /\ UNCHANGED <<portal, form, approved, revoked, packet, passes>>

\* In the transaction that gives the permit every prepared plan is guarded again.
Authorize ==
  /\ pass.kind = "commit" /\ pass.at = "permit"
  /\ IF \A i \in DOMAIN prepared.plans : Supported(prepared.snaps[i], prepared.plans[i])
     THEN Advances([pass EXCEPT !.at = "click", !.permit = <<approved>>]) /\ page' = page
     ELSE Aborts
  /\ UNCHANGED <<portal, form, approved, revoked, packet, passes>>

\* One write leaves the page, under a permit; the others are answered by the route.
Passes == pass.permit # << >> /\ blocked = 0

Posted(kept) ==
  [values |-> IF portal.adapter = "recruitee" THEN Plan.entries ELSE page,
   plans |-> prepared.plans, permit |-> pass.permit, kept |-> kept, late |-> pass.late]

\* A script of the page posts by itself, to the form's own address or elsewhere.
PageWrites(own) ==
  /\ portal.adapter = "greenhouse" /\ pass.kind # "idle" /\ blocked = 0
  /\ blocked' = 1
  /\ \/ own /\ Passes /\ \E kept \in BOOLEAN : wire' = Append(wire, Posted(kept))
     \/ ~(own /\ Passes) /\ wire' = wire
  /\ UNCHANGED <<portal, form, approved, revoked, packet, pass, page, prepared, outcome, passes>>

\* Faulty: whatever is no success is a refusal.
ConcludedByStatus(answer) == IF answer = "receipt" THEN "confirmed" ELSE "rejected"

\* What an answer means: 422 refuses for certain, a success carries a receipt.
Concluded(answer) ==
  CASE answer = "receipt" -> "confirmed"
    [] answer = "refused" -> "rejected"
    [] answer = "other" -> "unknown"

\* The answers a portal gives to what it kept, or did not.
AnswersTo(kept) ==
  IF portal.fixture = "response-loss" THEN {"other"}
  ELSE {IF kept THEN "receipt" ELSE "refused"}
         \cup (IF portal.adapter = "mock" /\ ~kept THEN {} ELSE {"other"})

Keeps ==
  CASE portal.fixture = "validation-reject" -> {FALSE}
    [] portal.adapter = "mock" -> {TRUE}
    [] OTHER -> BOOLEAN

\* The click that a permit allows, while it lasts, and the answer to it.
Click ==
  /\ pass.at = "click" /\ blocked = 0 /\ portal.fixture # "disabled-submit"
  /\ \E kept \in Keeps :
       /\ wire' = Append(wire, Posted(kept))
       /\ \E answer \in AnswersTo(kept) : outcome' = Concluded(answer)
  /\ pass' = NoPass
  /\ UNCHANGED <<portal, form, approved, revoked, packet, page, blocked, prepared, passes>>

\* The page was faster: the click itself is blocked, and the answer that is read is
\* the one to the first post, or that of the route.
ClickBlocked ==
  /\ pass.at = "click" /\ blocked > 0
  /\ \E answer \in IF wire = << >> THEN {"other"} ELSE AnswersTo(wire[Len(wire)].kept) :
       outcome' = Concluded(answer)
  /\ pass' = NoPass
  /\ UNCHANGED <<portal, form, approved, revoked, packet, page, blocked, prepared, wire, passes>>

\* The browser dies, a wait times out, or the permit is past its ten seconds.
Breaks ==
  /\ pass.kind # "idle"
  /\ Throws
  /\ UNCHANGED <<portal, form, approved, revoked, packet, passes>>

----------------------------------------------------------------------------
\* The questions that any form of this portal puts.
Asked == {q \in Questions : \E i \in DOMAIN portal.forms : \E f \in portal.forms[i].fields :
                               f.key = q}

FormsInit ==
  /\ portal \in Portals /\ form = 1
  /\ approved = [q \in Questions |-> 0] /\ revoked = FALSE
  /\ packet = approved
  /\ pass = NoPass /\ page = Empty /\ blocked = 0
  /\ prepared = None /\ wire = << >> /\ outcome = "none" /\ passes = 0

FormsNext ==
  \/ \E q \in Asked : \E answer \in 0..Limits[q] : Approve(q, answer)
  \/ Revoke \/ Draft \/ Reform
  \/ \E k \in FieldKeys : Overwrite(k) \/ FillMock(k) \/ FillGreenhouse(k) \/ FillHosted(k)
  \/ StartPrepare \/ InspectToPrepare \/ Report
  \/ ImplicitSubmit \/ ReadMock \/ ReadHosted
  \/ ReinspectGreenhouse \/ (\E k \in FieldKeys : ReadControl(k)) \/ FinishGreenhouse
  \/ StartCommit \/ InspectToCommit \/ Authorize
  \/ \E own \in BOOLEAN : PageWrites(own)
  \/ Click \/ ClickBlocked \/ Breaks

FormsSpec == FormsInit /\ [][FormsNext]_formVars

----------------------------------------------------------------------------
FormsTypeOK ==
  /\ portal \in Portals /\ form \in DOMAIN portal.forms
  /\ \A q \in Questions : approved[q] \in 0..Limits[q] /\ packet[q] \in 0..Limits[q]
  /\ pass.kind \in {"idle", "prepare", "commit"}
  /\ pass.at \in {"open", "fill", "read", "done", "permit", "click"}
  /\ Len(pass.plans) = Len(pass.snaps) /\ Len(pass.snaps) <= Steps
  /\ pass.late \subseteq FieldKeys
  /\ \A k \in FieldKeys : page[k] \in {Other, Blank} \cup Nat
  /\ blocked \in 0..1 /\ passes \in 0..MaxPasses
  /\ outcome \in {"none", "unknown", "aborted", "rejected", "confirmed"}

\* A portal is written to once, by a commit that holds a permit: not by a dry run, and
\* not by a page that posts its form itself.  What it receives is what a dry run of the
\* same form found ready, and every answer in it was approved when the permit was given,
\* though the synthetic adapter looks at the first step only once in a commit, and the
\* owner may replace an answer between any two steps of it.  A value that the page put
\* over another until that one was read back is never sent; one that it puts there
\* later, while others are read, before the permit or before the click, is sent as it
\* is: the code does not look again.
SentIsPrepared ==
  /\ Len(wire) <= 1
  /\ \A i \in DOMAIN wire :
       /\ wire[i].permit # << >>
       /\ \A j \in DOMAIN wire[i].plans : \A k \in DOMAIN wire[i].plans[j].entries :
            LET entries == wire[i].plans[j].entries IN
            /\ k \notin wire[i].late => wire[i].values[k] = entries[k]
            /\ k \in Questions => wire[i].permit[1][k] = entries[k]

\* What is given up before dispatch, or was refused, left no application at the
\* portal; what is confirmed did.
OutcomeIsTrue ==
  LET kept == \E i \in DOMAIN wire : wire[i].kept IN
  /\ outcome \in {"aborted", "rejected"} => ~kept
  /\ outcome = "confirmed" => kept
=============================================================================
