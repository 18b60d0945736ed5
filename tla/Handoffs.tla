------------------------------- MODULE Handoffs -------------------------------
(***************************************************************************)
(* A challenge on an employer's form is handed to the owner in a visible   *)
(* browser: packages/persistence/src/handoff-repository.ts (sessions),     *)
(* packages/browser/src/handoff-broker.ts (the browsers, in the memory of  *)
(* the API), apps/api/src/handoff.ts, and what exceptions, inspections and *)
(* submissions of the one application of this module do with a session.    *)
(*                                                                         *)
(* Times are readings of one clock.  A session is claimed for HandoffLease *)
(* and lives for HandoffTtl, a challenged form can be handed over for      *)
(* ChallengeTtl, and a ready form can be submitted for FormAge.            *)
(***************************************************************************)
EXTENDS Integers, FiniteSets

CONSTANTS HandoffTtl, HandoffLease, ChallengeTtl, FormAge,
          MaxTime, MaxSessions, MaxForms      \* bounds

ASSUME HandoffsAssumption ==
  /\ {HandoffTtl, HandoffLease, ChallengeTtl, FormAge} \subseteq Nat \ {0}
  /\ {MaxTime, MaxSessions, MaxForms} \subseteq Nat \ {0}

VARIABLES
  clock,       \* this.clock()
  stage,       \* applications.state
  forms,       \* browser_preparations of the application, oldest first
  sessions,    \* handoff_sessions with their continuations, oldest first
  inspections, \* sessions whose form is to be inspected, 0 for a fresh packet
  inspecting,  \* the worker's inspection
  browsers,    \* VisibleHandoffBroker.active
  calls,       \* open and complete requests between two of their awaits
  attempt      \* the final action

handoffVars == <<clock, stage, forms, sessions, inspections, inspecting, browsers,
                 calls, attempt>>

SessionIds == 1 .. Cardinality(DOMAIN sessions)
Active == {"open", "claimed", "rebuilding"}
ActiveSessions == {s \in SessionIds : sessions[s].state \in Active}
Latest == Cardinality(DOMAIN forms)
Idle == -1
NoAttempt == [form |-> 0, handoff |-> 0, sent |-> FALSE]

Earlier(x, y) == IF x < y THEN x ELSE y

\* A write to the application raises its revision: an inspection that has read it
\* before writes nothing any more.
Move(state) == stage' = state /\ inspecting' = Idle

\* The sessions that are active are cancelled with the generation raised.
CancelActive ==
  sessions' = [s \in SessionIds |->
    IF s \in ActiveSessions
    THEN [sessions[s] EXCEPT !.state = "cancelled", !.generation = @ + 1,
                             !.leaseUntil = 0, !.completedAt = clock]
    ELSE sessions[s]]

RetireForms == forms' = [p \in DOMAIN forms |-> [forms[p] EXCEPT !.resolved = TRUE]]

-----------------------------------------------------------------------------
(* The owner's API                                                          *)

Expired(s) == s \in ActiveSessions /\ sessions[s].expires <= clock

WithExpired ==
  [s \in SessionIds |->
    IF Expired(s) THEN [sessions[s] EXCEPT !.state = "expired", !.leaseUntil = 0]
    ELSE sessions[s]]

\* create, and open_session of the inbox, which offers it for the newest
\* challenge that is not resolved.
CreateIn(p) ==
  /\ stage = "CHALLENGE_REQUIRED"
  /\ forms[p].status = "challenge" /\ ~forms[p].resolved /\ clock < forms[p].expires
  /\ ActiveSessions \subseteq {s \in SessionIds : Expired(s)}
  /\ Cardinality(SessionIds) < MaxSessions
  /\ sessions' = [s \in SessionIds \cup {Cardinality(SessionIds) + 1} |->
       IF s \in SessionIds THEN WithExpired[s]
       ELSE [ state |-> "open", generation |-> 1, leaseUntil |-> 0,
              expires |-> Earlier(clock + HandoffTtl, forms[p].expires),
              completedAt |-> 0, form |-> p, continuation |-> 0 ]]
  /\ UNCHANGED <<clock, stage, forms, inspections, inspecting, browsers, calls, attempt>>

SnapshotSessions ==
  /\ \E s \in SessionIds : Expired(s)
  /\ sessions' = WithExpired
  /\ UNCHANGED <<clock, stage, forms, inspections, inspecting, browsers, calls, attempt>>

\* claimHandoff: the token was returned once, and is good while it is open.
ClaimHandoff(s) ==
  /\ sessions[s].state = "open" /\ clock < sessions[s].expires
  /\ LET until == Earlier(clock + HandoffLease, sessions[s].expires) IN
     /\ sessions' = [sessions EXCEPT ![s].state = "claimed", ![s].leaseUntil = until]
     /\ calls' = calls \cup
          {[does |-> "open", id |-> s, generation |-> sessions[s].generation,
            until |-> until]}
  /\ UNCHANGED <<clock, stage, forms, inspections, inspecting, browsers,
                 attempt>>

OpenBrowser(call) ==
  /\ call.does = "open" /\ clock < call.until
  /\ browsers' = browsers \cup
       {[id |-> call.id, generation |-> call.generation, deadline |-> call.until,
         cleared |-> FALSE, blocked |-> FALSE]}
  /\ calls' = calls \ {call}
  /\ UNCHANGED <<clock, stage, forms, sessions, inspections, inspecting,
                 attempt>>

\* The browser did not open: cancelClaim, if the claim is still held.
FailToOpen(call) ==
  LET s == call.id IN
  /\ call.does = "open"
  /\ sessions' =
       IF sessions[s].state = "claimed" /\ sessions[s].generation = call.generation
       THEN [sessions EXCEPT ![s].state = "cancelled", ![s].leaseUntil = 0,
                             ![s].generation = @ + 1]
       ELSE sessions
  /\ calls' = calls \ {call}
  /\ UNCHANGED <<clock, stage, forms, inspections, inspecting, browsers,
                 attempt>>

\* A request of the owner's page: a write or not, of a document or not.
Requests ==
  [ origin : {"portal", "widget", "other"}, write : BOOLEAN, document : BOOLEAN,
    path : {"page", "final", "challenge", "elsewhere"} ]

\* classifyHandoffRequest: a write that is not of the challenge may be the final
\* action, wherever it goes on the portal.
Verdict(r) ==
  IF r.origin # "portal"
  THEN IF r.origin = "widget" /\ ~r.write /\ ~r.document THEN "allow" ELSE "block_offsite"
  ELSE IF r.path = "final" \/ (r.write /\ r.path # "challenge") THEN "block_final_action"
  ELSE IF r.document /\ r.path # "page" THEN "block_offsite" ELSE "allow"

\* The browser's route handler: what is not allowed is not sent.
HumanRequest(b, r) ==
  /\ \/ Verdict(r) = "block_final_action"
     \/ Verdict(r) = "allow" /\ r.path = "challenge" /\ r.write
  /\ browsers' = (browsers \ {b}) \cup
       {IF Verdict(r) = "allow" THEN [b EXCEPT !.cleared = TRUE]
                                ELSE [b EXCEPT !.blocked = TRUE]}
  /\ UNCHANGED <<clock, stage, forms, sessions, inspections, inspecting, calls, attempt>>

\* verify: the challenge is gone, the form is still there, and no final action
\* was attempted in the owner's browser.
Verify(b) ==
  /\ clock < b.deadline /\ b.cleared /\ ~b.blocked
  /\ calls' = calls \cup
       {[does |-> "complete", id |-> b.id, generation |-> b.generation, until |-> 0]}
  /\ UNCHANGED <<clock, stage, forms, sessions, inspections, inspecting, browsers,
                 attempt>>

\* The claim is held as it was when the browser was verified.
Holds(call) ==
  LET s == sessions[call.id] IN
  /\ s.state = "claimed" /\ s.generation = call.generation
  /\ clock < s.leaseUntil /\ clock < s.expires

CompleteHandoff(call) ==
  LET s == call.id IN
  /\ call.does = "complete"
  /\ IF Holds(call) /\ stage = "CHALLENGE_REQUIRED" /\ attempt = NoAttempt
     THEN /\ sessions' = [sessions EXCEPT
               ![s].state = "rebuilding", ![s].generation = @ + 1, ![s].leaseUntil = 0,
               ![s].completedAt = clock, ![s].continuation = sessions[s].generation + 1]
          /\ forms' = [forms EXCEPT ![sessions[s].form].resolved = TRUE]
          /\ inspections' = inspections \cup {s}
     ELSE UNCHANGED <<sessions, forms, inspections>>
  /\ calls' = calls \ {call}
  /\ browsers' = {b \in browsers : b.id # s}
  /\ UNCHANGED <<clock, stage, inspecting, attempt>>

\* The expiry timer of a browser.
CloseExpired(b) ==
  /\ b.deadline <= clock
  /\ browsers' = browsers \ {b}
  /\ UNCHANGED <<clock, stage, forms, sessions, inspections, inspecting, calls, attempt>>

\* The API stops: its browsers and its requests are gone, the rows are not.
ApiStops ==
  /\ browsers \cup calls # {}
  /\ browsers' = {} /\ calls' = {}
  /\ UNCHANGED <<clock, stage, forms, sessions, inspections, inspecting,
                 attempt>>

\* retry, or an answer: resumeIn.  Its prepare task saves a packet of the active
\* profile, which is inspected without a handoff.
ResumeIn ==
  /\ stage \in {"CHALLENGE_REQUIRED", "NEEDS_INPUT"} /\ attempt = NoAttempt
  /\ CancelActive /\ RetireForms /\ Move("PREPARING")
  /\ inspections' = {}
  /\ UNCHANGED <<clock, browsers, calls, attempt>>

SavePacket ==
  /\ stage = "PREPARING"
  /\ Move("PREPARED")
  /\ inspections' = inspections \cup {0}
  /\ UNCHANGED <<clock, forms, sessions, browsers, calls, attempt>>

\* rebuild: inspections that are queued are left to fail.
RebuildForm ==
  /\ stage \in {"CHALLENGE_REQUIRED", "NEEDS_INPUT"} /\ attempt = NoAttempt
  /\ CancelActive /\ RetireForms /\ Move("INSPECTING")
  /\ inspections' = inspections \cup {0}
  /\ UNCHANGED <<clock, browsers, calls, attempt>>

-----------------------------------------------------------------------------
(* The worker                                                               *)

\* continuation: what the owner's browser held may be used.
Continuation(s) ==
  /\ sessions[s].state \in {"rebuilding", "completed"}
  /\ sessions[s].continuation = sessions[s].generation
  /\ clock < sessions[s].expires

StartInspection(s) ==
  /\ inspecting = Idle /\ attempt = NoAttempt
  /\ s # 0 => Continuation(s)
  /\ inspecting' = s
  /\ UNCHANGED <<clock, stage, forms, sessions, inspections, browsers, calls, attempt>>

\* The worker dies in an inspection, or one that fails has no tries left.
DropInspecting ==
  /\ inspecting # Idle /\ inspecting' = Idle
  /\ UNCHANGED <<clock, stage, forms, sessions, inspections, browsers, calls, attempt>>

BuryInspection(s) ==
  /\ inspecting # s /\ inspections' = inspections \ {s}
  /\ UNCHANGED <<clock, stage, forms, sessions, inspecting, browsers, calls, attempt>>

\* save, for the inspection that follows a handoff.
Rebuilt(s) ==
  /\ sessions[s].state = "rebuilding"
  /\ sessions[s].generation = sessions[s].continuation
  /\ clock < sessions[s].expires /\ sessions[s].completedAt < clock

\* The task is completed after the form is saved, unless the worker dies.
SaveForm(status) ==
  LET s == inspecting IN
  /\ inspecting # Idle /\ attempt = NoAttempt
  /\ stage \in {"PREPARED", "INSPECTING", "CHALLENGE_REQUIRED", "NEEDS_INPUT", "READY"}
  /\ s # 0 => Rebuilt(s)
  /\ Latest < MaxForms
  /\ stage' = CASE status = "ready" -> "READY"
                [] status = "challenge" -> "CHALLENGE_REQUIRED"
                [] OTHER -> "NEEDS_INPUT"
  /\ sessions' = IF s # 0 THEN [sessions EXCEPT ![s].state = "completed"] ELSE sessions
  /\ forms' = [p \in 1 .. Latest + 1 |->
       IF p \in DOMAIN forms THEN forms[p]
       ELSE [status |-> status, created |-> clock,
             expires |-> clock + ChallengeTtl, resolved |-> FALSE, handoff |-> s]]
  /\ inspecting' = Idle
  /\ \/ UNCHANGED inspections
     \/ inspections' = inspections \ {s}
  /\ UNCHANGED <<clock, browsers, calls, attempt>>

\* Faulty: only a session that the owner has completed counts.
SettledExpired(s) == sessions[s].expires <= clock

\* A session that is over, as begin asks.
Settled(s) == sessions[s].completedAt # 0 \/ sessions[s].expires <= clock

\* The newest of them, and when it ended.
Boundary ==
  LET over == {s \in SessionIds : Settled(s)}
      last == CHOOSE s \in over : \A r \in over : r <= s
  IN IF over = {} THEN 0
     ELSE IF sessions[last].completedAt # 0 THEN sessions[last].completedAt
     ELSE sessions[last].expires

\* begin, by the submit task of the newest form.
BeginAttempt ==
  /\ stage = "READY" /\ attempt = NoAttempt
  /\ \A s \in ActiveSessions : Expired(s)
  /\ forms[Latest].status = "ready" /\ Boundary < forms[Latest].created
  /\ clock - forms[Latest].created <= FormAge
  /\ forms[Latest].handoff # 0 => Continuation(forms[Latest].handoff)
  /\ attempt' = [form |-> Latest, handoff |-> forms[Latest].handoff, sent |-> FALSE]
  /\ Move("IN_FLIGHT")
  /\ UNCHANGED <<clock, forms, sessions, inspections, browsers, calls>>

\* authorizeDispatch asks for the continuation once more.
Dispatch ==
  /\ attempt # NoAttempt /\ ~attempt.sent
  /\ LET s == attempt.handoff IN
     s # 0 => /\ sessions[s].state = "completed" /\ clock < sessions[s].expires
              /\ sessions[s].continuation = sessions[s].generation
  /\ attempt' = [attempt EXCEPT !.sent = TRUE]
  /\ UNCHANGED <<clock, stage, forms, sessions, inspections, inspecting, browsers,
                 calls>>

PassTime ==
  /\ clock < MaxTime /\ clock' = clock + 1
  /\ UNCHANGED <<stage, forms, sessions, inspections, inspecting, browsers, calls, attempt>>

-----------------------------------------------------------------------------
HandoffInit ==
  /\ clock = 1 /\ stage = "PREPARED"
  /\ forms = << >> /\ sessions = << >>
  /\ inspections = {0} /\ inspecting = Idle
  /\ browsers = {} /\ calls = {} /\ attempt = NoAttempt

HandoffNext ==
  \/ \E p \in DOMAIN forms : CreateIn(p)
  \/ SnapshotSessions
  \/ \E s \in SessionIds : ClaimHandoff(s)
  \/ \E call \in calls : OpenBrowser(call) \/ FailToOpen(call) \/ CompleteHandoff(call)
  \/ \E b \in browsers :
       Verify(b) \/ CloseExpired(b) \/ \E r \in Requests : HumanRequest(b, r)
  \/ ApiStops \/ ResumeIn \/ SavePacket \/ RebuildForm
  \/ \E s \in inspections : StartInspection(s) \/ BuryInspection(s)
  \/ DropInspecting
  \/ \E status \in {"ready", "challenge", "needs_input"} : SaveForm(status)
  \/ BeginAttempt \/ Dispatch \/ PassTime

HandoffSpec == HandoffInit /\ [][HandoffNext]_handoffVars

-----------------------------------------------------------------------------
(* Properties                                                               *)

HandoffsTypeOK ==
  /\ clock \in 1 .. MaxTime
  /\ \A s \in SessionIds :
       /\ sessions[s].state \in Active \cup {"completed", "cancelled", "expired"}
       /\ (sessions[s].leaseUntil # 0) <=> (sessions[s].state = "claimed")
       /\ sessions[s].form \in DOMAIN forms
  /\ inspections \subseteq {0} \cup SessionIds
  /\ attempt.form \in {0} \cup DOMAIN forms

\* A form inspected before the owner dealt with its challenge is never what is
\* submitted, however sessions were opened, claimed, lost, completed twice,
\* cancelled or left to expire in between.
SubmittedFormIsCurrent ==
  attempt # NoAttempt =>
    \A s \in SessionIds :
      /\ sessions[s].completedAt < forms[attempt.form].created
      /\ sessions[s].state \in Active => sessions[s].expires <= clock
=============================================================================
