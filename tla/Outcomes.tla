------------------------------- MODULE Outcomes -------------------------------
(***************************************************************************)
(* What became of one application: outcome-repository.ts, which the owner, *)
(* a reversal and the mailbox append to, and what is reported of it by     *)
(* cohort-repository.ts and cohort-history.ts.  Mail comes in any order,   *)
(* more than once, and with the clock of another machine.                  *)
(***************************************************************************)
EXTENDS Integers, Sequences, FiniteSets

CONSTANTS
  Mail,          \* messages correlated with the application
  ReceivedAt,    \* when the provider says that each was received
  Classified,    \* what each is classified as
  OwnerKinds,    \* what the owner records
  Windows,       \* first and last day of receipts that a cohort is captured for
  Observation,   \* length of a cohort's observation
  MaxDate,       \* bound on the clock
  MaxHistory     \* bound on the events of the application

VARIABLES
  date,      \* the clock; the application was created at 0
  history,   \* the events of the application, by revision
  noted,    \* for each message, the outcome read in it and when it was stored
  received,  \* when the receipt of the confirmed attempt was observed, or Never
  cohort     \* the one fixed cohort, once it is captured

outcomeVars == <<date, history, noted, received, cohort>>

Never == 0 - 1
NotStored == [kind |-> "none", at |-> Never]
NoCohort == [asOf |-> Never, revision |-> 0, member |-> "none", label |-> "UNKNOWN",
             milestones |-> {}]
Positive == {"SCREENING", "INTERVIEW", "OFFER"}
Kinds == Positive \cup {"RECEIVED", "REJECTION", "WITHDRAWN", "UNKNOWN"}

ASSUME OutcomesAssumption ==
  /\ ReceivedAt \in [Mail -> Int] /\ Classified \in [Mail -> Kinds]
  /\ OwnerKinds \subseteq Kinds
  /\ Observation \in Nat \ {0} /\ {MaxDate, MaxHistory} \subseteq Nat

Revisions == 1 .. Len(history)
Current == history[Len(history)]

----------------------------------------------------------------------------
(* Appending. *)

\* The timeline, and the revision that the caller had read.  A request that comes
\* again is replayed or refused under its identity, and changes nothing.
MayAppend(occurred, expected) ==
  /\ occurred \in 0 .. date
  /\ expected = Len(history)
  /\ Len(history) < MaxHistory

AppendEvent(kind, source, ref, occurred) ==
  /\ history' = Append(history, [kind |-> kind, source |-> source, ref |-> ref,
                                 occurred |-> occurred, recorded |-> date,
                                 previous |-> Len(history)])
  /\ UNCHANGED <<date, received, cohort>>

RecordOwner(kind, occurred, expected) ==
  /\ MayAppend(occurred, expected)
  /\ AppendEvent(kind, "owner", 0, occurred)
  /\ UNCHANGED noted

\* A prior event of the same application is restored, under today's date.
ReverseEvent(target, expected) ==
  /\ target \in Revisions
  /\ MayAppend(date, expected)
  /\ AppendEvent(history[target].kind, "reversal", target, date)
  /\ UNCHANGED noted

----------------------------------------------------------------------------
(* Mail. *)

\* Only a correlated message of an application says anything.
KindOfMail(m, correlated) == IF correlated THEN Classified[m] ELSE "UNKNOWN"

Counted(m) == \E r \in Revisions : history[r].source = "email" /\ history[r].ref = m

\* Faulty: what comes later is newer.
OutrankedByKind(m, kind) ==
  history # << >> /\ (\/ Current.source # "email"
                      \/ kind = "RECEIVED" /\ Current.kind \notin {"UNKNOWN", "RECEIVED"})

\* Mail gives way to the owner, to newer mail, and a receipt to whatever came of it.
Outranked(m, kind) ==
  history # << >> /\ (\/ Current.source # "email"
                      \/ Current.occurred >= ReceivedAt[m]
                      \/ kind = "RECEIVED" /\ Current.kind \notin {"UNKNOWN", "RECEIVED"})

RecordMail(m, kind) ==
  IF /\ kind # "UNKNOWN" /\ ReceivedAt[m] \in 0 .. date
     /\ ~Counted(m) /\ ~Outranked(m, kind)
  THEN AppendEvent(kind, "email", m, ReceivedAt[m])
  ELSE UNCHANGED <<date, history, received, cohort>>

\* A sweep stores a message once, with the correlation of that day; every later one,
\* and the owner's own request, only records it again.
ReadMail(m, correlated) ==
  LET kind == IF noted[m] = NotStored THEN KindOfMail(m, correlated) ELSE noted[m].kind IN
  /\ Len(history) < MaxHistory
  /\ noted' = [noted EXCEPT ![m] = IF @ = NotStored THEN [kind |-> kind, at |-> date] ELSE @]
  /\ RecordMail(m, kind)

----------------------------------------------------------------------------
(* Reports. *)

LastOf(events) == CHOOSE r \in events : \A s \in events : s <= r
LabelOf(events) == IF events = {} THEN "UNKNOWN" ELSE history[LastOf(events)].kind

\* Faulty: what happened by then, whenever it became known.
KnownByOccurrence(h, t) == {r \in DOMAIN h : h[r].occurred <= t}

\* What was recorded, and had happened, at that time.
Known(h, t) == {r \in DOMAIN h : h[r].recorded <= t /\ h[r].occurred <= t}

\* The label that the report of that day gives the application.
Label(h, t) == IF Known(h, t) = {} THEN "UNKNOWN" ELSE h[LastOf(Known(h, t))].kind

\* The history is taken as evidence only whole: its links, its dates in order, and
\* every reversal of an earlier event of the same kind.
Intact ==
  \A r \in Revisions :
    /\ history[r].previous = r - 1
    /\ history[r].occurred \in 0 .. history[r].recorded /\ history[r].recorded <= date
    /\ r > 1 => history[r - 1].recorded <= history[r].recorded
    /\ history[r].source = "reversal" =>
         history[r].ref < r /\ history[history[r].ref].kind = history[r].kind

\* Faulty: a reversal is one more event after those that it takes back.
PrecedingLinear(r, horizon) == history[r].previous

\* What stands before an event: behind a reversal it is the event that it restores.
Preceding(r, horizon) ==
  IF history[r].occurred <= horizon /\ history[r].source = "reversal"
  THEN history[r].ref ELSE history[r].previous

\* The events behind r by the horizon, from the first to r itself.
Branch(horizon) ==
  LET behind[r \in 0 .. Len(history)] ==
        IF r = 0 THEN << >>
        ELSE behind[Preceding(r, horizon)]
               \o (IF history[r].occurred <= horizon THEN <<r>> ELSE << >>)
      last == {r \in Revisions : history[r].occurred <= horizon}
  IN behind[IF last = {} THEN 0 ELSE LastOf(last)]

\* The milestones that a branch observed after its last reset.
Milestones(horizon) ==
  LET branch == Branch(horizon) IN
  {history[branch[i]].kind : i \in
     {j \in DOMAIN branch :
        /\ history[branch[j]].source # "reversal" /\ history[branch[j]].kind \in Positive
        /\ \A k \in j .. Len(branch) : history[branch[k]].kind # "UNKNOWN"}}

\* Why an application is no member of the cohort, or that it is one.
Membership(from, through) ==
  CASE received = Never -> "unverified"
    [] received # Never /\ received \notin from .. through -> "outsideWindow"
    [] received \in from .. through /\ received + Observation > date -> "stillObserving"
    [] OTHER -> "member"

\* The snapshot is frozen under its identity; a history that is not intact fails it.
Capture(from, through) ==
  LET horizon == received + Observation
      member == Membership(from, through)
      events == {r \in Revisions : history[r].occurred <= horizon}
  IN /\ cohort = NoCohort /\ from <= through /\ through <= date
     /\ member = "member" => Intact
     /\ cohort' = [asOf |-> date, revision |-> Len(history), member |-> member,
                   label |-> IF member = "member" THEN LabelOf(events) ELSE "UNKNOWN",
                   milestones |-> IF member = "member" THEN Milestones(horizon) ELSE {}]
     /\ UNCHANGED <<date, history, noted, received>>

----------------------------------------------------------------------------
\* An attempt is confirmed by a receipt observed today.
Confirm ==
  /\ received = Never
  /\ received' = date
  /\ UNCHANGED <<date, history, noted, cohort>>

Pass ==
  /\ date < MaxDate
  /\ date' = date + 1
  /\ UNCHANGED <<history, noted, received, cohort>>

OutcomesInit ==
  /\ date = 0 /\ history = << >> /\ noted = [m \in Mail |-> NotStored]
  /\ received = Never /\ cohort = NoCohort

OutcomesNext ==
  \/ \E expected \in 0 .. MaxHistory :
        \/ \E kind \in OwnerKinds, occurred \in 0 .. MaxDate : RecordOwner(kind, occurred, expected)
        \/ \E target \in 1 .. MaxHistory : ReverseEvent(target, expected)
  \/ \E m \in Mail, correlated \in BOOLEAN : ReadMail(m, correlated)
  \/ \E window \in Windows : Capture(window[1], window[2])
  \/ Confirm \/ Pass

OutcomesSpec == OutcomesInit /\ [][OutcomesNext]_outcomeVars

----------------------------------------------------------------------------
OutcomesTypeOK ==
  /\ date \in 0 .. MaxDate /\ Len(history) <= MaxHistory
  /\ \A r \in Revisions : history[r].kind \in Kinds /\ history[r].source \in {"owner", "email", "reversal"}
  /\ \A m \in Mail : noted[m].kind \in Kinds \cup {"none"} /\ noted[m].at <= date
  /\ received <= date /\ cohort.revision <= Len(history)

\* However mail is delayed, repeated or dated by another clock, it is recorded only on
\* mail that is older, a receipt never on what came of it, and as long as the owner
\* said nothing the application shows the newest of what was read.
NewestIsCurrent ==
  /\ \A r \in Revisions : history[r].source = "email" =>
       \A s \in 1 .. r - 1 :
         /\ history[s].source = "email" /\ history[s].occurred < history[r].occurred
         /\ history[r].kind = "RECEIVED" => history[s].kind = "RECEIVED"
  /\ \A m \in Mail :
       (/\ noted[m].kind \notin {"none", "UNKNOWN"} /\ ReceivedAt[m] \in 0 .. noted[m].at
        /\ \A r \in Revisions : history[r].source = "email")
       => /\ history # << >>
          /\ \/ ReceivedAt[m] <= Current.occurred
             \/ noted[m].kind = "RECEIVED" /\ Current.kind # "RECEIVED"

\* The report of a past day stays what it was: neither a correction that the owner
\* dates back nor mail that comes late rewrites what was known then.
ReportStands ==
  [][\A t \in 0 .. MaxDate : t < date => Label(history', t) = Label(history, t)]_outcomeVars

\* The milestones that hold after an event, told from the first one on: a reset leaves
\* none, a reversal those that held after the event it restores, another adds its own.
Holding(horizon) ==
  LET held[r \in 0 .. Len(history)] ==
        IF r = 0 THEN {}
        ELSE CASE history[r].occurred > horizon -> held[r - 1]
               [] history[r].occurred <= horizon /\ history[r].source = "reversal" ->
                    held[history[r].ref]
               [] /\ history[r].occurred <= horizon /\ history[r].source # "reversal"
                  /\ history[r].kind = "UNKNOWN" -> {}
               [] OTHER -> held[r - 1] \cup ({history[r].kind} \cap Positive)
  IN held

\* Every history that owner, reversals and mail can write is one that a capture takes
\* as evidence, and the milestones frozen in it are those that the corrections leave.
CapturesCorrected ==
  /\ Intact
  /\ cohort.member = "member" =>
       cohort.milestones = Holding(received + Observation)[cohort.revision]
=============================================================================
