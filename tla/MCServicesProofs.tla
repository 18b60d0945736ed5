-------------------------- MODULE MCServicesProofs ---------------------------
(***************************************************************************)
(* What is proved of the components that live on mail and on what the      *)
(* owner says became of an application, each for every value of its        *)
(* constants, and of all the components of MCServices: their types.        *)
(***************************************************************************)
EXTENDS MCServices, ServicesProofs, HandoffsProofs

-----------------------------------------------------------------------------
(* Outcomes: what mail says of an application, and reports of a past day    *)

Event ==
  [kind : Kinds, source : {"owner", "email", "reversal"}, ref : Nat \cup Mail,
   occurred : Nat, recorded : Nat, previous : Nat]

\* No event is dated or was recorded after today.
HistoryTyped ==
  /\ date \in Nat /\ history \in Seq(Event)
  /\ \A r \in Revisions : history[r].occurred <= date /\ history[r].recorded <= date

NotedTyped ==
  /\ noted \in [Mail -> [kind : Kinds \cup {"none"}, at : Int]]
  /\ \A m \in Mail : /\ noted[m].at <= date
                     /\ noted[m].kind = "none" => noted[m] = NotStored

\* What an e-mail is the source of, it says, and happened when it was received.
MailQuoted ==
  \A r \in Revisions : history[r].source = "email" =>
    /\ history[r].kind # "UNKNOWN" /\ history[r].ref \in Mail
    /\ history[r].occurred = ReceivedAt[history[r].ref]

OutcomesInv == HistoryTyped /\ NotedTyped /\ MailQuoted /\ NewestIsCurrent

LEMMA Appended ==
  ASSUME HistoryTyped, NEW e, history' = Append(history, e)
  PROVE  /\ Len(history') = Len(history) + 1 /\ Len(history) \in Nat
         /\ \A r \in Revisions : r \in Revisions' /\ history'[r] = history[r]
         /\ history'[Len(history) + 1] = e /\ Current' = e
         /\ \A r \in Revisions' : r \in Revisions \/ r = Len(history) + 1
  BY DEF HistoryTyped, Revisions, Current

LEMMA EventTyped ==
  ASSUME HistoryTyped, NEW r \in Revisions
  PROVE  /\ history[r].occurred \in Nat /\ history[r].recorded \in Nat
         /\ history[r].kind \in Kinds
<1>1. history[r] \in Event
  BY DEF HistoryTyped, Revisions
<1> QED
  BY <1>1 DEF Event

LEMMA OutcomesInitially == OutcomesInit => OutcomesInv
  BY DEF OutcomesInit, OutcomesInv, HistoryTyped, NotedTyped, MailQuoted, NewestIsCurrent,
         NotStored, Never, Revisions

\* What the owner writes, in person or as a reversal, silences what mail says.
LEMMA OwnerWrites ==
  ASSUME OutcomesInv, NEW e \in Event, e.source # "email", UNCHANGED <<date, noted>>,
         e.occurred <= date, e.recorded <= date, history' = Append(history, e)
  PROVE  OutcomesInv'
<1>1. HistoryTyped /\ NotedTyped /\ MailQuoted /\ NewestIsCurrent
  BY DEF OutcomesInv
<1>2. HistoryTyped'
  <2>1. /\ history'[Len(history) + 1] = e
        /\ \A r \in Revisions : history'[r] = history[r]
        /\ \A r \in Revisions' : r \in Revisions \/ r = Len(history) + 1
    BY <1>1, Appended
  <2>2. history' \in Seq(Event) /\ date' = date /\ date \in Nat
    BY <1>1 DEF HistoryTyped
  <2>3. ASSUME NEW r \in Revisions'
        PROVE  history'[r].occurred <= date' /\ history'[r].recorded <= date'
    BY <1>1, <2>1, <2>2, <2>3 DEF HistoryTyped
  <2> QED
    BY <2>2, <2>3 DEF HistoryTyped
<1>3. NotedTyped'
  BY <1>1 DEF NotedTyped
<1>4. MailQuoted'
  <2>1. /\ \A r \in Revisions : r \in Revisions' /\ history'[r] = history[r]
        /\ history'[Len(history) + 1] = e
        /\ \A r \in Revisions' : r \in Revisions \/ r = Len(history) + 1
    BY <1>1, Appended
  <2> QED
    BY <1>1, <2>1 DEF MailQuoted
<1>5. NewestIsCurrent'
  BY <1>1, Appended DEF NewestIsCurrent, Revisions
<1> QED
  BY <1>2, <1>3, <1>4, <1>5 DEF OutcomesInv

\* A message that is recorded is newer than all before it.
LEMMA MailWrites ==
  ASSUME OutcomesInv, NEW m \in Mail, NEW kind \in Kinds, kind # "UNKNOWN",
         ReceivedAt[m] \in 0 .. date, ~Outranked(m, kind), AppendEvent(kind, "email", m, ReceivedAt[m])
  PROVE  /\ HistoryTyped' /\ MailQuoted'
         /\ \A r \in Revisions : /\ history[r].source = "email"
                                 /\ history[r].occurred < ReceivedAt[m]
                                 /\ kind = "RECEIVED" => history[r].kind = "RECEIVED"
<1> DEFINE e == [kind |-> kind, source |-> "email", ref |-> m, occurred |-> ReceivedAt[m],
                 recorded |-> date, previous |-> Len(history)]
<1>1. HistoryTyped /\ NotedTyped /\ MailQuoted /\ NewestIsCurrent
  BY DEF OutcomesInv
<1>2. history' = Append(history, e) /\ date' = date
  BY DEF AppendEvent
<1>3. e \in Event /\ e.occurred <= date /\ e.recorded <= date
  BY <1>1 DEF Event, HistoryTyped
<1>7. /\ e.kind = kind /\ e.ref = m /\ e.occurred = ReceivedAt[m]
      /\ date \in Nat /\ ReceivedAt[m] \in Int
  BY <1>1 DEF HistoryTyped
<1> HIDE DEF e
<1>4. HistoryTyped'
  BY <1>1, <1>2, <1>3, Appended DEF HistoryTyped, Revisions
<1>5. MailQuoted'
  <2>1. /\ \A r \in Revisions : r \in Revisions' /\ history'[r] = history[r]
        /\ history'[Len(history) + 1] = e
        /\ \A r \in Revisions' : r \in Revisions \/ r = Len(history) + 1
    BY <1>1, <1>2, Appended
  <2> QED
    BY <1>1, <1>7, <2>1 DEF MailQuoted
<1>6. ASSUME NEW r \in Revisions
      PROVE  /\ history[r].source = "email" /\ history[r].occurred < ReceivedAt[m]
             /\ kind = "RECEIVED" => history[r].kind = "RECEIVED"
  <2>1. Len(history) \in Nat /\ Len(history) \in Revisions /\ r \in 1 .. Len(history)
    BY <1>1 DEF HistoryTyped, Revisions
  <2>2. /\ Current.source = "email" /\ Current.occurred < ReceivedAt[m]
        /\ kind = "RECEIVED" => Current.kind \in {"UNKNOWN", "RECEIVED"}
    <3>1. history # << >> /\ Current.occurred \in Int /\ ReceivedAt[m] \in Int
      BY <1>1, <1>7, <2>1, EventTyped DEF Current
    <3> QED
      BY <3>1 DEF Outranked
  <2>3. kind = "RECEIVED" => Current.kind = "RECEIVED"
    BY <1>1, <2>1, <2>2 DEF MailQuoted, Current
  <2>4. history[r].occurred \in Int /\ Current.occurred \in Int /\ ReceivedAt[m] \in Int
    BY <1>1, <1>7, <2>1, EventTyped DEF Current
  <2> QED
    BY <1>1, <2>1, <2>2, <2>3, <2>4 DEF NewestIsCurrent, Current, Revisions
<1> QED
  BY <1>4, <1>5, <1>6

LEMMA MailIsNewest ==
  ASSUME OutcomesInv, NEW m \in Mail, NEW correlated \in BOOLEAN, ReadMail(m, correlated)
  PROVE  OutcomesInv'
<1> DEFINE kind == IF noted[m] = NotStored THEN KindOfMail(m, correlated) ELSE noted[m].kind
           note == IF noted[m] = NotStored THEN [kind |-> kind, at |-> date] ELSE noted[m]
<1>1. HistoryTyped /\ NotedTyped /\ MailQuoted /\ NewestIsCurrent
  BY DEF OutcomesInv
<1>2. noted' = [noted EXCEPT ![m] = note] /\ RecordMail(m, kind)
  BY DEF ReadMail
<1>3. kind \in Kinds /\ kind # "none" /\ note.kind = kind
  <2>1. Classified[m] \in Kinds /\ "UNKNOWN" \in Kinds /\ "none" \notin Kinds
    <3>1. Classified[m] \in Kinds
      BY OutcomesAssumption
    <3>2. "UNKNOWN" \in Kinds /\ "none" \notin Kinds
      BY DEF Kinds, Positive
    <3> QED
      BY <3>1, <3>2
  <2>2. noted[m].kind \in Kinds \cup {"none"} /\ (noted[m].kind = "none" => noted[m] = NotStored)
    BY <1>1 DEF NotedTyped
  <2>3. CASE noted[m] = NotStored
    <3>1. KindOfMail(m, correlated) \in Kinds
      BY <2>1 DEF KindOfMail
    <3> QED
      BY <2>1, <2>3, <3>1
  <2>4. CASE noted[m] # NotStored
    BY <2>1, <2>2, <2>4
  <2> QED
    BY <2>3, <2>4
<1>4. /\ note \in [kind : Kinds \cup {"none"}, at : Int] /\ note.at <= date
      /\ note.kind # "none"
  <2>1. noted[m] \in [kind : Kinds \cup {"none"}, at : Int] /\ noted[m].at <= date /\ date \in Nat
    BY <1>1 DEF NotedTyped, HistoryTyped
  <2>2. note.kind # "none"
    BY <1>3
  <2>3. note = [kind |-> kind, at |-> date] \/ note = noted[m]
    OBVIOUS
  <2> HIDE DEF kind, note
  <2> QED
    BY <1>3, <2>1, <2>2, <2>3
<1>5. date' = date /\ date \in Nat /\ ReceivedAt[m] \in Int
  BY <1>1, <1>2, OutcomesAssumption DEF RecordMail, AppendEvent, HistoryTyped
<1> HIDE DEF kind, note
<1>6. NotedTyped' /\ noted'[m] = note /\ \A n \in Mail \ {m} : noted'[n] = noted[n]
  BY <1>1, <1>2, <1>4, <1>5 DEF NotedTyped
<1>7. CASE UNCHANGED history
  <2>1. HistoryTyped' /\ MailQuoted'
    BY <1>1, <1>5, <1>7 DEF HistoryTyped, MailQuoted, Revisions
  <2>2. ASSUME kind \notin {"none", "UNKNOWN"}, ReceivedAt[m] \in 0 .. note.at,
               \A r \in Revisions : history[r].source = "email"
        PROVE  /\ history # << >>
               /\ \/ ReceivedAt[m] <= Current.occurred
                  \/ kind = "RECEIVED" /\ Current.kind # "RECEIVED"
    <3>1. Counted(m) \/ Outranked(m, kind)
      <4>1. ReceivedAt[m] \in 0 .. date
        BY <1>4, <1>5, <2>2
      <4>2. ~AppendEvent(kind, "email", m, ReceivedAt[m])
        BY <1>1, <1>7, Appended DEF AppendEvent
      <4> QED
        BY <1>2, <2>2, <4>1, <4>2 DEF RecordMail
    <3>2. CASE Counted(m)
      <4>1. PICK r \in Revisions : history[r].source = "email" /\ history[r].ref = m
        BY <3>2 DEF Counted
      <4>2. Len(history) \in Nat /\ Len(history) \in Revisions /\ r \in 1 .. Len(history)
        BY <1>1, <4>1 DEF HistoryTyped, Revisions
      <4>3. history[r].occurred = ReceivedAt[m] /\ history # << >>
        BY <1>1, <4>1, <4>2 DEF MailQuoted, Revisions
      <4>4. r = Len(history) \/ history[r].occurred < Current.occurred
        BY <1>1, <2>2, <4>2 DEF NewestIsCurrent, Current
      <4>5. ReceivedAt[m] <= Current.occurred
        BY <1>1, <1>5, <4>2, <4>3, <4>4, EventTyped DEF Current
      <4> QED
        BY <4>3, <4>5
    <3>3. CASE Outranked(m, kind)
      <4>1. history # << >> /\ Len(history) \in Revisions
        BY <1>1, <3>3 DEF Outranked, HistoryTyped, Revisions
      <4>2. Current.source = "email" /\ Current.occurred \in Int
        BY <1>1, <2>2, <4>1, EventTyped DEF Current
      <4> QED
        BY <1>5, <3>3, <4>1, <4>2 DEF Outranked
    <3> QED
      BY <3>1, <3>2, <3>3
  <2>3. NewestIsCurrent'
    BY <1>1, <1>3, <1>6, <1>7, <2>2 DEF NewestIsCurrent, Revisions, Current
  <2> QED
    BY <1>6, <2>1, <2>3 DEF OutcomesInv
<1>8. CASE history' # history
  <2>1. /\ kind \in Kinds /\ kind # "UNKNOWN" /\ ReceivedAt[m] \in 0 .. date
        /\ ~Outranked(m, kind) /\ AppendEvent(kind, "email", m, ReceivedAt[m])
    BY <1>2, <1>3, <1>8 DEF RecordMail
  <2>2. /\ HistoryTyped' /\ MailQuoted'
        /\ \A r \in Revisions : /\ history[r].source = "email"
                                /\ history[r].occurred < ReceivedAt[m]
                                /\ kind = "RECEIVED" => history[r].kind = "RECEIVED"
    BY <2>1, MailWrites
  <2> DEFINE e == [kind |-> kind, source |-> "email", ref |-> m, occurred |-> ReceivedAt[m],
                   recorded |-> date, previous |-> Len(history)]
  <2>3. history' = Append(history, e) /\ e.source = "email" /\ e.kind = kind
        /\ e.occurred = ReceivedAt[m]
    BY <2>1 DEF AppendEvent
  <2> HIDE DEF e
  <2>4. /\ Len(history') = Len(history) + 1 /\ Len(history) \in Nat
        /\ \A r \in Revisions : r \in Revisions' /\ history'[r] = history[r]
        /\ history'[Len(history) + 1] = e /\ Current' = e
        /\ \A r \in Revisions' : r \in Revisions \/ r = Len(history) + 1
    BY <1>1, <2>3, Appended
  <2>5. \A r \in Revisions' : history'[r].source = "email" =>
          \A s \in 1 .. r - 1 :
            /\ history'[s].source = "email" /\ history'[s].occurred < history'[r].occurred
            /\ history'[r].kind = "RECEIVED" => history'[s].kind = "RECEIVED"
    <3>1. ASSUME NEW r \in Revisions', history'[r].source = "email", NEW s \in 1 .. r - 1
          PROVE  /\ history'[s].source = "email" /\ history'[s].occurred < history'[r].occurred
                 /\ history'[r].kind = "RECEIVED" => history'[s].kind = "RECEIVED"
      <4>1. s \in Revisions /\ history'[s] = history[s]
        BY <2>4, <3>1 DEF Revisions
      <4>2. CASE r \in Revisions
        BY <1>1, <2>4, <3>1, <4>1, <4>2 DEF NewestIsCurrent
      <4>3. CASE r = Len(history) + 1
        BY <2>2, <2>3, <2>4, <4>1, <4>3
      <4> QED
        BY <2>4, <3>1, <4>2, <4>3
    <3> QED
      BY <3>1
  <2>6. ASSUME NEW n \in Mail, noted'[n].kind \notin {"none", "UNKNOWN"},
               ReceivedAt[n] \in 0 .. noted'[n].at,
               \A r \in Revisions' : history'[r].source = "email"
        PROVE  /\ history' # << >>
               /\ \/ ReceivedAt[n] <= Current'.occurred
                  \/ noted'[n].kind = "RECEIVED" /\ Current'.kind # "RECEIVED"
    <3>1. history' # << >>
      BY <2>4 DEF HistoryTyped
    <3>2. CASE n = m
      BY <1>5, <2>3, <2>4, <3>1, <3>2
    <3>3. CASE n # m
      <4>1. /\ history # << >>
            /\ \/ ReceivedAt[n] <= Current.occurred
               \/ noted[n].kind = "RECEIVED" /\ Current.kind # "RECEIVED"
        BY <1>1, <1>6, <2>4, <2>6, <3>3 DEF NewestIsCurrent
      <4>2. Len(history) \in Revisions
        BY <1>1, <4>1 DEF HistoryTyped, Revisions
      <4>3. /\ Current.occurred < ReceivedAt[m] /\ Current.occurred \in Int
            /\ kind = "RECEIVED" => Current.kind = "RECEIVED"
        BY <1>1, <2>2, <4>2, EventTyped DEF Current
      <4>4. ReceivedAt[n] \in Int /\ noted'[n] = noted[n]
        BY <1>6, <2>6, <3>3
      <4> QED
        BY <1>5, <2>3, <2>4, <3>1, <4>1, <4>3, <4>4
    <3> QED
      BY <3>2, <3>3
  <2>7. NewestIsCurrent'
    BY <2>5, <2>6 DEF NewestIsCurrent
  <2> QED
    BY <1>6, <2>2, <2>7 DEF OutcomesInv
<1> QED
  BY <1>7, <1>8

LEMMA OutcomesStep ==
  ASSUME OutcomesInv, [OutcomesNext]_outcomeVars
  PROVE  OutcomesInv'
<1>1. HistoryTyped /\ NotedTyped /\ MailQuoted /\ NewestIsCurrent
  BY DEF OutcomesInv
<1>2. ASSUME UNCHANGED <<history, noted>>, date' \in Nat, date <= date'
      PROVE  OutcomesInv'
  <2>1. HistoryTyped'
    BY <1>1, <1>2, EventTyped DEF HistoryTyped, Revisions
  <2>2. NotedTyped'
    <3>1. ASSUME NEW m \in Mail
          PROVE  noted[m].at <= date'
      BY <1>1, <1>2 DEF HistoryTyped, NotedTyped
    <3> QED
      BY <1>1, <1>2, <3>1 DEF NotedTyped, NotStored
  <2>3. MailQuoted' /\ NewestIsCurrent'
    BY <1>1, <1>2 DEF MailQuoted, NewestIsCurrent, Revisions, Current
  <2> QED
    BY <2>1, <2>2, <2>3 DEF OutcomesInv
<1>3. ASSUME NEW kind \in OwnerKinds, NEW occurred \in 0 .. MaxDate, NEW expected,
             RecordOwner(kind, occurred, expected)
      PROVE  OutcomesInv'
  <2> DEFINE e == [kind |-> kind, source |-> "owner", ref |-> 0, occurred |-> occurred,
                   recorded |-> date, previous |-> Len(history)]
  <2>1. e \in Event /\ e.source # "email" /\ e.occurred <= date /\ e.recorded <= date
    BY <1>1, <1>3, OutcomesAssumption DEF RecordOwner, MayAppend, Event, HistoryTyped
  <2>2. history' = Append(history, e) /\ UNCHANGED <<date, noted>>
    BY <1>3 DEF RecordOwner, AppendEvent
  <2> QED
    BY <2>1, <2>2, OwnerWrites
<1>4. ASSUME NEW target, NEW expected, ReverseEvent(target, expected)
      PROVE  OutcomesInv'
  <2> DEFINE e == [kind |-> history[target].kind, source |-> "reversal", ref |-> target,
                   occurred |-> date, recorded |-> date, previous |-> Len(history)]
  <2>1. target \in Revisions /\ target \in Nat /\ date \in Nat /\ Len(history) \in Nat
    BY <1>1, <1>4 DEF ReverseEvent, HistoryTyped, Revisions
  <2>2. e \in Event /\ e.source # "email" /\ e.occurred <= date /\ e.recorded <= date
    BY <1>1, <2>1, EventTyped DEF Event
  <2>3. history' = Append(history, e) /\ UNCHANGED <<date, noted>>
    BY <1>4 DEF ReverseEvent, AppendEvent
  <2> QED
    BY <2>2, <2>3, OwnerWrites
<1>5. CASE \E window \in Windows : Capture(window[1], window[2])
  BY <1>1, <1>2, <1>5 DEF Capture, HistoryTyped
<1>6. CASE Confirm \/ Pass \/ UNCHANGED outcomeVars
  BY <1>1, <1>2, <1>6 DEF Confirm, Pass, HistoryTyped, outcomeVars
<1> QED
  BY <1>3, <1>4, <1>5, <1>6, MailIsNewest DEF OutcomesNext

\* Mail may come in any order, repeatedly and dated by another clock: it is recorded
\* on older mail only, and shows as what became of the application unless the owner
\* said so; for any messages, dates and kinds.
THEOREM MailNeverSteps == OutcomesSpec => []NewestIsCurrent
<1>1. OutcomesSpec => []OutcomesInv
  BY OutcomesInitially, OutcomesStep, PTL DEF OutcomesSpec
<1>2. OutcomesInv => NewestIsCurrent
  BY DEF OutcomesInv
<1> QED
  BY <1>1, <1>2, PTL

LEMMA LastIsLast ==
  ASSUME NEW n \in Nat, NEW T \in SUBSET (1 .. n), T # {}
  PROVE  LastOf(T) \in T /\ \A s \in T : s <= LastOf(T)
<1> DEFINE fromEnd == {k \in Nat : n - k \in T}
<1>1. fromEnd # {} /\ fromEnd \in SUBSET Nat
  <2>1. PICK t \in T : TRUE
    OBVIOUS
  <2>2. n - t \in fromEnd
    BY <2>1
  <2> QED
    BY <2>2
<1>2. PICK k \in fromEnd : \A j \in fromEnd : k <= j
  BY <1>1, LeastNumber
<1>3. ASSUME NEW s \in T
      PROVE  s <= n - k
  <2>1. n - s \in fromEnd /\ k \in Nat /\ s \in Nat
    BY <1>2, <1>3
  <2>2. k <= n - s
    BY <1>2, <2>1
  <2> QED
    BY <2>1, <2>2
<1>4. n - k \in T
  BY <1>2
<1> HIDE DEF fromEnd
<1> QED
  BY <1>3, <1>4 DEF LastOf

\* What is recorded today was not known on any day before.
LEMMA PastStands ==
  ASSUME OutcomesInv, [OutcomesNext]_outcomeVars, NEW t \in 0 .. MaxDate, t < date
  PROVE  Label(history', t) = Label(history, t)
<1>1. HistoryTyped
  BY DEF OutcomesInv
<1>2. CASE UNCHANGED history
  BY <1>2
<1>3. ASSUME NEW e, history' = Append(history, e), e.recorded = date
      PROVE  Label(history', t) = Label(history, t)
  <2>1. DOMAIN history = Revisions /\ DOMAIN history' = Revisions \cup {Len(history) + 1}
    BY <1>1, <1>3 DEF HistoryTyped, Revisions
  <2>2. /\ \A r \in Revisions : history'[r] = history[r]
        /\ history'[Len(history) + 1] = e
    BY <1>1, <1>3, Appended
  <2>3. Known(history', t) = Known(history, t) /\ Known(history, t) \subseteq Revisions
    BY <1>1, <1>3, <2>1, <2>2 DEF Known, HistoryTyped
  <2>4. CASE Known(history, t) = {}
    BY <2>3, <2>4 DEF Label
  <2>5. CASE LastOf(Known(history, t)) \in Revisions
    BY <2>2, <2>3, <2>5 DEF Label
  <2>6. ASSUME Known(history, t) # {}
        PROVE  LastOf(Known(history, t)) \in Revisions
    <3>1. Len(history) \in Nat /\ Known(history, t) \in SUBSET (1 .. Len(history))
      BY <1>1, <2>3 DEF HistoryTyped, Revisions
    <3> QED
      BY <2>3, <2>6, <3>1, LastIsLast
  <2> QED
    BY <2>4, <2>5, <2>6
<1>4. ASSUME NEW kind, NEW from, NEW ref, NEW occurred, AppendEvent(kind, from, ref, occurred)
      PROVE  Label(history', t) = Label(history, t)
  BY <1>3, <1>4 DEF AppendEvent
<1>5. CASE \E expected \in 0 .. MaxHistory :
             \/ \E kind \in OwnerKinds, occurred \in 0 .. MaxDate :
                  RecordOwner(kind, occurred, expected)
             \/ \E target \in 1 .. MaxHistory : ReverseEvent(target, expected)
  BY <1>4, <1>5 DEF RecordOwner, ReverseEvent
<1>6. CASE \E m \in Mail, correlated \in BOOLEAN : ReadMail(m, correlated)
  BY <1>2, <1>4, <1>6 DEF ReadMail, RecordMail
<1> QED
  BY <1>2, <1>5, <1>6 DEF OutcomesNext, outcomeVars, Capture, Confirm, Pass

\* The report of a past day is never rewritten, by a correction dated back or by late
\* mail, for any history.
THEOREM ReportsStand == OutcomesSpec => ReportStands
<1>1. OutcomesSpec => []OutcomesInv
  BY OutcomesInitially, OutcomesStep, PTL DEF OutcomesSpec
<1>2. OutcomesInv /\ [OutcomesNext]_outcomeVars =>
        [\A t \in 0 .. MaxDate : t < date => Label(history', t) = Label(history, t)]_outcomeVars
  BY PastStands
<1> QED
  BY <1>1, <1>2, PTL DEF OutcomesSpec, ReportStands

-----------------------------------------------------------------------------
(* Outcomes: what a capture freezes                                         *)

\* A function on 0 .. N, each of whose values follows from one before it, exists.
Unfoldable(N, V, base, pred, step) ==
  \E f \in [0 .. N -> V] : f[0] = base /\ \A r \in 1 .. N : f[r] = step[r][f[pred[r]]]

LEMMA Unfolds ==
  ASSUME NEW N \in Nat, NEW V, NEW base \in V, NEW pred \in [1 .. N -> 0 .. N],
         \A r \in 1 .. N : pred[r] < r,
         NEW step \in [1 .. N -> [V -> V]]
  PROVE  Unfoldable(N, V, base, pred, step)
<1> DEFINE Unfolding(f, n) == f[0] = base /\ \A r \in 1 .. n : f[r] = step[r][f[pred[r]]]
           Reached(n) == \E f \in [0 .. n -> V] : Unfolding(f, n)
<1>1. Reached(0)
  <2> DEFINE g == [k \in 0 .. 0 |-> base]
  <2>1. g \in [0 .. 0 -> V] /\ g[0] = base
    OBVIOUS
  <2> HIDE DEF g
  <2>2. Unfolding(g, 0)
    BY <2>1
  <2> QED
    BY <2>1, <2>2
<1>2. ASSUME NEW n \in 1 .. N, Reached(n - 1)
      PROVE  Reached(n)
  <2>1. PICK f \in [0 .. n - 1 -> V] : Unfolding(f, n - 1)
    BY <1>2
  <2> DEFINE g == [k \in 0 .. n |-> IF k = n THEN step[n][f[pred[n]]] ELSE f[k]]
  <2>2. pred[n] \in 0 .. n - 1
    OBVIOUS
  <2>3. g \in [0 .. n -> V]
    <3>1. f[pred[n]] \in V
      BY <2>2
    <3>2. step[n] \in [V -> V]
      OBVIOUS
    <3>3. step[n][f[pred[n]]] \in V
      BY <3>1, <3>2
    <3>4. \A k \in 0 .. n : k # n => f[k] \in V
      OBVIOUS
    <3> QED
      BY <3>3, <3>4
  <2>4. \A k \in 0 .. n - 1 : g[k] = f[k]
    OBVIOUS
  <2>5. g[n] = step[n][f[pred[n]]]
    OBVIOUS
  <2> HIDE DEF g
  <2>6. g[0] = base
    BY <2>1, <2>4
  <2>7. ASSUME NEW r \in 1 .. n
        PROVE  g[r] = step[r][g[pred[r]]]
    <3>1. CASE r = n
      BY <2>2, <2>4, <2>5, <3>1
    <3>2. CASE r # n
      <4>1. r \in 1 .. n - 1 /\ pred[r] \in 0 .. n - 1 /\ r \in 0 .. n - 1
        BY <3>2
      <4> QED
        BY <2>1, <2>4, <4>1
    <3> QED
      BY <3>1, <3>2
  <2> QED
    BY <2>3, <2>6, <2>7
<1> DEFINE stuck == {n \in 0 .. N : ~Reached(n)}
<1> HIDE DEF Reached
<1>3. stuck = {}
  <2> SUFFICES ASSUME stuck # {} PROVE FALSE
    OBVIOUS
  <2>1. stuck \in SUBSET Nat
    OBVIOUS
  <2>2. PICK n \in stuck : \A k \in stuck : n <= k
    BY <2>1, LeastNumber
  <2>3. n \in 1 .. N
    BY <1>1, <2>2
  <2>4. n - 1 \notin stuck /\ n - 1 \in 0 .. N
    BY <2>2, <2>3
  <2> QED
    BY <1>2, <2>2, <2>3, <2>4
<1>4. Reached(N)
  BY <1>3
<1> QED
  BY <1>4 DEF Reached, Unfoldable

\* A reversal restores an event before it, on the day it is recorded; and events are
\* recorded in their order.
Chained ==
  /\ \A r \in Revisions : history[r].source = "reversal" =>
       history[r].ref \in 1 .. r - 1 /\ history[r].occurred = history[r].recorded
  /\ \A r, s \in Revisions : s <= r => history[s].recorded <= history[r].recorded

Corrected(r, horizon) == history[r].occurred <= horizon /\ history[r].source = "reversal"

\* What holds after an event, as Holding tells it.
HeldAt(f, r, horizon) ==
  IF r = 0 THEN {}
  ELSE CASE history[r].occurred > horizon -> f[r - 1]
         [] history[r].occurred <= horizon /\ history[r].source = "reversal" ->
              f[history[r].ref]
         [] /\ history[r].occurred <= horizon /\ history[r].source # "reversal"
            /\ history[r].kind = "UNKNOWN" -> {}
         [] OTHER -> f[r - 1] \cup ({history[r].kind} \cap Positive)

HeldThen(f, r, horizon) ==
  IF history[r].occurred > horizon THEN f[r - 1]
  ELSE IF history[r].source = "reversal" THEN f[history[r].ref]
  ELSE IF history[r].kind = "UNKNOWN" THEN {}
  ELSE f[r - 1] \cup ({history[r].kind} \cap Positive)

HeldSteps(f, horizon) ==
  /\ DOMAIN f = 0 .. Len(history) /\ f[0] = {}
  /\ \A r \in Revisions : f[r] = HeldThen(f, r, horizon)

BehindAt(f, r, horizon) ==
  IF r = 0 THEN << >>
  ELSE f[Preceding(r, horizon)] \o (IF history[r].occurred <= horizon THEN <<r>> ELSE << >>)

BehindSteps(f, horizon) ==
  /\ DOMAIN f = 0 .. Len(history) /\ f[0] = << >>
  /\ \A r \in Revisions : f[r] = BehindAt(f, r, horizon)

\* What both functions descend to from an event.
LEMMA DescentTyped ==
  ASSUME HistoryTyped, Intact, Chained, NEW horizon \in Int,
         NEW pred, pred = [r \in 1 .. Len(history) |-> Preceding(r, horizon)]
  PROVE  /\ Len(history) \in Nat /\ Revisions = 1 .. Len(history)
         /\ pred \in [1 .. Len(history) -> 0 .. Len(history)]
         /\ \A r \in 1 .. Len(history) :
              /\ pred[r] < r
              /\ pred[r] = IF Corrected(r, horizon) THEN history[r].ref ELSE r - 1
<1>1. Len(history) \in Nat /\ Revisions = 1 .. Len(history)
  BY DEF HistoryTyped, Revisions
<1>2. ASSUME NEW r \in 1 .. Len(history)
      PROVE  /\ pred[r] \in 0 .. Len(history) /\ pred[r] < r
             /\ pred[r] = IF Corrected(r, horizon) THEN history[r].ref ELSE r - 1
  <2>1. pred[r] = IF Corrected(r, horizon) THEN history[r].ref ELSE r - 1
    BY <1>1 DEF Preceding, Corrected, Intact
  <2>2. r - 1 \in 0 .. Len(history) /\ r - 1 < r
    BY <1>1
  <2>3. CASE Corrected(r, horizon)
    <3>1. history[r].ref \in 1 .. r - 1
      BY <1>1, <2>3 DEF Corrected, Chained
    <3>2. history[r].ref \in 0 .. Len(history) /\ history[r].ref < r
      BY <1>1, <3>1
    <3> QED
      BY <2>1, <2>3, <3>2
  <2>4. CASE ~Corrected(r, horizon)
    BY <2>1, <2>2, <2>4
  <2> QED
    BY <2>1, <2>3, <2>4
<1>3. pred \in [1 .. Len(history) -> 0 .. Len(history)]
  BY <1>2
<1> QED
  BY <1>1, <1>2, <1>3

LEMMA HeldCases ==
  ASSUME NEW f, NEW horizon \in Int, NEW r \in Nat \ {0}, history[r].occurred \in Nat
  PROVE  HeldAt(f, r, horizon) = HeldThen(f, r, horizon)
<1>1. history[r].occurred > horizon <=> ~(history[r].occurred <= horizon)
  OBVIOUS
<1>2. CASE history[r].occurred > horizon
  <2>1. ~(history[r].occurred <= horizon) /\ r # 0
    BY <1>1, <1>2
  <2> QED
    BY <1>2, <2>1, Zenon DEF HeldAt, HeldThen
<1>3. CASE history[r].occurred <= horizon /\ history[r].source = "reversal"
  <2>1. ~(history[r].occurred > horizon)
    BY <1>1, <1>3
  <2> QED
    BY <1>3, <2>1 DEF HeldAt, HeldThen
<1>4. CASE history[r].occurred <= horizon /\ history[r].source # "reversal" /\ history[r].kind = "UNKNOWN"
  BY <1>1, <1>4 DEF HeldAt, HeldThen
<1>5. CASE history[r].occurred <= horizon /\ history[r].source # "reversal" /\ history[r].kind # "UNKNOWN"
  BY <1>1, <1>5 DEF HeldAt, HeldThen
<1> QED
  BY <1>1, <1>2, <1>3, <1>4, <1>5

IsHolding(f, horizon) == f = [r \in 0 .. Len(history) |-> HeldAt(f, r, horizon)]

Behind(f, horizon) == f = [r \in 0 .. Len(history) |-> BehindAt(f, r, horizon)]

\* Any history has the milestones that hold after each of its events.
LEMMA HoldingUnfolds ==
  ASSUME HistoryTyped, Intact, Chained, NEW horizon \in Int
  PROVE  HeldSteps(Holding(horizon), horizon)
<1> DEFINE N == Len(history)
           V == SUBSET Positive
           base == {}
           pred == [r \in 1 .. N |-> Preceding(r, horizon)]
           keeps(r) == history[r].occurred > horizon \/ history[r].source = "reversal"
           after(r, v) == IF keeps(r) THEN v
                          ELSE IF history[r].kind = "UNKNOWN" THEN {}
                          ELSE v \cup ({history[r].kind} \cap Positive)
           step == [r \in 1 .. N |-> [v \in V |-> after(r, v)]]
<1>1. /\ N \in Nat /\ Revisions = 1 .. N
      /\ pred \in [1 .. N -> 0 .. N]
      /\ \A r \in 1 .. N : pred[r] < r
      /\ \A r \in 1 .. N : pred[r] = IF Corrected(r, horizon) THEN history[r].ref ELSE r - 1
  <2>1. pred = [r \in 1 .. Len(history) |-> Preceding(r, horizon)]
    OBVIOUS
  <2> HIDE DEF pred
  <2> QED
    BY <2>1, DescentTyped
<1> HIDE DEF N, pred
<1>2. \A r \in 1 .. N : history[r].occurred \in Nat
  BY <1>1, EventTyped
<1>3. step \in [1 .. N -> [V -> V]]
  <2>1. ASSUME NEW r \in 1 .. N, NEW v \in V
        PROVE  after(r, v) \in V
    OBVIOUS
  <2> HIDE DEF after, V
  <2> QED
    BY <2>1
<1>4. \A r \in 1 .. N : \A v \in V : step[r][v] = after(r, v)
  <2> HIDE DEF after, V
  <2> QED
    OBVIOUS
<1>5. base \in V
  OBVIOUS
<1> HIDE DEF step, V, base
<1>6. Unfoldable(N, V, base, pred, step)
  BY <1>1, <1>3, <1>5, Unfolds
<1>7. PICK f \in [0 .. N -> V] : f[0] = base /\ \A r \in 1 .. N : f[r] = step[r][f[pred[r]]]
  BY <1>6 DEF Unfoldable
<1>8. ASSUME NEW r \in 1 .. N
      PROVE  f[r] = HeldThen(f, r, horizon)
  <2>1. f[pred[r]] \in V
    BY <1>1
  <2>2. f[r] = after(r, f[pred[r]])
    <3> HIDE DEF after
    <3> QED
      BY <1>4, <1>7, <2>1
  <2>3. history[r].occurred > horizon <=> ~(history[r].occurred <= horizon)
    BY <1>2
  <2> QED
    BY <1>1, <2>2, <2>3 DEF HeldThen, Corrected
<1>9. IsHolding(f, horizon)
  <2>1. ASSUME NEW r \in 0 .. N
        PROVE  f[r] = HeldAt(f, r, horizon)
    <3>1. CASE r = 0
      BY <1>7, <3>1 DEF HeldAt, base
    <3>2. CASE r # 0
      <4>1. r \in 1 .. N /\ r \in Nat \ {0}
        BY <1>1, <3>2
      <4> QED
        BY <1>2, <1>8, <4>1, HeldCases
    <3> QED
      BY <3>1, <3>2
  <2> QED
    BY <1>7, <2>1 DEF IsHolding, N
<1>10. Holding(horizon) = CHOOSE h : IsHolding(h, horizon)
  BY DEF Holding, IsHolding, HeldAt
<1>11. IsHolding(Holding(horizon), horizon)
  BY <1>9, <1>10
<1>12. ASSUME NEW h, IsHolding(h, horizon)
       PROVE  HeldSteps(h, horizon)
  <2>1. DOMAIN h = 0 .. N /\ \A r \in 0 .. N : h[r] = HeldAt(h, r, horizon)
    BY <1>12 DEF IsHolding, N
  <2>2. 0 \in 0 .. N
    BY <1>1
  <2>3. h[0] = {}
    BY <2>1, <2>2 DEF HeldAt
  <2>4. ASSUME NEW r \in 1 .. N
        PROVE  h[r] = HeldThen(h, r, horizon)
    <3>1. r \in 0 .. N /\ r \in Nat \ {0}
      BY <1>1
    <3> QED
      BY <1>2, <2>1, <3>1, HeldCases
  <2> QED
    BY <1>1, <2>1, <2>3, <2>4 DEF HeldSteps, N
<1> QED
  BY <1>11, <1>12

\* And the events behind each of them.
LEMMA BranchUnfolds ==
  ASSUME HistoryTyped, Intact, Chained, NEW horizon \in Int
  PROVE  BehindSteps(CHOOSE f : Behind(f, horizon), horizon)
<1> DEFINE N == Len(history)
           V == Seq(1 .. N)
           base == << >>
           pred == [r \in 1 .. N |-> Preceding(r, horizon)]
           itself(r) == IF history[r].occurred <= horizon THEN <<r>> ELSE << >>
           step == [r \in 1 .. N |-> [v \in V |-> v \o itself(r)]]
<1>1. /\ N \in Nat /\ Revisions = 1 .. N
      /\ pred \in [1 .. N -> 0 .. N]
      /\ \A r \in 1 .. N : pred[r] < r
      /\ \A r \in 1 .. N : pred[r] = Preceding(r, horizon)
  <2>1. pred = [r \in 1 .. Len(history) |-> Preceding(r, horizon)]
    OBVIOUS
  <2>2. \A r \in 1 .. N : pred[r] = Preceding(r, horizon)
    OBVIOUS
  <2> HIDE DEF pred
  <2> QED
    BY <2>1, <2>2, DescentTyped
<1> HIDE DEF N, pred
<1>2. step \in [1 .. N -> [V -> V]]
  <2>1. ASSUME NEW r \in 1 .. N, NEW v \in V
        PROVE  v \o itself(r) \in V
    <3>1. <<r>> \in Seq(1 .. N) /\ << >> \in Seq(1 .. N)
      OBVIOUS
    <3>2. itself(r) \in Seq(1 .. N)
      BY <3>1
    <3> HIDE DEF itself
    <3> QED
      BY <3>2
  <2> HIDE DEF itself, V
  <2> QED
    BY <2>1
<1>3. \A r \in 1 .. N : \A v \in V : step[r][v] = v \o itself(r)
  <2> HIDE DEF itself, V
  <2> QED
    OBVIOUS
<1>4. base \in V
  OBVIOUS
<1> HIDE DEF step, V, base
<1>5. Unfoldable(N, V, base, pred, step)
  BY <1>1, <1>2, <1>4, Unfolds
<1>6. PICK f \in [0 .. N -> V] : f[0] = base /\ \A r \in 1 .. N : f[r] = step[r][f[pred[r]]]
  BY <1>5 DEF Unfoldable
<1>7. ASSUME NEW r \in 0 .. N
      PROVE  f[r] = BehindAt(f, r, horizon)
  <2>1. CASE r = 0
    BY <1>6, <2>1 DEF BehindAt, base
  <2>2. CASE r # 0
    <3>1. r \in 1 .. N
      BY <1>1, <2>2
    <3>2. f[pred[r]] \in V
      BY <1>1, <3>1
    <3>3. f[r] = f[Preceding(r, horizon)] \o itself(r)
      <4> HIDE DEF itself
      <4> QED
        BY <1>1, <1>3, <1>6, <3>1, <3>2
    <3> QED
      BY <2>2, <3>3 DEF BehindAt
  <2> QED
    BY <2>1, <2>2
<1>8. Behind(f, horizon)
  BY <1>6, <1>7 DEF Behind, N
<1>9. ASSUME NEW g, Behind(g, horizon)
      PROVE  BehindSteps(g, horizon)
  <2>1. DOMAIN g = 0 .. N /\ \A r \in 0 .. N : g[r] = BehindAt(g, r, horizon)
    BY <1>9 DEF Behind, N
  <2>2. 0 \in 0 .. N /\ 1 .. N \subseteq 0 .. N
    BY <1>1
  <2>3. g[0] = << >>
    BY <2>1, <2>2 DEF BehindAt
  <2> QED
    BY <1>1, <2>1, <2>2, <2>3 DEF BehindSteps, N
<1> QED
  BY <1>8, <1>9

\* The last of the events that had happened by then, and the branch behind it.
LastBy(horizon) ==
  LET events == {r \in Revisions : history[r].occurred <= horizon} IN
  IF events = {} THEN 0 ELSE LastOf(events)

LEMMA BranchIsBehind ==
  ASSUME NEW horizon
  PROVE  Branch(horizon) = (CHOOSE f : Behind(f, horizon))[LastBy(horizon)]
  BY DEF Branch, Behind, BehindAt, LastBy

\* The milestones along a branch.
MilestonesOf(branch) ==
  {history[branch[i]].kind : i \in
     {j \in DOMAIN branch :
        /\ history[branch[j]].source # "reversal" /\ history[branch[j]].kind \in Positive
        /\ \A k \in j .. Len(branch) : history[branch[k]].kind # "UNKNOWN"}}

\* One more event: a reset leaves no milestone, a reversal adds none, another its own.
LEMMA MilestonesGrow ==
  ASSUME HistoryTyped, NEW branch \in Seq(Revisions), NEW r \in Revisions
  PROVE  MilestonesOf(Append(branch, r)) =
           IF history[r].kind = "UNKNOWN" THEN {}
           ELSE MilestonesOf(branch) \cup
                  (IF history[r].source = "reversal" THEN {} ELSE {history[r].kind} \cap Positive)
<1> DEFINE more == Append(branch, r)
           n == Len(branch)
           adds(b, j) == history[b[j]].source # "reversal" /\ history[b[j]].kind \in Positive
           lasts(b, j) == \A k \in j .. Len(b) : history[b[k]].kind # "UNKNOWN"
<1>1. /\ n \in Nat /\ Len(more) = n + 1 /\ DOMAIN branch = 1 .. n /\ DOMAIN more = 1 .. n + 1
      /\ more[n + 1] = r /\ \A j \in 1 .. n : more[j] = branch[j]
  OBVIOUS
<1> HIDE DEF more, n
<1>2. CASE history[r].kind = "UNKNOWN"
  <2>1. \A j \in DOMAIN more : ~lasts(more, j)
    <3> SUFFICES ASSUME NEW j \in 1 .. n + 1 PROVE ~lasts(more, j)
      BY <1>1
    <3>1. n + 1 \in j .. Len(more)
      BY <1>1
    <3> QED
      BY <1>1, <1>2, <3>1
  <2>2. MilestonesOf(more) = {}
    BY <2>1 DEF MilestonesOf
  <2> QED
    BY <1>2, <2>2 DEF more
<1>3. CASE history[r].kind # "UNKNOWN"
  <2>1. ASSUME NEW j \in 1 .. n
        PROVE  lasts(more, j) <=> lasts(branch, j)
    <3>1. j .. Len(more) = (j .. Len(branch)) \cup {n + 1} /\ j .. Len(branch) \subseteq 1 .. n
      BY <1>1 DEF n
    <3> QED
      BY <1>1, <1>3, <3>1
  <2>2. lasts(more, n + 1)
    <3>1. n + 1 .. Len(more) = {n + 1}
      BY <1>1
    <3> QED
      BY <1>1, <1>3, <3>1
  <2>3. \A j \in 1 .. n : adds(more, j) <=> adds(branch, j)
    BY <1>1
  <2>4. adds(more, n + 1) <=> (history[r].source # "reversal" /\ history[r].kind \in Positive)
    BY <1>1
  <2>5. MilestonesOf(more) = {history[more[i]].kind : i \in {j \in DOMAIN more : adds(more, j) /\ lasts(more, j)}}
    BY DEF MilestonesOf
  <2>6. MilestonesOf(branch) = {history[branch[i]].kind : i \in {j \in DOMAIN branch : adds(branch, j) /\ lasts(branch, j)}}
    BY DEF MilestonesOf
  <2> HIDE DEF adds, lasts
  <2>7. {j \in DOMAIN more : adds(more, j) /\ lasts(more, j)} =
          {j \in DOMAIN branch : adds(branch, j) /\ lasts(branch, j)}
            \cup (IF history[r].source # "reversal" /\ history[r].kind \in Positive THEN {n + 1} ELSE {})
    <3>1. DOMAIN more = DOMAIN branch \cup {n + 1}
      BY <1>1
    <3> QED
      BY <1>1, <2>1, <2>2, <2>3, <2>4, <3>1
  <2>8. \A i \in DOMAIN branch : more[i] = branch[i]
    BY <1>1
  <2>9. MilestonesOf(more) = MilestonesOf(branch) \cup
          (IF history[r].source = "reversal" THEN {} ELSE {history[r].kind} \cap Positive)
    BY <1>1, <2>5, <2>6, <2>7, <2>8
  <2> QED
    BY <1>3, <2>9 DEF more
<1> QED
  BY <1>2, <1>3

\* An event that resets leaves no milestone, and so does every reversal to it; and
\* what holds after an event is what its branch has observed since the last reset.
LEMMA BranchHolds ==
  ASSUME HistoryTyped, Intact, Chained, NEW horizon \in Int,
         NEW held, HeldSteps(held, horizon), NEW behind, BehindSteps(behind, horizon)
  PROVE  \A r \in 0 .. Len(history) :
           behind[r] \in Seq(Revisions) /\ MilestonesOf(behind[r]) = held[r]
<1> DEFINE N == Len(history)
           Resets(r) == r # 0 /\ history[r].occurred <= horizon /\ history[r].kind = "UNKNOWN" => held[r] = {}
           Agrees(r) == /\ behind[r] \in Seq(Revisions) /\ MilestonesOf(behind[r]) = held[r]
                        /\ Resets(r)
           amiss == {r \in 0 .. N : ~Agrees(r)}
<1>1. N \in Nat /\ Revisions = 1 .. N
  BY DEF HistoryTyped, Revisions
<1>2. Agrees(0)
  <2>1. MilestonesOf(<< >>) = {} /\ << >> \in Seq(Revisions)
    BY DEF MilestonesOf
  <2> QED
    BY <2>1 DEF HeldSteps, BehindSteps
<1>3. ASSUME NEW r \in 1 .. N, \A k \in 0 .. r - 1 : Agrees(k)
      PROVE  Agrees(r)
  <2>1. /\ history[r].occurred \in Nat /\ r \in Revisions /\ r # 0
        /\ history[r].previous = r - 1 /\ r - 1 \in 0 .. r - 1
    BY <1>1, EventTyped DEF Intact
  <2>2. held[r] = HeldThen(held, r, horizon) /\ behind[r] = BehindAt(behind, r, horizon)
    BY <2>1 DEF HeldSteps, BehindSteps
  <2>3. CASE history[r].occurred > horizon
    <3>1. ~(history[r].occurred <= horizon)
      BY <2>1, <2>3
    <3>2. held[r] = held[r - 1]
      BY <2>2, <2>3 DEF HeldThen
    <3>3. behind[r] = behind[r - 1] \o << >>
      BY <2>1, <2>2, <3>1 DEF BehindAt, Preceding
    <3>4. behind[r - 1] \in Seq(Revisions) /\ MilestonesOf(behind[r - 1]) = held[r - 1]
      BY <1>3, <2>1
    <3>5. behind[r] = behind[r - 1]
      BY <3>3, <3>4
    <3> QED
      BY <3>1, <3>2, <3>4, <3>5
  <2>4. CASE history[r].occurred <= horizon /\ history[r].source = "reversal"
    <3> DEFINE ref == history[r].ref
    <3>1. ref \in 1 .. r - 1 /\ history[r].occurred = history[r].recorded
      BY <2>1, <2>4 DEF Chained
    <3>2. ref \in Revisions /\ ref \in 0 .. r - 1 /\ ref <= r
      BY <1>1, <3>1
    <3>3. history[ref].kind = history[r].kind
      BY <2>1, <2>4 DEF Intact
    <3>4. history[ref].occurred <= horizon
      <4>1. history[ref].occurred <= history[ref].recorded
        BY <3>2, EventTyped DEF Intact
      <4>2. history[ref].recorded <= history[r].recorded
        BY <2>1, <3>2 DEF Chained
      <4>3. /\ history[ref].occurred \in Nat /\ history[ref].recorded \in Nat
            /\ history[r].recorded \in Nat
        BY <2>1, <3>2, EventTyped
      <4> HIDE DEF ref
      <4> QED
        BY <2>4, <3>1, <4>1, <4>2, <4>3
    <3>5. Agrees(ref)
      BY <1>3, <3>2
    <3>6. held[r] = held[ref]
      <4>1. ~(history[r].occurred > horizon)
        BY <2>1, <2>4
      <4> QED
        BY <2>2, <2>4, <4>1 DEF HeldThen
    <3>7. behind[r] = behind[ref] \o <<r>>
      BY <2>1, <2>2, <2>4 DEF BehindAt, Preceding
    <3>8. behind[ref] \in Seq(Revisions) /\ behind[r] = Append(behind[ref], r)
      BY <2>1, <3>5, <3>7
    <3>9. behind[r] \in Seq(Revisions)
      BY <2>1, <3>8
    <3>10. MilestonesOf(behind[r]) =
             IF history[r].kind = "UNKNOWN" THEN {} ELSE MilestonesOf(behind[ref])
      <4> HIDE DEF ref
      <4>1. MilestonesOf(Append(behind[ref], r)) =
              IF history[r].kind = "UNKNOWN" THEN {}
              ELSE MilestonesOf(behind[ref]) \cup
                     (IF history[r].source = "reversal" THEN {} ELSE {history[r].kind} \cap Positive)
        BY <2>1, <3>8, MilestonesGrow
      <4> QED
        BY <2>4, <3>8, <4>1
    <3>11. history[r].kind = "UNKNOWN" => held[ref] = {}
      BY <3>1, <3>3, <3>4, <3>5
    <3> HIDE DEF ref
    <3>12. MilestonesOf(behind[r]) = held[r]
      BY <3>5, <3>6, <3>10, <3>11
    <3>13. Resets(r)
      BY <3>6, <3>11
    <3> QED
      BY <3>9, <3>12, <3>13
  <2>5. CASE history[r].occurred <= horizon /\ history[r].source # "reversal"
    <3>1. ~(history[r].occurred > horizon)
      BY <2>1, <2>5
    <3>2. held[r] = IF history[r].kind = "UNKNOWN" THEN {}
                    ELSE held[r - 1] \cup ({history[r].kind} \cap Positive)
      BY <2>2, <2>5, <3>1 DEF HeldThen
    <3>3. behind[r] = behind[r - 1] \o <<r>>
      BY <2>1, <2>2, <2>5 DEF BehindAt, Preceding
    <3>4. behind[r - 1] \in Seq(Revisions) /\ MilestonesOf(behind[r - 1]) = held[r - 1]
      BY <1>3, <2>1
    <3>5. behind[r] = Append(behind[r - 1], r) /\ behind[r] \in Seq(Revisions)
      BY <2>1, <3>3, <3>4
    <3>6. MilestonesOf(Append(behind[r - 1], r)) =
            IF history[r].kind = "UNKNOWN" THEN {}
            ELSE MilestonesOf(behind[r - 1]) \cup
                   (IF history[r].source = "reversal" THEN {} ELSE {history[r].kind} \cap Positive)
      BY <2>1, <3>4, MilestonesGrow
    <3>7. MilestonesOf(behind[r]) = held[r]
      BY <2>5, <3>2, <3>4, <3>5, <3>6
    <3>8. Resets(r)
      BY <3>2
    <3> QED
      BY <3>5, <3>7, <3>8
  <2> QED
    BY <2>1, <2>3, <2>4, <2>5
<1> HIDE DEF Agrees, N
<1>4. amiss = {}
  <2> SUFFICES ASSUME amiss # {} PROVE FALSE
    OBVIOUS
  <2>1. amiss \in SUBSET Nat
    BY <1>1
  <2>2. PICK n \in amiss : \A k \in amiss : n <= k
    BY <2>1, LeastNumber
  <2>3. n \in 1 .. N
    BY <1>1, <1>2, <2>2
  <2>4. \A k \in 0 .. n - 1 : Agrees(k)
    BY <1>1, <2>2, <2>3
  <2> QED
    BY <1>3, <2>2, <2>3, <2>4
<1>5. \A r \in 0 .. N : Agrees(r)
  BY <1>4
<1> QED
  BY <1>5 DEF Agrees, N

\* After the last event by then, nothing changes.
LEMMA LastHolds ==
  ASSUME HistoryTyped, Intact, Chained, NEW horizon \in Int, NEW held, HeldSteps(held, horizon)
  PROVE  LastBy(horizon) \in 0 .. Len(history) /\ held[LastBy(horizon)] = held[Len(history)]
<1> DEFINE N == Len(history)
           last == LastBy(horizon)
           events == {r \in 1 .. N : history[r].occurred <= horizon}
           later == {r \in 0 .. N : r >= last /\ held[r] # held[last]}
<1>1. N \in Nat /\ Revisions = 1 .. N
  BY DEF HistoryTyped, Revisions
<1>2. last = IF events = {} THEN 0 ELSE LastOf(events)
  BY <1>1 DEF LastBy
<1>3. events # {} => LastOf(events) \in events /\ \A r \in events : r <= LastOf(events)
  <2>1. events \in SUBSET (1 .. N)
    OBVIOUS
  <2> HIDE DEF events, N
  <2> QED
    BY <1>1, <2>1, LastIsLast
<1>4. last \in 0 .. N /\ \A r \in 1 .. N : r > last => r \notin events
  <2>a. events \subseteq 1 .. N
    OBVIOUS
  <2> HIDE DEF last, N, events
  <2>1. CASE events = {}
    BY <1>1, <1>2, <2>1
  <2>2. CASE events # {}
    <3>1. last \in 1 .. N /\ \A r \in events : r <= last
      BY <1>2, <1>3, <2>a, <2>2
    <3>2. \A r \in 1 .. N : r > last => ~(r <= last)
      BY <3>1
    <3> QED
      BY <1>1, <3>1, <3>2
  <2> QED
    BY <2>1, <2>2
<1>5. ASSUME NEW r \in 1 .. N, r > last
      PROVE  held[r] = held[r - 1]
  <2>1. ~(history[r].occurred <= horizon) /\ history[r].occurred \in Nat
    BY <1>1, <1>4, <1>5, EventTyped
  <2>2. history[r].occurred > horizon
    BY <2>1
  <2>3. held[r] = HeldThen(held, r, horizon)
    BY <1>1 DEF HeldSteps
  <2> QED
    BY <2>2, <2>3 DEF HeldThen
<1> HIDE DEF last, N
<1>6. later = {}
  <2> SUFFICES ASSUME later # {} PROVE FALSE
    OBVIOUS
  <2>1. later \in SUBSET Nat
    BY <1>1
  <2>2. PICK n \in later : \A k \in later : n <= k
    BY <2>1, LeastNumber
  <2>3. n \in 0 .. N /\ n >= last /\ held[n] # held[last]
    BY <2>2
  <2>4. n \in 1 .. N /\ n > last /\ n - 1 \in 0 .. N /\ n - 1 >= last
    BY <1>1, <1>4, <2>3
  <2>5. n - 1 \notin later
    BY <2>2, <2>4
  <2>6. held[n - 1] = held[last]
    BY <2>4, <2>5
  <2> QED
    BY <1>5, <2>3, <2>4, <2>6
<1>7. N \in 0 .. N /\ N >= last
  BY <1>1, <1>4
<1>8. held[N] = held[last]
  BY <1>6, <1>7
<1> QED
  BY <1>4, <1>8 DEF N, last

\* What a capture freezes is what holds after the last event.
LEMMA MilestonesHold ==
  ASSUME HistoryTyped, Intact, Chained, NEW horizon \in Int
  PROVE  Milestones(horizon) = Holding(horizon)[Len(history)]
<1> DEFINE behind == CHOOSE f : Behind(f, horizon)
           held == Holding(horizon)
<1>1. HeldSteps(held, horizon) /\ BehindSteps(behind, horizon)
  BY HoldingUnfolds, BranchUnfolds
<1>2. Branch(horizon) = behind[LastBy(horizon)]
  BY BranchIsBehind
<1> HIDE DEF behind, held
<1>3. \A r \in 0 .. Len(history) : MilestonesOf(behind[r]) = held[r]
  BY <1>1, BranchHolds
<1>4. LastBy(horizon) \in 0 .. Len(history) /\ held[LastBy(horizon)] = held[Len(history)]
  BY <1>1, LastHolds
<1>5. Milestones(horizon) = MilestonesOf(Branch(horizon))
  BY DEF Milestones, MilestonesOf
<1> QED
  BY <1>2, <1>3, <1>4, <1>5 DEF held

HistoryWhole == HistoryTyped /\ Intact /\ Chained

Frozen ==
  /\ received \in 0 .. date \cup {Never}
  /\ cohort.revision \in 0 .. Len(history)
  /\ cohort.member = "member" =>
       /\ received # Never
       /\ cohort.milestones = Holding(received + Observation)[cohort.revision]

Bounded == date <= MaxDate /\ Len(history) <= MaxHistory

CaptureInv == OutcomesInv /\ Intact /\ Chained /\ Frozen /\ Bounded

HoldingSound == \A horizon \in Int : HeldSteps(Holding(horizon), horizon)

LEMMA HoldingSteps == HistoryWhole => HoldingSound
  BY HoldingUnfolds DEF HistoryWhole, HoldingSound

\* What holds after an event is not changed by what comes after it.
LEMMA HoldingStands ==
  ASSUME HistoryWhole, HistoryWhole', NEW e, history' = Append(history, e), NEW horizon \in Int
  PROVE  \A r \in 0 .. Len(history) : Holding(horizon)'[r] = Holding(horizon)[r]
<1> DEFINE N == Len(history)
<1>1. /\ N \in Nat /\ Revisions = 1 .. N /\ Revisions' = 1 .. N + 1 /\ Len(history') = N + 1
      /\ \A r \in 1 .. N : history'[r] = history[r]
  BY Appended DEF HistoryWhole, HistoryTyped, Revisions
<1>2. PICK held : held = Holding(horizon)
  OBVIOUS
<1>3. PICK later : later = Holding(horizon)'
  OBVIOUS
<1>4. held[0] = {} /\ \A r \in 1 .. N : held[r] = HeldThen(held, r, horizon)
  BY <1>1, <1>2, HoldingSteps DEF HeldSteps, HoldingSound
<1>5. \A h \in Int : HeldSteps(Holding(h), h)'
  <2>1. HistoryWhole' => HoldingSound'
    BY HoldingSteps, PTL
  <2> QED
    BY <2>1 DEF HoldingSound
<1>6. later[0] = {} /\ \A r \in 1 .. N + 1 : later[r] = HeldThen(later, r, horizon)'
  BY <1>1, <1>3, <1>5 DEF HeldSteps, HeldThen
<1>7. ASSUME NEW r \in 1 .. N, \A k \in 0 .. r - 1 : later[k] = held[k]
      PROVE  later[r] = held[r]
  <2>1. r - 1 \in 0 .. r - 1 /\ r \in 1 .. N + 1 /\ history'[r] = history[r]
    BY <1>1
  <2>2. history[r].source = "reversal" => history[r].ref \in 0 .. r - 1
    BY <1>1 DEF HistoryWhole, Chained
  <2>3. HeldThen(later, r, horizon)' = HeldThen(held, r, horizon)
    BY <1>7, <2>1, <2>2 DEF HeldThen
  <2> QED
    BY <1>4, <1>6, <2>1, <2>3
<1> HIDE DEF N
<1> DEFINE differ == {r \in 0 .. N : later[r] # held[r]}
<1>8. differ = {}
  <2> SUFFICES ASSUME differ # {} PROVE FALSE
    OBVIOUS
  <2>1. differ \in SUBSET Nat
    BY <1>1
  <2>2. PICK n \in differ : \A k \in differ : n <= k
    <3> HIDE DEF differ
    <3> QED
      BY <2>1, LeastNumber
  <2>3. n \in 0 .. N /\ later[n] # held[n]
    BY <2>2
  <2>4. n \in 1 .. N
    <3>1. n # 0 /\ N \in Nat
      BY <1>1, <1>4, <1>6, <2>3
    <3> QED
      BY <2>3, <3>1
  <2>5. \A k \in 0 .. n - 1 : later[k] = held[k]
    BY <1>1, <2>2, <2>4
  <2> QED
    BY <1>7, <2>3, <2>4, <2>5
<1> QED
  BY <1>2, <1>3, <1>8 DEF N

\* Whatever is appended today continues a history that is whole.
LEMMA AppendedWhole ==
  ASSUME CaptureInv, OutcomesInv', NEW kind, NEW by, NEW ref, NEW occurred \in 0 .. date,
         AppendEvent(kind, by, ref, occurred), Len(history) < MaxHistory,
         by = "reversal" =>
           ref \in Revisions /\ history[ref].kind = kind /\ occurred = date
  PROVE  CaptureInv'
<1> DEFINE e == [kind |-> kind, source |-> by, ref |-> ref, occurred |-> occurred,
                 recorded |-> date, previous |-> Len(history)]
           N == Len(history)
<1>1. history' = Append(history, e) /\ UNCHANGED <<date, received, cohort>>
  BY DEF AppendEvent
<1>2. /\ e.kind = kind /\ e.source = by /\ e.ref = ref /\ e.occurred = occurred
      /\ e.recorded = date /\ e.previous = N
  OBVIOUS
<1> HIDE DEF e
<1>3. HistoryTyped /\ Intact /\ Chained /\ HistoryTyped'
  BY DEF CaptureInv, OutcomesInv
<1>4. /\ N \in Nat /\ Revisions = 1 .. N /\ Revisions' = 1 .. N + 1 /\ Len(history') = N + 1
      /\ \A r \in 1 .. N : history'[r] = history[r]
      /\ history'[N + 1] = e /\ date \in Nat
  BY <1>1, <1>3, Appended DEF HistoryTyped, Revisions
<1> HIDE DEF N
<1>5. \A r \in 1 .. N : history[r].recorded \in Nat /\ history[r].recorded <= date
  BY <1>3, <1>4, EventTyped DEF HistoryTyped
<1>6. Intact'
  <2> SUFFICES ASSUME NEW r \in 1 .. N + 1
               PROVE  /\ history'[r].previous = r - 1
                      /\ history'[r].occurred \in 0 .. history'[r].recorded
                      /\ history'[r].recorded <= date
                      /\ r > 1 => history'[r - 1].recorded <= history'[r].recorded
                      /\ history'[r].source = "reversal" =>
                           history'[r].ref < r /\ history'[history'[r].ref].kind = history'[r].kind
    BY <1>1, <1>4 DEF Intact
  <2>1. CASE r \in 1 .. N
    <3>1. r > 1 => r - 1 \in 1 .. N
      BY <1>4, <2>1
    <3>2. history[r].source = "reversal" => history[r].ref \in 1 .. N
      BY <1>3, <1>4, <2>1 DEF Chained
    <3>3. /\ history[r].previous = r - 1
          /\ history[r].occurred \in 0 .. history[r].recorded
          /\ history[r].recorded <= date
          /\ r > 1 => history[r - 1].recorded <= history[r].recorded
          /\ history[r].source = "reversal" =>
               history[r].ref < r /\ history[history[r].ref].kind = history[r].kind
      BY <1>3, <1>4, <2>1 DEF Intact
    <3> QED
      BY <1>4, <2>1, <3>1, <3>2, <3>3
  <2>2. CASE r = N + 1
    <3>1. r - 1 = N /\ (r > 1 => N \in 1 .. N)
      BY <1>4, <2>2
    <3>2. by = "reversal" => ref \in 1 .. N /\ history'[ref] = history[ref] /\ ref < N + 1
      BY <1>4
    <3> QED
      BY <1>2, <1>4, <1>5, <2>2, <3>1, <3>2
  <2> QED
    BY <1>4, <2>1, <2>2
<1>7. Chained'
  <2>1. ASSUME NEW r \in 1 .. N + 1, history'[r].source = "reversal"
        PROVE  history'[r].ref \in 1 .. r - 1 /\ history'[r].occurred = history'[r].recorded
    <3>1. CASE r \in 1 .. N
      BY <1>3, <1>4, <2>1, <3>1 DEF Chained
    <3>2. CASE r = N + 1
      <4>1. r - 1 = N
        BY <1>4, <3>2
      <4> QED
        BY <1>2, <1>4, <2>1, <3>2, <4>1
    <3> QED
      BY <1>4, <3>1, <3>2
  <2>2. ASSUME NEW r \in 1 .. N + 1, NEW s \in 1 .. N + 1, s <= r
        PROVE  history'[s].recorded <= history'[r].recorded
    <3>1. CASE r \in 1 .. N
      <4>1. s \in 1 .. N
        BY <1>4, <2>2, <3>1
      <4> QED
        BY <1>3, <1>4, <2>2, <3>1, <4>1 DEF Chained
    <3>2. CASE r = N + 1
      <4>1. s \in 1 .. N \/ s = N + 1
        BY <1>4
      <4> QED
        BY <1>2, <1>4, <1>5, <3>2, <4>1
    <3> QED
      BY <1>4, <3>1, <3>2
  <2> QED
    BY <1>4, <2>1, <2>2 DEF Chained
<1>8. Frozen'
  <2>1. received' \in 0 .. date' \cup {Never} /\ cohort.revision \in 0 .. N
    BY <1>1 DEF CaptureInv, Frozen, N
  <2>2. cohort'.revision \in 0 .. Len(history')
    BY <1>1, <1>4, <2>1
  <2>3. ASSUME cohort.member = "member"
        PROVE  /\ received # Never
               /\ cohort.milestones = Holding(received + Observation)'[cohort.revision]
    <3>1. received # Never /\ cohort.milestones = Holding(received + Observation)[cohort.revision]
      BY <2>3 DEF CaptureInv, Frozen
    <3>2. PICK horizon \in Int : horizon = received + Observation
      BY <1>4, <3>1, OutcomesAssumption DEF CaptureInv, Frozen
    <3>3. \A r \in 0 .. N : Holding(horizon)'[r] = Holding(horizon)[r]
      BY <1>1, <1>3, <1>6, <1>7, HoldingStands DEF HistoryWhole, N
    <3>4. Holding(received + Observation)' = Holding(horizon)'
      BY <1>1, <3>2
    <3> QED
      BY <2>1, <3>1, <3>2, <3>3, <3>4
  <2> QED
    BY <1>1, <2>1, <2>2, <2>3 DEF Frozen
<1>9. Bounded'
  <2>1. Len(history') <= MaxHistory
    BY <1>4, OutcomesAssumption DEF N
  <2> QED
    BY <1>1, <2>1 DEF CaptureInv, Bounded
<1> QED
  BY <1>6, <1>7, <1>8, <1>9 DEF CaptureInv

LEMMA CaptureInitially == OutcomesInit => CaptureInv
<1> SUFFICES ASSUME OutcomesInit PROVE CaptureInv
  OBVIOUS
<1>1. OutcomesInv
  BY OutcomesInitially
<1>2. history = << >> /\ Revisions = {} /\ Len(history) = 0 /\ date = 0
  BY DEF OutcomesInit, Revisions
<1>3. Intact /\ Chained
  BY <1>2 DEF Intact, Chained
<1>4. Frozen
  BY <1>2 DEF OutcomesInit, Frozen, NoCohort
<1>5. Bounded
  BY <1>2, OutcomesAssumption DEF Bounded
<1> QED
  BY <1>1, <1>3, <1>4, <1>5 DEF CaptureInv

LEMMA CaptureStep ==
  ASSUME CaptureInv, [OutcomesNext]_outcomeVars
  PROVE  CaptureInv'
<1>1. OutcomesInv /\ OutcomesInv' /\ Intact /\ Chained /\ Frozen /\ Bounded
  BY OutcomesStep DEF CaptureInv
<1>2. HistoryTyped /\ date \in Nat /\ MaxDate \in Nat
  BY <1>1, OutcomesAssumption DEF OutcomesInv, HistoryTyped
<1>3. ASSUME UNCHANGED history, date' \in Nat, date <= date', Frozen', Bounded'
      PROVE  CaptureInv'
  <2>1. Revisions' = Revisions
    BY <1>3 DEF Revisions
  <2>2. \A r \in Revisions : history[r].recorded \in Nat
    BY <1>2, EventTyped
  <2>3. Intact'
    BY <1>1, <1>2, <1>3, <2>1, <2>2 DEF Intact
  <2>4. Chained'
    BY <1>1, <1>3, <2>1 DEF Chained
  <2> QED
    BY <1>1, <1>3, <2>3, <2>4 DEF CaptureInv
<1>4. ASSUME NEW kind \in OwnerKinds, NEW occurred \in 0 .. MaxDate, NEW expected,
             RecordOwner(kind, occurred, expected)
      PROVE  CaptureInv'
  <2>1. /\ occurred \in 0 .. date /\ Len(history) < MaxHistory
        /\ AppendEvent(kind, "owner", 0, occurred)
    BY <1>4 DEF RecordOwner, MayAppend
  <2> QED
    BY <1>1, <2>1, AppendedWhole
<1>5. ASSUME NEW target, NEW expected, ReverseEvent(target, expected)
      PROVE  CaptureInv'
  <2>1. /\ target \in Revisions /\ date \in 0 .. date /\ Len(history) < MaxHistory
        /\ AppendEvent(history[target].kind, "reversal", target, date)
    BY <1>5 DEF ReverseEvent, MayAppend
  <2>2. PICK kind : kind = history[target].kind
    OBVIOUS
  <2> QED
    BY <1>1, <2>1, <2>2, AppendedWhole
<1>6. ASSUME NEW m \in Mail, NEW correlated \in BOOLEAN, ReadMail(m, correlated)
      PROVE  CaptureInv'
  <2>1. PICK kind : RecordMail(m, kind)
    BY <1>6 DEF ReadMail
  <2>2. Len(history) < MaxHistory
    BY <1>6 DEF ReadMail
  <2>3. CASE AppendEvent(kind, "email", m, ReceivedAt[m]) /\ ReceivedAt[m] \in 0 .. date
    BY <1>1, <2>2, <2>3, AppendedWhole
  <2>4. CASE UNCHANGED <<date, history, received, cohort>>
    <3>1. Holding(received + Observation)' = Holding(received + Observation)
      BY <2>4 DEF Holding
    <3>2. Frozen' /\ Bounded'
      BY <1>1, <2>4, <3>1 DEF Frozen, Bounded
    <3> QED
      BY <1>2, <1>3, <2>4, <3>2
  <2> QED
    BY <2>1, <2>3, <2>4 DEF RecordMail
<1>7. ASSUME NEW window \in Windows, Capture(window[1], window[2])
      PROVE  CaptureInv'
  <2> DEFINE member == Membership(window[1], window[2])
             horizon == received + Observation
  <2>1. /\ UNCHANGED <<date, history, noted, received>>
        /\ cohort'.revision = Len(history) /\ cohort'.member = member
        /\ member = "member" => cohort'.milestones = Milestones(horizon)
    BY <1>7 DEF Capture
  <2>2. ASSUME member = "member"
        PROVE  received # Never
    <3>1. CASE received = Never
      BY <2>2, <3>1 DEF Membership
    <3> QED
      BY <3>1
  <2>3. received # Never => horizon \in Int
    BY <1>1, <1>2, OutcomesAssumption DEF Frozen
  <2>4. received # Never => Milestones(horizon) = Holding(horizon)[Len(history)]
    <3> HIDE DEF horizon
    <3> QED
      BY <1>1, <1>2, <2>3, MilestonesHold
  <2>5. Holding(horizon)' = Holding(horizon)
    BY <2>1 DEF Holding
  <2>6. Len(history) \in 0 .. Len(history)
    BY <1>2 DEF HistoryTyped
  <2> HIDE DEF member
  <2>7. Frozen'
    BY <1>1, <2>1, <2>2, <2>4, <2>5, <2>6 DEF Frozen
  <2>8. Bounded'
    BY <1>1, <2>1 DEF Bounded
  <2> QED
    BY <1>2, <1>3, <2>1, <2>7, <2>8
<1>8. CASE Confirm
  <2>1. /\ received = Never /\ received' = date /\ UNCHANGED <<date, history, cohort>>
    BY <1>8 DEF Confirm
  <2>2. Frozen' /\ Bounded'
    BY <1>1, <1>2, <2>1 DEF Frozen, Bounded
  <2> QED
    BY <1>2, <1>3, <2>1, <2>2
<1>9. CASE Pass
  <2>1. date < MaxDate /\ date' = date + 1 /\ UNCHANGED <<history, received, cohort>>
    BY <1>9 DEF Pass
  <2>2. Holding(received + Observation)' = Holding(received + Observation)
    BY <2>1 DEF Holding
  <2>3. received' \in 0 .. date' \cup {Never}
    BY <1>1, <1>2, <2>1 DEF Frozen
  <2>4. Frozen'
    BY <1>1, <2>1, <2>2, <2>3 DEF Frozen
  <2>5. Bounded' /\ date' \in Nat /\ date <= date'
    BY <1>1, <1>2, <2>1 DEF Bounded
  <2> QED
    BY <1>3, <2>1, <2>4, <2>5
<1>10. CASE UNCHANGED outcomeVars
  <2>1. UNCHANGED <<date, history, received, cohort>>
    BY <1>10 DEF outcomeVars
  <2>2. Holding(received + Observation)' = Holding(received + Observation)
    BY <2>1 DEF Holding
  <2>3. Frozen' /\ Bounded'
    BY <1>1, <2>1, <2>2 DEF Frozen, Bounded
  <2> QED
    BY <1>2, <1>3, <2>1, <2>3
<1> QED
  BY <1>4, <1>5, <1>6, <1>7, <1>8, <1>9, <1>10 DEF OutcomesNext

\* The history that owner, reversals and mail write is always whole, and the milestones
\* a cohort froze are those its corrections leave; for any history and horizon.
THEOREM CohortsCorrected == OutcomesSpec => []CapturesCorrected
<1>1. OutcomesSpec => []CaptureInv
  BY CaptureInitially, CaptureStep, PTL DEF OutcomesSpec
<1>2. CaptureInv => CapturesCorrected
  BY DEF CaptureInv, Frozen, CapturesCorrected
<1> QED
  BY <1>1, <1>2, PTL

LEMMA CaptureTyped == CaptureInv => OutcomesTypeOK
<1> SUFFICES ASSUME CaptureInv PROVE OutcomesTypeOK
  OBVIOUS
<1>1. HistoryTyped /\ NotedTyped /\ Frozen /\ Bounded
  BY DEF CaptureInv, OutcomesInv
<1>2. \A r \in Revisions : history[r].kind \in Kinds /\ history[r].source \in {"owner", "email", "reversal"}
  <2>1. \A r \in Revisions : history[r] \in Event
    BY <1>1 DEF HistoryTyped, Revisions
  <2> QED
    BY <2>1 DEF Event
<1>3. date \in 0 .. MaxDate /\ Len(history) <= MaxHistory
  BY <1>1, OutcomesAssumption DEF HistoryTyped, Bounded
<1>4. \A m \in Mail : noted[m].kind \in Kinds \cup {"none"} /\ noted[m].at <= date
  BY <1>1 DEF NotedTyped
<1>5. received <= date
  BY <1>1 DEF Frozen, HistoryTyped, Never
<1>6. cohort.revision <= Len(history)
  BY <1>1 DEF Frozen, HistoryTyped
<1> QED
  BY <1>2, <1>3, <1>4, <1>5, <1>6 DEF OutcomesTypeOK

\* The events of an application, what was read in its mail and its cohort keep their types.
THEOREM OutcomesType == OutcomesSpec => []OutcomesTypeOK
  BY CaptureInitially, CaptureStep, CaptureTyped, PTL DEF OutcomesSpec

-----------------------------------------------------------------------------
(* Identities: the jobs of a vacancy and their applications                 *)

IdentitiesSpec == IdentitiesInit /\ [][IdentitiesNext]_identityVars

VacancyApp ==
  [ state : {"none", "open", "uncertain", "over", "DUPLICATE"} \cup Committed,
    born : Nat, attempt : {"none", "failed", "live"} ]

JobsTyped ==
  /\ parent \in [Jobs -> Jobs] /\ appOf \in [Jobs -> VacancyApp]
  /\ listedAs \in [Jobs -> Jobs \cup {"none"}]
  /\ recordedAs \in [Jobs -> Jobs \cup {"none", "unmatched"}]

\* Only a job that nothing was merged into is merged, so no merge is behind another.
Flat == \A j \in Jobs : parent[parent[j]] = parent[j]

\* Applications are told apart by their age, except what one split asserted of
\* both sides.
BornApart ==
  \A m, n \in Jobs : m # n /\ HasApp(m) /\ HasApp(n) /\ appOf[m].born = appOf[n].born =>
    appOf[m].state = "HISTORICAL_SUBMITTED" /\ appOf[n].state = "HISTORICAL_SUBMITTED"

BornInOrder ==
  /\ \A j \in Jobs : (HasApp(j) <=> appOf[j].born # 0) /\ appOf[j].born <= Births
  /\ BornApart

SameVacancy(m, n) == parent[m] = parent[n]

\* While no draft ends behind it, a state tells whether there is an attempt to settle.
StateTells ==
  \A j \in Jobs :
    /\ appOf[j].attempt = "live" => appOf[j].state \in {"uncertain", "CONFIRMED"}
    /\ appOf[j].state = "CONFIRMED" => appOf[j].attempt = "live"

OneSent ==
  \A m, n \in Jobs :
    SameVacancy(m, n) /\ MaybeSent(appOf[m]) /\ MaybeSent(appOf[n]) => m = n

Stands(j) == appOf[j].state \notin {"none", "DUPLICATE"}

OneStands == \A j \in Jobs : HasApp(j) => \E m \in Jobs : SameVacancy(m, j) /\ Stands(m)

VacancyInv == JobsTyped /\ Flat /\ BornInOrder /\ StateTells /\ OneSent /\ OneStands

LEMMA CountJobs ==
  ASSUME NEW S \in SUBSET Jobs
  PROVE  /\ IsFiniteSet(S) /\ Cardinality(S) \in Nat
         /\ Cardinality(S) <= 1 <=> \A m, n \in S : m = n
<1>1. IsFiniteSet(S) /\ Cardinality(S) \in Nat
  BY IdentitiesAssumption, FS_Subset, FS_CardinalityType
<1>2. ASSUME NEW m \in S, NEW n \in S, m # n
      PROVE  Cardinality(S) > 1
  <2>1. Cardinality({m}) = 1 /\ IsFiniteSet({m})
    BY FS_Singleton
  <2>2. Cardinality({m}) <= Cardinality(S) /\ (Cardinality({m}) = Cardinality(S) => {m} = S)
    BY <1>1, FS_Subset
  <2> QED
    BY <1>1, <1>2, <2>1, <2>2
<1>3. ASSUME \A m, n \in S : m = n
      PROVE  Cardinality(S) <= 1
  <2>1. CASE S = {}
    BY <2>1, FS_EmptySet
  <2>2. CASE S # {}
    <3>1. PICK m \in S : TRUE
      BY <2>2
    <3>2. S = {m}
      BY <1>3, <3>1
    <3> QED
      BY <3>2, FS_Singleton
  <2> QED
    BY <2>1, <2>2
<1> QED
  BY <1>1, <1>2, <1>3

\* jobIdentity climbs once, however often it may.
LEMMA CanonicalIsParent ==
  ASSUME JobsTyped, Flat, NEW j \in Jobs
  PROVE  Canonical(j) = parent[j]
<1> DEFINE N == Cardinality(Jobs)
           Climbs(f) == f = [n \in 0 .. N |-> IF n = 0 THEN j ELSE parent[f[n - 1]]]
           up == CHOOSE f : Climbs(f)
           straight == [n \in 0 .. N |-> IF n = 0 THEN j ELSE parent[j]]
<1>1. N \in Nat /\ N # 0
  BY IdentitiesAssumption, FS_CardinalityType, FS_EmptySet
<1>2. Canonical(j) = up[N]
  BY DEF Canonical
<1>3. Climbs(straight)
  <2>1. \A n \in 0 .. N : n # 0 => parent[straight[n - 1]] = parent[j]
    BY <1>1 DEF JobsTyped, Flat
  <2> QED
    BY <2>1
<1>4. Climbs(up)
  BY <1>3
<1> HIDE DEF up, N
<1>5. /\ up[0] = j
      /\ \A n \in 1 .. N : up[n] = parent[up[n - 1]]
  BY <1>1, <1>4
<1> DEFINE astray == {n \in 1 .. N : up[n] # parent[j]}
<1>6. astray = {}
  <2> SUFFICES ASSUME astray # {} PROVE FALSE
    OBVIOUS
  <2>1. PICK n \in astray : \A k \in astray : n <= k
    <3>1. astray \in SUBSET Nat
      BY <1>1
    <3> HIDE DEF astray
    <3> QED
      BY <3>1, LeastNumber
  <2>2. n # 1
    <3>1. 1 \in 1 .. N => up[1] = parent[up[0]]
      BY <1>5
    <3>2. n \in 1 .. N /\ up[n] # parent[j]
      BY <2>1
    <3> QED
      BY <1>5, <3>1, <3>2
  <2>3. n - 1 \in 1 .. N /\ n - 1 \notin astray
    BY <1>1, <2>1, <2>2
  <2>4. up[n] = parent[parent[j]]
    BY <1>1, <1>5, <2>1, <2>3
  <2> QED
    BY <2>1, <2>4 DEF Flat
<1> QED
  BY <1>1, <1>2, <1>6

LEMMA MembersShare ==
  ASSUME JobsTyped, Flat, NEW j \in Jobs
  PROVE  Members(j) = {m \in Jobs : SameVacancy(m, j)}
  BY CanonicalIsParent DEF Members, SameVacancy

\* Applications are not unmade, so their number only grows.
LEMMA BirthsGrow ==
  ASSUME JobsTyped, JobsTyped', \A j \in Jobs : HasApp(j) => HasApp(j)'
  PROVE  /\ Births \in Nat /\ Births' \in Nat /\ Births <= Births'
         /\ (\E j \in Jobs : ~HasApp(j) /\ HasApp(j)') => Births + 1 <= Births'
         /\ Births <= Cardinality(Jobs)
<1> DEFINE Before == {j \in Jobs : HasApp(j)}
           Afterwards == {j \in Jobs : HasApp(j)'}
<1>1. Births = Cardinality(Before) /\ Births' = Cardinality(Afterwards)
  BY DEF Births
<1>2. /\ IsFiniteSet(Before) /\ Cardinality(Before) \in Nat
      /\ IsFiniteSet(Afterwards) /\ Cardinality(Afterwards) \in Nat
  BY CountJobs
<1>3. Before \subseteq Afterwards
  OBVIOUS
<1>4. /\ Cardinality(Before) <= Cardinality(Afterwards)
      /\ Cardinality(Before) = Cardinality(Afterwards) => Before = Afterwards
  BY <1>2, <1>3, FS_Subset
<1>5. Cardinality(Before) <= Cardinality(Jobs)
  BY IdentitiesAssumption, FS_Subset
<1>6. ASSUME \E j \in Jobs : ~HasApp(j) /\ HasApp(j)'
      PROVE  Before # Afterwards
  BY <1>6
<1> HIDE DEF Before, Afterwards
<1> QED
  BY <1>1, <1>2, <1>4, <1>5, <1>6

\* A step that leaves every application its age, and gives a new one the next,
\* or two that it asserts at once.
LEMMA AgesKept ==
  ASSUME JobsTyped, JobsTyped', BornInOrder,
         \A j \in Jobs : HasApp(j) =>
           /\ HasApp(j)' /\ appOf'[j].born = appOf[j].born
           /\ appOf[j].state = "HISTORICAL_SUBMITTED" => appOf'[j].state = "HISTORICAL_SUBMITTED",
         \A j \in Jobs : ~HasApp(j) =>
           IF HasApp(j)' THEN appOf'[j].born = Births + 1 ELSE appOf'[j].born = 0,
         \A m, n \in Jobs : m # n /\ ~HasApp(m) /\ ~HasApp(n) /\ HasApp(m)' /\ HasApp(n)' =>
           appOf'[m].state = "HISTORICAL_SUBMITTED"
  PROVE  BornInOrder'
<1>1. /\ Births \in Nat /\ Births' \in Nat /\ Births <= Births'
      /\ (\E j \in Jobs : ~HasApp(j) /\ HasApp(j)') => Births + 1 <= Births'
  BY BirthsGrow
<1>2. \A j \in Jobs : appOf[j].born \in Nat /\ appOf'[j].born \in Nat
  BY DEF JobsTyped, VacancyApp
<1>3. ASSUME NEW j \in Jobs
      PROVE  (HasApp(j)' <=> appOf'[j].born # 0) /\ appOf'[j].born <= Births'
  BY <1>1, <1>2, <1>3 DEF BornInOrder
<1>4. ASSUME NEW m \in Jobs, NEW n \in Jobs, m # n, HasApp(m)', HasApp(n)',
             appOf'[m].born = appOf'[n].born
      PROVE  /\ appOf'[m].state = "HISTORICAL_SUBMITTED"
             /\ appOf'[n].state = "HISTORICAL_SUBMITTED"
  <2>1. CASE HasApp(m) /\ HasApp(n)
    BY <1>4, <2>1 DEF BornInOrder, BornApart
  <2>2. CASE ~HasApp(m) /\ ~HasApp(n)
    BY <1>4, <2>2
  <2>3. CASE HasApp(m) /\ ~HasApp(n)
    BY <1>1, <1>2, <1>4, <2>3 DEF BornInOrder
  <2>4. CASE ~HasApp(m) /\ HasApp(n)
    BY <1>1, <1>2, <1>4, <2>4 DEF BornInOrder
  <2> QED
    BY <2>1, <2>2, <2>3, <2>4
<1>5. BornApart'
  BY <1>4 DEF BornApart, HasApp
<1> QED
  BY <1>3, <1>5 DEF BornInOrder

\* Of applications nobody asserted, one is older than all others.
LEMMA OldestIsOne ==
  ASSUME JobsTyped, BornInOrder, NEW S \in SUBSET Jobs, S # {},
         \A m \in S : HasApp(m) /\ appOf[m].state # "HISTORICAL_SUBMITTED"
  PROVE  Oldest(S) \in S
<1> DEFINE ages == {appOf[m].born : m \in S}
<1>1. ages \in SUBSET Nat /\ ages # {}
  BY DEF JobsTyped, VacancyApp
<1>2. PICK age \in ages : \A n \in ages : age <= n
  <2> HIDE DEF ages
  <2> QED
    BY <1>1, LeastNumber
<1>3. PICK m \in S : age = appOf[m].born
  BY <1>2
<1>4. \A n \in S \ {m} : Older(m, n)
  <2> SUFFICES ASSUME NEW n \in S \ {m} PROVE appOf[m].born < appOf[n].born
    BY DEF Older
  <2>1. appOf[m].born <= appOf[n].born
    BY <1>2, <1>3
  <2>2. appOf[m].born # appOf[n].born
    BY DEF BornInOrder, BornApart
  <2>3. appOf[m].born \in Nat /\ appOf[n].born \in Nat
    BY DEF JobsTyped, VacancyApp
  <2> QED
    BY <2>1, <2>2, <2>3
<1> QED
  BY <1>4 DEF Oldest

LEMMA VacancyInvInit ==
  ASSUME IdentitiesInit
  PROVE  VacancyInv
<1>1. JobsTyped
  BY DEF IdentitiesInit, JobsTyped, VacancyApp, Committed
<1>2. Births = 0
  <2>1. {j \in Jobs : HasApp(j)} = {}
    BY DEF IdentitiesInit, HasApp
  <2> QED
    BY <2>1, FS_EmptySet DEF Births
<1>3. BornInOrder
  BY <1>2 DEF IdentitiesInit, BornInOrder, BornApart, HasApp
<1> QED
  BY <1>1, <1>3
     DEF IdentitiesInit, VacancyInv, Flat, StateTells, OneSent, OneStands, HasApp, SameVacancy, MaybeSent

LEMMA VacancyInvStutter ==
  ASSUME VacancyInv, UNCHANGED <<parent, appOf>>, JobsTyped'
  PROVE  VacancyInv'
<1>1. Births' = Births /\ \A j \in Jobs : HasApp(j)' = HasApp(j)
  BY DEF Births, HasApp
<1>2. BornInOrder'
  BY <1>1 DEF VacancyInv, BornInOrder, BornApart
<1> QED
  BY <1>1, <1>2 DEF VacancyInv, Flat, StateTells, OneSent, OneStands, SameVacancy, Stands, HasApp

\* What was sent engages its vacancy.
LEMMA SentEngages ==
  ASSUME VacancyInv, NEW j \in Jobs, ~Engaged(appOf[j])
  PROVE  ~MaybeSent(appOf[j]) /\ appOf[j].attempt # "live"
  BY DEF VacancyInv, StateTells, Engaged, MaybeSent, Committed

\* A step of one application that leaves it standing, and sends it only when no other
\* of its vacancy was.
LEMMA OneApplication ==
  ASSUME VacancyInv, JobsTyped', NEW x \in Jobs, NEW a \in VacancyApp,
         UNCHANGED parent, appOf' = [appOf EXCEPT ![x] = a],
         a.state \notin {"none", "DUPLICATE"},
         a.born = IF HasApp(x) THEN appOf[x].born ELSE Births + 1,
         appOf[x].state = "HISTORICAL_SUBMITTED" => a.state = "HISTORICAL_SUBMITTED",
         a.attempt = "live" => a.state \in {"uncertain", "CONFIRMED"},
         a.state = "CONFIRMED" => a.attempt = "live",
         MaybeSent(a) => \/ MaybeSent(appOf[x])
                    \/ \A m \in Jobs \ {x} : SameVacancy(m, x) => ~MaybeSent(appOf[m])
  PROVE  VacancyInv'
<1> USE DEF VacancyInv
<1>1. appOf'[x] = a /\ \A j \in Jobs \ {x} : appOf'[j] = appOf[j]
  BY DEF JobsTyped
<1>2. HasApp(x)' /\ \A j \in Jobs \ {x} : HasApp(j)' = HasApp(j)
  BY <1>1 DEF HasApp
<1>3. BornInOrder'
  <2>1. \A j \in Jobs : HasApp(j) =>
          /\ HasApp(j)' /\ appOf'[j].born = appOf[j].born
          /\ appOf[j].state = "HISTORICAL_SUBMITTED" => appOf'[j].state = "HISTORICAL_SUBMITTED"
    BY <1>1, <1>2
  <2>2. \A j \in Jobs : ~HasApp(j) =>
          IF HasApp(j)' THEN appOf'[j].born = Births + 1 ELSE appOf'[j].born = 0
    BY <1>1, <1>2 DEF BornInOrder
  <2>3. \A m, n \in Jobs : m # n /\ ~HasApp(m) /\ ~HasApp(n) /\ HasApp(m)' => ~HasApp(n)'
    BY <1>2
  <2> QED
    BY <2>1, <2>2, <2>3, AgesKept
<1>4. StateTells' /\ OneSent'
  <2>1. StateTells'
    BY <1>1 DEF StateTells
  <2>2. OneSent'
    BY <1>1 DEF OneSent, SameVacancy
  <2> QED
    BY <2>1, <2>2
<1>5. OneStands'
  <2> SUFFICES ASSUME NEW j \in Jobs, HasApp(j)'
               PROVE  \E m \in Jobs : SameVacancy(m, j)' /\ Stands(m)'
    BY DEF OneStands, HasApp
  <2>1. Stands(x)'
    BY <1>1 DEF Stands
  <2>2. CASE SameVacancy(x, j)
    BY <2>1, <2>2 DEF SameVacancy
  <2>3. CASE ~SameVacancy(x, j)
    <3>1. j # x /\ HasApp(j)
      BY <1>2, <2>3 DEF SameVacancy
    <3>2. PICK m \in Jobs : SameVacancy(m, j) /\ Stands(m)
      BY <3>1 DEF OneStands
    <3>3. m # x /\ Stands(m)' /\ SameVacancy(m, j)'
      BY <1>1, <2>3, <3>2 DEF Stands, SameVacancy
    <3> QED
      BY <3>3
  <2> QED
    BY <2>2, <2>3
<1>6. Flat'
  BY DEF Flat
<1> QED
  BY <1>3, <1>4, <1>5, <1>6

-----------------------------------------------------------------------------
(* The steps *)

LEMMA VacancyCreate ==
  ASSUME VacancyInv, NEW j \in Jobs, CreateApplication(j)
  PROVE  VacancyInv'
<1> USE DEF VacancyInv
<1> DEFINE root == parent[j]
<1>1. root \in Jobs /\ Canonical(j) = root /\ Members(j) = {m \in Jobs : SameVacancy(m, j)}
  BY CanonicalIsParent, MembersShare DEF JobsTyped
<1>2. PICK state \in {"open", "HISTORICAL_SUBMITTED"} :
        appOf' = [appOf EXCEPT ![root] = [state |-> state, born |-> Births + 1, attempt |-> "none"]]
  BY <1>1 DEF CreateApplication
<1> DEFINE a == [state |-> state, born |-> Births + 1, attempt |-> "none"]
<1>3. Births \in Nat
  BY CountJobs DEF Births
<1>4. a \in VacancyApp
  BY <1>3 DEF VacancyApp, Committed
<1>5. UNCHANGED <<parent, listedAs, recordedAs>> /\ ~HasApp(root)
  BY <1>1 DEF CreateApplication
<1>6. JobsTyped'
  BY <1>1, <1>2, <1>4, <1>5 DEF JobsTyped
<1>7. \A m \in Jobs : SameVacancy(m, root) => ~MaybeSent(appOf[m])
  BY <1>1 DEF CreateApplication, SameVacancy, Flat, StateTells, MaybeSent
<1>8. a.state = state /\ a.born = Births + 1 /\ a.attempt = "none"
  OBVIOUS
<1>9. appOf[root].state = "none"
  BY <1>5 DEF HasApp
<1> HIDE DEF a, root, VacancyInv
<1> QED
  BY <1>1, <1>2, <1>4, <1>5, <1>6, <1>7, <1>8, <1>9, OneApplication DEF a

\* The steps of an application that has been made.
LEMMA VacancyMoveOn ==
  ASSUME VacancyInv, NEW j \in Jobs, BeginSubmission(j) \/ ResolveSubmission(j) \/ SkipOrClose(j)
  PROVE  VacancyInv'
<1> DEFINE a == appOf'[j]
<1>1. appOf[j] \in VacancyApp /\ appOf[j].state \in {"open", "uncertain"}
  BY DEF VacancyInv, JobsTyped, BeginSubmission, ResolveSubmission, SkipOrClose
<1>2. /\ appOf' = [appOf EXCEPT ![j] = a] /\ UNCHANGED <<parent, listedAs, recordedAs>>
      /\ a \in VacancyApp /\ a.born = appOf[j].born /\ a.state \notin {"none", "DUPLICATE"}
      /\ a.attempt = "live" => a.state \in {"uncertain", "CONFIRMED"}
      /\ a.state = "CONFIRMED" => a.attempt = "live"
      /\ MaybeSent(a) => \/ MaybeSent(appOf[j])
                    \/ \A m \in Members(j) \ {j} : ~Engaged(appOf[m])
  <2>0. appOf \in [Jobs -> VacancyApp]
    BY DEF VacancyInv, JobsTyped
  <2>1. CASE BeginSubmission(j)
    BY <1>1, <2>0, <2>1 DEF BeginSubmission, VacancyApp
  <2>2. CASE ResolveSubmission(j)
    <3>1. MaybeSent(appOf[j]) /\ UNCHANGED <<parent, listedAs, recordedAs>>
      BY <2>2 DEF ResolveSubmission, MaybeSent
    <3>2. CASE appOf' = [appOf EXCEPT ![j].state = "CONFIRMED"]
      <4>1. a = [appOf[j] EXCEPT !.state = "CONFIRMED"] /\ appOf[j].attempt = "live"
        BY <2>0, <2>2, <3>2 DEF ResolveSubmission
      <4> QED
        BY <1>1, <2>0, <3>1, <3>2, <4>1 DEF VacancyApp, Committed
    <3>3. CASE appOf' = [appOf EXCEPT ![j].state = "open", ![j].attempt = "failed"]
      <4>1. a = [appOf[j] EXCEPT !.state = "open", !.attempt = "failed"]
        BY <2>0, <3>3
      <4> QED
        BY <1>1, <2>0, <3>1, <3>3, <4>1 DEF VacancyApp
    <3> QED
      BY <2>2, <3>2, <3>3 DEF ResolveSubmission
  <2>3. CASE SkipOrClose(j)
    <3>1. appOf[j].state = "open" /\ appOf[j].attempt # "live"
      BY <2>3 DEF SkipOrClose, VacancyInv, StateTells
    <3> QED
      BY <1>1, <2>0, <2>3, <3>1 DEF SkipOrClose, VacancyApp, MaybeSent
  <2> QED
    BY <2>1, <2>2, <2>3
<1>3. JobsTyped'
  BY <1>2 DEF VacancyInv, JobsTyped
<1>4. Members(j) = {m \in Jobs : SameVacancy(m, j)}
  BY MembersShare DEF VacancyInv
<1>5. HasApp(j)
  BY <1>1 DEF HasApp
<1>6. MaybeSent(a) => \/ MaybeSent(appOf[j])
                 \/ \A m \in Jobs \ {j} : SameVacancy(m, j) => ~MaybeSent(appOf[m])
  BY <1>2, <1>4, SentEngages
<1> HIDE DEF a
<1> QED
  BY <1>1, <1>2, <1>3, <1>5, <1>6, OneApplication

\* A packet that goes bad or is drafted anew, and a form that is rebuilt, bring back
\* what was not sent.
LEMMA VacancyReturn ==
  ASSUME VacancyInv, ~DraftsOverlap, NEW j \in Jobs, Invalidate(j) \/ SaveDraft(j) \/ Rebuild(j)
  PROVE  VacancyInv'
<1> DEFINE a == appOf'[j]
<1>1. appOf \in [Jobs -> VacancyApp] /\ appOf[j] \in VacancyApp
  BY DEF VacancyInv, JobsTyped
<1>2. HasApp(j) /\ appOf[j].attempt # "live" /\ appOf[j].state # "HISTORICAL_SUBMITTED"
  <2>1. CASE Invalidate(j)
    BY <2>1 DEF Invalidate, VacancyInv, StateTells, Committed
  <2>2. CASE SaveDraft(j)
    BY <2>2 DEF SaveDraft, MaybeSent
  <2>3. CASE Rebuild(j)
    BY <2>3 DEF Rebuild, HasApp
  <2> QED
    BY <2>1, <2>2, <2>3
<1>3. PICK state \in {"uncertain", "open"} : appOf' = [appOf EXCEPT ![j].state = state]
  BY DEF Invalidate, SaveDraft, Rebuild
<1>4. UNCHANGED <<parent, listedAs, recordedAs>>
  BY DEF Invalidate, SaveDraft, Rebuild
<1>5. /\ appOf' = [appOf EXCEPT ![j] = a] /\ a \in VacancyApp /\ a.born = appOf[j].born
      /\ a.state = state /\ a.attempt # "live"
  BY <1>1, <1>2, <1>3 DEF VacancyApp
<1>6. JobsTyped'
  BY <1>1, <1>4, <1>5 DEF VacancyInv, JobsTyped
<1>7. ~MaybeSent(a)
  BY <1>5 DEF MaybeSent
<1> HIDE DEF a
<1> QED
  BY <1>2, <1>4, <1>5, <1>6, <1>7, OneApplication

\* What applying history to one job of a vacancy leaves.
LEMMA SuppressedOne ==
  ASSUME NEW apps \in [Jobs -> VacancyApp], NEW members \in SUBSET Jobs, NEW j \in Jobs,
         Births \in Nat, NEW done, done = Suppressed(apps, members, j)
  PROVE  /\ done \in [Jobs -> VacancyApp]
         /\ \/ done = apps /\ \E m \in members : Engaged(apps[m])
            \/ /\ \A m \in members : ~Engaged(apps[m])
               /\ done = [apps EXCEPT ![j] = done[j]]
               /\ done[j].state = "HISTORICAL_SUBMITTED" /\ done[j].attempt = apps[j].attempt
               /\ done[j].born = IF apps[j].born = 0 THEN Births + 1 ELSE apps[j].born
<1>1. CASE \E m \in members : Engaged(apps[m])
  BY <1>1 DEF Suppressed
<1>2. CASE \A m \in members : ~Engaged(apps[m])
  <2>1. done = [apps EXCEPT ![j].state = "HISTORICAL_SUBMITTED",
                            ![j].born = IF @ = 0 THEN Births + 1 ELSE @]
    BY <1>2 DEF Suppressed
  <2>2. apps[j] \in VacancyApp
    OBVIOUS
  <2> DEFINE born == IF apps[j].born = 0 THEN Births + 1 ELSE apps[j].born
  <2>a. born \in Nat
    BY <2>2 DEF VacancyApp
  <2>b. done[j] = [apps[j] EXCEPT !.state = "HISTORICAL_SUBMITTED", !.born = born]
    BY <2>1
  <2>3. /\ done[j] \in VacancyApp /\ done[j].state = "HISTORICAL_SUBMITTED"
        /\ done[j].born = born /\ done[j].attempt = apps[j].attempt
    <3> HIDE DEF born
    <3> QED
      BY <2>2, <2>a, <2>b DEF VacancyApp, Committed
  <2>4. done = [apps EXCEPT ![j] = done[j]]
    BY <2>1
  <2> QED
    BY <1>2, <2>3, <2>4
<1> QED
  BY <1>1, <1>2

LEMMA VacancySuppress ==
  ASSUME VacancyInv, NEW j \in Jobs, Suppress(j), UNCHANGED parent,
         listedAs' \in [Jobs -> Jobs \cup {"none"}],
         recordedAs' \in [Jobs -> Jobs \cup {"none", "unmatched"}]
  PROVE  VacancyInv'
<1>1. Births \in Nat
  BY CountJobs DEF Births
<1>2. Members(j) = {m \in Jobs : SameVacancy(m, j)}
  BY MembersShare DEF VacancyInv
<1>3. appOf \in [Jobs -> VacancyApp]
  BY DEF VacancyInv, JobsTyped
<1>a. Members(j) \in SUBSET Jobs /\ appOf' = Suppressed(appOf, Members(j), j)
  BY <1>2 DEF Suppress
<1> DEFINE members == Members(j)
           after == appOf'
<1>4. /\ after \in [Jobs -> VacancyApp]
      /\ \/ after = appOf /\ \E m \in members : Engaged(appOf[m])
         \/ /\ \A m \in members : ~Engaged(appOf[m])
            /\ after = [appOf EXCEPT ![j] = after[j]]
            /\ after[j].state = "HISTORICAL_SUBMITTED" /\ after[j].attempt = appOf[j].attempt
            /\ after[j].born = IF appOf[j].born = 0 THEN Births + 1 ELSE appOf[j].born
  <2>1. members \in SUBSET Jobs /\ after = Suppressed(appOf, members, j)
    BY <1>a
  <2> HIDE DEF members, after
  <2> QED
    BY <1>1, <1>3, <2>1, SuppressedOne
<1>5. JobsTyped'
  BY <1>4 DEF VacancyInv, JobsTyped
<1>6. CASE appOf' = appOf
  BY <1>5, <1>6, VacancyInvStutter
<1>7. CASE appOf' # appOf
  <2> DEFINE a == appOf'[j]
  <2>1. /\ \A m \in Jobs : SameVacancy(m, j) => ~Engaged(appOf[m])
        /\ appOf' = [appOf EXCEPT ![j] = a] /\ a \in VacancyApp
        /\ a.state = "HISTORICAL_SUBMITTED" /\ a.attempt = appOf[j].attempt
        /\ a.born = IF HasApp(j) THEN appOf[j].born ELSE Births + 1
    BY <1>2, <1>4, <1>7 DEF VacancyInv, BornInOrder
  <2>2. \A m \in Jobs : SameVacancy(m, j) => ~MaybeSent(appOf[m])
    BY <2>1, SentEngages
  <2>3. ~Engaged(appOf[j])
    BY <2>1 DEF SameVacancy
  <2>4. a.attempt # "live"
    BY <2>1, <2>3, SentEngages
  <2> HIDE DEF a
  <2> QED
    BY <1>5, <2>1, <2>2, <2>4, OneApplication
<1> QED
  BY <1>6, <1>7

LEMMA VacancyImport ==
  ASSUME VacancyInv, NEW p \in Jobs, ImportRecord(p)
  PROVE  VacancyInv'
<1>1. /\ listedAs \in [Jobs -> Jobs \cup {"none"}]
      /\ recordedAs \in [Jobs -> Jobs \cup {"none", "unmatched"}]
      /\ UNCHANGED <<parent, listedAs>>
  BY DEF VacancyInv, JobsTyped, ImportRecord
<1>2. recordedAs' \in [Jobs -> Jobs \cup {"none", "unmatched"}]
  BY <1>1 DEF ImportRecord
<1>3. CASE listedAs[p] = "none"
  <2>1. UNCHANGED appOf
    BY <1>3 DEF ImportRecord
  <2>2. JobsTyped'
    BY <1>1, <1>2, <2>1 DEF VacancyInv, JobsTyped
  <2> QED
    BY <1>1, <2>1, <2>2, VacancyInvStutter
<1>4. CASE listedAs[p] # "none"
  <2>1. listedAs[p] \in Jobs /\ Suppress(listedAs[p])
    BY <1>1, <1>4 DEF ImportRecord
  <2> QED
    BY <1>1, <1>2, <2>1, VacancySuppress
<1> QED
  BY <1>3, <1>4

LEMMA VacancyIngest ==
  ASSUME VacancyInv, NEW p \in Jobs, IngestPosting(p)
  PROVE  VacancyInv'
<1> DEFINE known == IF listedAs[p] = "none" THEN p ELSE listedAs[p]
           job == Canonical(known)
<1>1. /\ listedAs \in [Jobs -> Jobs \cup {"none"}] /\ parent \in [Jobs -> Jobs]
      /\ recordedAs \in [Jobs -> Jobs \cup {"none", "unmatched"}]
  BY DEF VacancyInv, JobsTyped
<1>2. known \in Jobs
  BY <1>1
<1>3. job \in Jobs
  <2> HIDE DEF known
  <2> QED
    BY <1>1, <1>2, CanonicalIsParent DEF VacancyInv
<1>4. /\ listedAs' = [listedAs EXCEPT ![p] = IF @ = "none" THEN job ELSE @]
      /\ recordedAs' = [recordedAs EXCEPT ![p] = IF @ = "none" THEN @ ELSE job]
      /\ Suppress(job) \/ UNCHANGED appOf
      /\ UNCHANGED parent
  BY DEF IngestPosting
<1> HIDE DEF job
<1>5. /\ listedAs' \in [Jobs -> Jobs \cup {"none"}]
      /\ recordedAs' \in [Jobs -> Jobs \cup {"none", "unmatched"}]
  BY <1>1, <1>3, <1>4
<1>6. CASE UNCHANGED appOf
  <2>1. JobsTyped'
    BY <1>4, <1>5, <1>6 DEF VacancyInv, JobsTyped
  <2> QED
    BY <1>4, <1>6, <2>1, VacancyInvStutter
<1>7. CASE Suppress(job)
  BY <1>3, <1>4, <1>5, <1>7, VacancySuppress
<1> QED
  BY <1>4, <1>6, <1>7

\* A job that another was merged into is not merged, so its identity is its own.
LEMMA MergedRoots ==
  ASSUME VacancyInv, NEW from \in Jobs, NEW to \in Jobs, Mergeable(from, to)
  PROVE  /\ from # to /\ parent[from] = from /\ parent[to] = to
         /\ \A m \in Jobs : parent[m] = from => m = from
         /\ Members(to) = {m \in Jobs : parent[m] = to}
         /\ \A m \in {from} \cup Members(to) : appOf[m].state # "uncertain"
<1>1. Canonical(from) = parent[from] /\ Canonical(to) = parent[to]
  BY CanonicalIsParent DEF VacancyInv
<1>2. /\ Members(from) = {m \in Jobs : SameVacancy(m, from)}
      /\ Members(to) = {m \in Jobs : SameVacancy(m, to)}
  BY MembersShare DEF VacancyInv
<1>3. /\ from # to /\ Canonical(from) = from /\ Canonical(to) = to /\ Members(from) = {from}
      /\ \A m \in {from} \cup Members(to) : appOf[m].state # "uncertain"
  BY DEF Mergeable, MergeableUncommitted
<1>4. ASSUME NEW m \in Jobs, parent[m] = from
      PROVE  m = from
  BY <1>1, <1>2, <1>3, <1>4 DEF SameVacancy
<1>5. Members(to) = {m \in Jobs : parent[m] = to}
  BY <1>1, <1>2, <1>3 DEF SameVacancy
<1> QED
  BY <1>1, <1>3, <1>4, <1>5

\* A merge leaves exactly one application of the two vacancies, if they have any.
LEMMA MergeWinner ==
  ASSUME VacancyInv, NEW from \in Jobs, NEW to \in Jobs, Mergeable(from, to),
         NEW both, both = {from} \cup Members(to),
         NEW live, live = {m \in both : appOf[m].state \notin {"none", "DUPLICATE"}}
  PROVE  /\ live # {} => Winner(live) \in live
         /\ \A m \in both : appOf[m].state \in Committed => m = Winner(live)
<1>1. both \in SUBSET Jobs /\ live \in SUBSET both
  BY MergedRoots
<1> DEFINE settled == {m \in live : appOf[m].state \in Committed}
<1>2. settled = {m \in both : appOf[m].state \in Committed}
  BY DEF Committed
<1>3. \A m, n \in settled : m = n
  <2>1. Cardinality(settled) <= 1 /\ settled \in SUBSET Jobs
    BY <1>1, <1>2 DEF Mergeable
  <2> HIDE DEF settled
  <2> QED
    BY <2>1, CountJobs
<1>4. CASE settled # {}
  <2>1. Winner(live) = CHOOSE m \in settled : TRUE
    BY <1>4 DEF Winner
  <2>2. Winner(live) \in settled
    <3> HIDE DEF settled
    <3> QED
      BY <1>4, <2>1
  <2> QED
    BY <1>2, <1>3, <2>2
<1>5. CASE settled = {}
  <2>1. Winner(live) = Oldest(live)
    BY <1>5 DEF Winner
  <2>2. live \in SUBSET Jobs /\ \A m \in live : HasApp(m) /\ appOf[m].state # "HISTORICAL_SUBMITTED"
    BY <1>1, <1>2, <1>5 DEF HasApp, Committed
  <2>3. live # {} => Oldest(live) \in live
    BY <2>2, OldestIsOne DEF VacancyInv
  <2> QED
    BY <1>2, <1>5, <2>1, <2>3
<1> QED
  BY <1>4, <1>5

LEMMA VacancyMerge ==
  ASSUME VacancyInv, NEW from \in Jobs, NEW to \in Jobs, MergeJobs(from, to)
  PROVE  VacancyInv'
<1> DEFINE both == {from} \cup Members(to)
           live == {m \in both : appOf[m].state \notin {"none", "DUPLICATE"}}
           winner == Winner(live)
<1>1. /\ Mergeable(from, to) /\ parent' = [parent EXCEPT ![from] = to]
      /\ appOf' = [j \in Jobs |->
           IF j \in live /\ j # winner THEN WithState(j, "DUPLICATE") ELSE appOf[j]]
      /\ listedAs' = Moved(listedAs, from, to) /\ recordedAs' = Moved(recordedAs, from, to)
  BY DEF MergeJobs
<1>2. /\ from # to /\ parent[from] = from /\ parent[to] = to
      /\ \A m \in Jobs : parent[m] = from => m = from
      /\ both = {from} \cup {m \in Jobs : parent[m] = to}
      /\ \A m \in both : appOf[m].state # "uncertain"
  BY <1>1, MergedRoots
<1>3. /\ live # {} => winner \in live
      /\ \A m \in both : appOf[m].state \in Committed => m = winner
  <2>1. both = {from} \cup Members(to) /\ live = {m \in both : appOf[m].state \notin {"none", "DUPLICATE"}}
    OBVIOUS
  <2> HIDE DEF both, live
  <2> QED
    BY <1>1, <2>1, MergeWinner
<1>4. parent \in [Jobs -> Jobs] /\ appOf \in [Jobs -> VacancyApp]
  BY DEF VacancyInv, JobsTyped
<1>5. live = {m \in both : appOf[m].state \notin {"none", "DUPLICATE"}} /\ both \in SUBSET Jobs
  BY <1>2
<1> HIDE DEF both, live, winner
<1>6. ASSUME NEW j \in Jobs
      PROVE  /\ appOf'[j] \in VacancyApp /\ appOf'[j].born = appOf[j].born
             /\ appOf'[j].attempt = appOf[j].attempt
             /\ appOf'[j].state = IF j \in live /\ j # winner THEN "DUPLICATE" ELSE appOf[j].state
  <2>1. appOf'[j] = IF j \in live /\ j # winner THEN WithState(j, "DUPLICATE") ELSE appOf[j]
    BY <1>1
  <2>2. appOf[j] \in VacancyApp
    BY <1>4
  <2> QED
    BY <2>1, <2>2 DEF WithState, VacancyApp
<1>7. JobsTyped'
  <2>1. appOf' \in [Jobs -> VacancyApp]
    BY <1>1, <1>6
  <2>2. /\ listedAs' \in [Jobs -> Jobs \cup {"none"}]
        /\ recordedAs' \in [Jobs -> Jobs \cup {"none", "unmatched"}]
    BY <1>1 DEF VacancyInv, JobsTyped, Moved
  <2> QED
    BY <1>1, <1>4, <2>1, <2>2 DEF JobsTyped
<1>8. Flat'
  BY <1>1, <1>2, <1>4 DEF VacancyInv, Flat
<1>9. \A j \in Jobs : HasApp(j)' <=> HasApp(j)
  BY <1>5, <1>6 DEF HasApp
<1>10. BornInOrder'
  <2>1. ASSUME NEW j \in Jobs, appOf[j].state = "HISTORICAL_SUBMITTED"
        PROVE  appOf'[j].state = "HISTORICAL_SUBMITTED"
    BY <1>3, <1>5, <1>6, <2>1 DEF Committed
  <2>2. \A j \in Jobs : ~HasApp(j) => appOf'[j].born = 0
    BY <1>6 DEF VacancyInv, BornInOrder
  <2> QED
    BY <1>6, <1>7, <1>9, <2>1, <2>2, AgesKept DEF VacancyInv
<1>11. \A j \in Jobs : parent'[j] = IF j \in both THEN to ELSE parent[j]
  BY <1>1, <1>2, <1>4
<1>12. \A j \in Jobs \ both : parent[j] # to
  BY <1>2
<1>13. StateTells' /\ OneSent'
  <2>1. ASSUME NEW j \in live, j # winner
        PROVE  appOf[j].attempt # "live"
    <3>1. j \in both /\ j \in Jobs /\ appOf[j].state \notin {"uncertain", "CONFIRMED"}
      BY <1>2, <1>3, <1>5, <2>1 DEF Committed
    <3> QED
      BY <3>1 DEF VacancyInv, StateTells
  <2>2. StateTells'
    <3> SUFFICES ASSUME NEW j \in Jobs
                 PROVE  /\ appOf'[j].attempt = "live" => appOf'[j].state \in {"uncertain", "CONFIRMED"}
                        /\ appOf'[j].state = "CONFIRMED" => appOf'[j].attempt = "live"
      BY DEF StateTells
    <3> QED
      BY <1>6, <2>1 DEF VacancyInv, StateTells
  <2>3. ASSUME NEW j \in Jobs, MaybeSent(appOf'[j])
        PROVE  MaybeSent(appOf[j]) /\ (j \in both => j = winner)
    <3>1. MaybeSent(appOf[j])
      BY <1>6, <2>3 DEF MaybeSent
    <3>2. j \in both => appOf[j].state \in Committed
      BY <1>2, <3>1 DEF VacancyInv, StateTells, MaybeSent, Committed
    <3> QED
      BY <1>3, <3>1, <3>2
  <2>4. ASSUME NEW m \in Jobs, NEW n \in Jobs, parent'[m] = parent'[n],
               MaybeSent(appOf'[m]), MaybeSent(appOf'[n])
        PROVE  m = n
    <3>1. CASE m \in both
      BY <1>11, <1>12, <2>3, <2>4, <3>1
    <3>2. CASE m \notin both
      <4>1. n \notin both /\ SameVacancy(m, n)
        BY <1>11, <1>12, <2>4, <3>2 DEF SameVacancy
      <4> QED
        BY <2>3, <2>4, <4>1 DEF VacancyInv, OneSent
    <3> QED
      BY <3>1, <3>2
  <2>5. OneSent'
    BY <2>4 DEF OneSent, SameVacancy
  <2> QED
    BY <2>2, <2>5
<1>14. OneStands'
  <2> SUFFICES ASSUME NEW j \in Jobs, HasApp(j)
               PROVE  \E m \in Jobs : parent'[m] = parent'[j] /\ Stands(m)'
    BY <1>9 DEF OneStands, SameVacancy, HasApp
  <2>1. PICK m \in Jobs : SameVacancy(m, j) /\ Stands(m)
    BY DEF VacancyInv, OneStands
  <2>2. m \in both <=> j \in both
    BY <1>2, <2>1 DEF SameVacancy
  <2>3. CASE j \in both
    <3>1. winner \in live
      BY <1>3, <1>5, <2>1, <2>2, <2>3 DEF Stands
    <3>2. PICK w \in Jobs : w = winner
      BY <1>5, <3>1
    <3>3. w \in both /\ Stands(w)'
      BY <1>5, <1>6, <3>1, <3>2 DEF Stands
    <3> QED
      BY <1>11, <2>3, <3>3
  <2>4. CASE j \notin both
    <3>1. Stands(m)' /\ parent'[m] = parent'[j]
      BY <1>5, <1>6, <1>11, <2>1, <2>2, <2>4 DEF Stands, SameVacancy
    <3> QED
      BY <3>1
  <2> QED
    BY <2>3, <2>4
<1> QED
  BY <1>7, <1>8, <1>10, <1>13, <1>14 DEF VacancyInv

\* Where only duplicates are left, one of them stands again.
LEMMA RestartedOne ==
  ASSUME VacancyInv, NEW apps \in [Jobs -> VacancyApp], NEW rest \in SUBSET Jobs,
         \A m \in rest : apps[m] = appOf[m],
         NEW done, done = Restarted(apps, rest)
  PROVE  /\ done \in [Jobs -> VacancyApp]
         /\ \A m \in Jobs \ rest : done[m] = apps[m]
         /\ \A m \in rest :
              /\ done[m].born = appOf[m].born /\ done[m].attempt = appOf[m].attempt
              /\ done[m].state = appOf[m].state
                 \/ (appOf[m].state = "DUPLICATE" /\ done[m].state = "open")
         /\ (\E m \in rest : HasApp(m)) =>
              \E m \in rest : done[m].state \notin {"none", "DUPLICATE"}
<1> DEFINE kept == {m \in rest : apps[m].state # "none"}
<1>1. kept \in SUBSET rest /\ \A m \in rest : m \in kept <=> HasApp(m)
  BY DEF HasApp
<1>2. CASE kept # {} /\ \A m \in kept : apps[m].state = "DUPLICATE"
  <2>1. done = [apps EXCEPT ![Oldest(kept)].state = "open"]
    BY <1>2 DEF Restarted
  <2>2. \A m \in kept : HasApp(m) /\ appOf[m].state # "HISTORICAL_SUBMITTED"
    BY <1>1, <1>2
  <2> HIDE DEF kept
  <2>3. Oldest(kept) \in kept
    BY <1>1, <1>2, <2>2, OldestIsOne DEF VacancyInv
  <2>4. PICK old \in kept : old = Oldest(kept)
    BY <2>3
  <2>5. old \in rest /\ apps[old] \in VacancyApp /\ apps[old].state = "DUPLICATE"
    BY <1>1, <1>2, <2>4
  <2>6. done = [apps EXCEPT ![old].state = "open"]
    BY <2>1, <2>4
  <2>7. /\ done[old] \in VacancyApp /\ done[old].state = "open" /\ done[old].born = apps[old].born
        /\ done[old].attempt = apps[old].attempt
        /\ \A m \in Jobs \ {old} : done[m] = apps[m]
    BY <2>5, <2>6 DEF VacancyApp
  <2>8. done \in [Jobs -> VacancyApp]
    BY <2>6, <2>7
  <2>9. \A m \in rest :
          /\ done[m].born = appOf[m].born /\ done[m].attempt = appOf[m].attempt
          /\ done[m].state = appOf[m].state
             \/ (appOf[m].state = "DUPLICATE" /\ done[m].state = "open")
    BY <2>5, <2>7
  <2>10. \E m \in rest : done[m].state \notin {"none", "DUPLICATE"}
    BY <2>5, <2>7
  <2>11. \A m \in Jobs \ rest : done[m] = apps[m]
    BY <2>5, <2>7
  <2> QED
    BY <2>8, <2>9, <2>10, <2>11
<1>3. CASE ~(kept # {} /\ \A m \in kept : apps[m].state = "DUPLICATE")
  <2>1. done = apps
    BY <1>3 DEF Restarted
  <2>2. ASSUME \E m \in rest : HasApp(m)
        PROVE  \E m \in rest : done[m].state \notin {"none", "DUPLICATE"}
    BY <1>1, <1>3, <2>1, <2>2
  <2>3. \A m \in rest :
          /\ done[m].born = appOf[m].born /\ done[m].attempt = appOf[m].attempt
          /\ done[m].state = appOf[m].state
             \/ (appOf[m].state = "DUPLICATE" /\ done[m].state = "open")
    BY <2>1
  <2>4. done \in [Jobs -> VacancyApp] /\ \A m \in Jobs \ rest : done[m] = apps[m]
    BY <2>1
  <2> QED
    BY <2>2, <2>3, <2>4
<1> QED
  BY <1>2, <1>3

\* What a split leaves of the applications: the job that leaves has none that is
\* a duplicate; those it leaves are what they were, but for one that stands again
\* and, when none of them is engaged, the history of the job they are of.  No attempt
\* is made or settled.
SplitLeaves(from, to, rest) ==
  /\ appOf' \in [Jobs -> VacancyApp]
  /\ \A j \in Jobs : HasApp(j) =>
       /\ HasApp(j)' /\ appOf'[j].born = appOf[j].born
       /\ appOf[j].state = "HISTORICAL_SUBMITTED" => appOf'[j].state = "HISTORICAL_SUBMITTED"
  /\ \A j \in Jobs : ~HasApp(j) =>
       \/ ~HasApp(j)' /\ appOf'[j].born = 0
       \/ appOf'[j].state = "HISTORICAL_SUBMITTED" /\ appOf'[j].born = Births + 1
  /\ \A j \in Jobs \ (rest \cup {from}) : appOf'[j] = appOf[j]
  /\ appOf'[from].state # "DUPLICATE"
  /\ \/ \A m \in rest : MaybeSent(appOf'[m]) => MaybeSent(appOf[m])
     \/ \A m \in rest : MaybeSent(appOf'[m]) => m = to
  /\ StateTells'
  /\ (\E m \in rest : HasApp(m)') => \E m \in rest : Stands(m)'

LEMMA SplitApplications ==
  ASSUME VacancyInv, NEW from \in Jobs, SplitJobs(from),
         NEW to, to = parent[from], NEW rest, rest = {m \in Jobs : parent[m] = to} \ {from}
  PROVE  SplitLeaves(from, to, rest)
<1> DEFINE records == [p \in Jobs |->
             IF p = from /\ listedAs[p] # "none" /\ recordedAs[p] # "none" THEN from ELSE recordedAs[p]]
           apart == [appOf EXCEPT ![from].state = IF @ = "DUPLICATE" THEN "open" ELSE @]
           hasRecord(j) == \E p \in Jobs : records[p] = j
           left == IF hasRecord(from) THEN Suppressed(apart, {from}, from) ELSE apart
           again == Restarted(left, rest)
<1>1. /\ to \in Jobs /\ parent[to] = to /\ Canonical(to) = to
      /\ Members(to) = {m \in Jobs : parent[m] = to}
  <2>1. to \in Jobs /\ parent[to] = to
    BY DEF VacancyInv, JobsTyped, Flat
  <2>2. Canonical(to) = parent[to] /\ Members(to) = {m \in Jobs : SameVacancy(m, to)}
    BY <2>1, CanonicalIsParent, MembersShare DEF VacancyInv
  <2> QED
    BY <2>1, <2>2 DEF SameVacancy
<1>2. /\ rest = Members(to) \ {from} /\ rest \in SUBSET Jobs /\ from \notin rest
      /\ to # from /\ to \in rest
  BY <1>1 DEF SplitJobs
<1>3. appOf' = IF hasRecord(to) THEN Suppressed(again, rest, to) ELSE again
  BY <1>2 DEF SplitJobs
<1>4. Births \in Nat /\ appOf \in [Jobs -> VacancyApp]
  BY CountJobs DEF Births, VacancyInv, JobsTyped
<1>5. \A j \in Jobs : HasApp(j) <=> appOf[j].born # 0
  BY DEF VacancyInv, BornInOrder
<1>6. /\ apart \in [Jobs -> VacancyApp] /\ \A m \in Jobs \ {from} : apart[m] = appOf[m]
      /\ apart[from].born = appOf[from].born /\ apart[from].attempt = appOf[from].attempt
      /\ apart[from].state # "DUPLICATE"
      /\ apart[from].state = appOf[from].state
         \/ (appOf[from].state = "DUPLICATE" /\ apart[from].state = "open")
  <2>1. appOf[from] \in VacancyApp
    BY <1>4
  <2>2. apart[from] = [appOf[from] EXCEPT !.state = IF @ = "DUPLICATE" THEN "open" ELSE @]
    BY <1>4
  <2>3. /\ apart[from] \in VacancyApp
        /\ apart[from].born = appOf[from].born /\ apart[from].attempt = appOf[from].attempt
        /\ apart[from].state # "DUPLICATE"
        /\ apart[from].state = appOf[from].state
           \/ (appOf[from].state = "DUPLICATE" /\ apart[from].state = "open")
    <3> DEFINE state == IF appOf[from].state = "DUPLICATE" THEN "open" ELSE appOf[from].state
    <3>1. /\ state \in {"none", "open", "uncertain", "over", "DUPLICATE"} \cup Committed
          /\ state # "DUPLICATE"
          /\ state = appOf[from].state \/ (appOf[from].state = "DUPLICATE" /\ state = "open")
      BY <2>1 DEF VacancyApp
    <3>2. apart[from] = [appOf[from] EXCEPT !.state = state]
      BY <2>2
    <3> HIDE DEF state
    <3> QED
      BY <2>1, <3>1, <3>2 DEF VacancyApp
  <2>4. apart \in [Jobs -> VacancyApp] /\ \A m \in Jobs \ {from} : apart[m] = appOf[m]
    BY <1>4, <2>2, <2>3
  <2> QED
    BY <2>3, <2>4
<1> HIDE DEF apart
<1>7. /\ left \in [Jobs -> VacancyApp] /\ \A m \in Jobs \ {from} : left[m] = appOf[m]
      /\ left[from].state # "DUPLICATE"
      /\ \/ left[from] = apart[from]
         \/ /\ ~Engaged(apart[from])
            /\ left[from].state = "HISTORICAL_SUBMITTED"
            /\ left[from].attempt = apart[from].attempt
            /\ left[from].born = IF appOf[from].born = 0 THEN Births + 1 ELSE appOf[from].born
  <2>1. CASE ~hasRecord(from)
    BY <1>6, <2>1
  <2>2. CASE hasRecord(from)
    <3> DEFINE alone == {from}
    <3>1. left = Suppressed(apart, alone, from) /\ alone \in SUBSET Jobs
      BY <2>2
    <3> HIDE DEF left, alone
    <3>2. /\ left \in [Jobs -> VacancyApp]
          /\ \/ left = apart
             \/ /\ \A m \in alone : ~Engaged(apart[m])
                /\ left = [apart EXCEPT ![from] = left[from]]
                /\ left[from].state = "HISTORICAL_SUBMITTED"
                /\ left[from].attempt = apart[from].attempt
                /\ left[from].born = IF apart[from].born = 0 THEN Births + 1 ELSE apart[from].born
      BY <1>4, <1>6, <3>1, SuppressedOne
    <3> QED
      BY <1>6, <3>2 DEF alone
  <2> QED
    BY <2>1, <2>2
<1> HIDE DEF left
<1>8. /\ again \in [Jobs -> VacancyApp]
      /\ \A m \in Jobs \ rest : again[m] = left[m]
      /\ \A m \in rest :
           /\ again[m].born = appOf[m].born /\ again[m].attempt = appOf[m].attempt
           /\ again[m].state = appOf[m].state
              \/ (appOf[m].state = "DUPLICATE" /\ again[m].state = "open")
      /\ (\E m \in rest : HasApp(m)) =>
           \E m \in rest : again[m].state \notin {"none", "DUPLICATE"}
  <2>1. again = Restarted(left, rest) /\ \A m \in rest : left[m] = appOf[m]
    BY <1>2, <1>7
  <2> HIDE DEF again
  <2> QED
    BY <1>2, <1>7, <2>1, RestartedOne
<1> DEFINE after == appOf'
<1>9. /\ after \in [Jobs -> VacancyApp]
      /\ \/ after = again
         \/ /\ \A m \in rest : ~Engaged(again[m])
            /\ after = [again EXCEPT ![to] = after[to]]
            /\ after[to].state = "HISTORICAL_SUBMITTED" /\ after[to].attempt = again[to].attempt
            /\ after[to].born = IF again[to].born = 0 THEN Births + 1 ELSE again[to].born
  <2>1. CASE ~hasRecord(to)
    BY <1>3, <1>8, <2>1
  <2>2. CASE hasRecord(to)
    <3> DEFINE others == rest
               mine == to
    <3>1. after = Suppressed(again, others, mine)
      BY <1>3, <2>2
    <3>2. /\ again \in [Jobs -> VacancyApp] /\ others \in SUBSET Jobs
          /\ mine \in Jobs /\ Births \in Nat
      BY <1>1, <1>2, <1>4, <1>8
    <3> HIDE DEF after, again, others, mine
    <3>3. /\ after \in [Jobs -> VacancyApp]
          /\ \/ after = again
             \/ /\ \A m \in others : ~Engaged(again[m])
                /\ after = [again EXCEPT ![mine] = after[mine]]
                /\ after[mine].state = "HISTORICAL_SUBMITTED"
                /\ after[mine].attempt = again[mine].attempt
                /\ after[mine].born = IF again[mine].born = 0 THEN Births + 1 ELSE again[mine].born
      BY <3>1, <3>2, SuppressedOne
    <3> QED
      BY <3>3 DEF others, mine
  <2> QED
    BY <2>1, <2>2
<1> HIDE DEF again, records
<1>10. \A m \in Jobs \ {to} : after[m] = again[m]
  BY <1>8, <1>9
<1>11. after[to] = again[to] \/
       /\ \A m \in rest : ~Engaged(again[m])
       /\ after[to].state = "HISTORICAL_SUBMITTED" /\ after[to].attempt = again[to].attempt
       /\ after[to].born = IF again[to].born = 0 THEN Births + 1 ELSE again[to].born
  BY <1>9
<1>12. \A j \in Jobs \ (rest \cup {from}) : after[j] = appOf[j]
  BY <1>2, <1>7, <1>8, <1>10
<1>13. after[from] = left[from]
  BY <1>2, <1>8, <1>10
<1>14. ASSUME NEW j \in Jobs
       PROVE  \/ after[j].state = "HISTORICAL_SUBMITTED"
                 /\ after[j].born = IF appOf[j].born = 0 THEN Births + 1 ELSE appOf[j].born
              \/ /\ after[j].born = appOf[j].born
                 /\ \/ after[j].state = appOf[j].state
                    \/ (appOf[j].state = "DUPLICATE" /\ after[j].state = "open")
  <2>1. CASE j = from
    BY <1>6, <1>7, <1>13, <2>1
  <2>2. CASE j \in rest \ {to}
    BY <1>2, <1>8, <1>10, <2>2
  <2>3. CASE j = to
    BY <1>2, <1>8, <1>11, <2>3
  <2>4. CASE j \notin rest \cup {from}
    BY <1>12, <2>4
  <2> QED
    BY <2>1, <2>2, <2>3, <2>4
<1>15. ASSUME NEW j \in Jobs, HasApp(j)
       PROVE  /\ after[j].state # "none" /\ after[j].born = appOf[j].born
              /\ appOf[j].state = "HISTORICAL_SUBMITTED" => after[j].state = "HISTORICAL_SUBMITTED"
  BY <1>5, <1>14, <1>15 DEF HasApp
<1>16. ASSUME NEW j \in Jobs, ~HasApp(j)
       PROVE  \/ after[j].state = "none" /\ after[j].born = 0
              \/ after[j].state = "HISTORICAL_SUBMITTED" /\ after[j].born = Births + 1
  BY <1>5, <1>14, <1>16 DEF HasApp
<1>17. \/ \A m \in rest : MaybeSent(after[m]) => MaybeSent(appOf[m])
       \/ \A m \in rest : MaybeSent(after[m]) => m = to
  <2>1. CASE after = again
    BY <1>8, <2>1 DEF MaybeSent
  <2>2. CASE \A m \in rest : ~Engaged(again[m])
    <3>1. ASSUME NEW m \in rest, m # to PROVE ~MaybeSent(after[m])
      <4>1. after[m] = again[m] /\ ~Engaged(again[m]) /\ m \in Jobs
        BY <1>2, <1>10, <2>2, <3>1
      <4>2. again[m].attempt # "live"
        BY <1>8, <4>1 DEF VacancyInv, StateTells, Engaged, Committed
      <4> QED
        BY <4>1, <4>2 DEF MaybeSent, Engaged, Committed
    <3> QED
      BY <3>1
  <2> QED
    BY <1>9, <2>1, <2>2
<1>19. ASSUME NEW j \in Jobs
       PROVE  /\ after[j].attempt = "live" => after[j].state \in {"uncertain", "CONFIRMED"}
              /\ after[j].state = "CONFIRMED" => after[j].attempt = "live"
  <2>0. /\ appOf[j].attempt = "live" => appOf[j].state \in {"uncertain", "CONFIRMED"}
        /\ appOf[j].state = "CONFIRMED" => appOf[j].attempt = "live"
    BY DEF VacancyInv, StateTells
  <2>1. CASE j = from
    BY <1>6, <1>7, <1>13, <2>0, <2>1 DEF Engaged, Committed
  <2>2. CASE j \in rest \ {to}
    BY <1>2, <1>8, <1>10, <2>0, <2>2
  <2>3. CASE j = to
    <3>1. /\ again[j].attempt = appOf[j].attempt
          /\ again[j].state = appOf[j].state
             \/ (appOf[j].state = "DUPLICATE" /\ again[j].state = "open")
      BY <1>2, <1>8, <2>3
    <3>2. CASE after[to] = again[to]
      BY <2>0, <2>3, <3>1, <3>2
    <3>3. CASE after[to] # again[to]
      <4>1. /\ ~Engaged(again[j]) /\ after[j].state = "HISTORICAL_SUBMITTED"
            /\ after[j].attempt = again[j].attempt
        BY <1>2, <1>11, <2>3, <3>3
      <4> QED
        BY <2>0, <3>1, <4>1 DEF Engaged, Committed
    <3> QED
      BY <3>2, <3>3
  <2>4. CASE j \notin rest \cup {from}
    BY <1>12, <2>0, <2>4
  <2> QED
    BY <2>1, <2>2, <2>3, <2>4
<1>20. StateTells'
  BY <1>19 DEF StateTells
<1>18. ASSUME NEW m \in rest, after[m].state # "none"
       PROVE  \E n \in rest : after[n].state \notin {"none", "DUPLICATE"}
  <2>1. CASE HasApp(m)
    <3>1. PICK n \in rest : again[n].state \notin {"none", "DUPLICATE"}
      BY <1>8, <2>1
    <3>2. after[n].state \notin {"none", "DUPLICATE"}
      BY <1>2, <1>10, <1>11, <3>1
    <3> QED
      BY <3>2
  <2>2. CASE ~HasApp(m)
    BY <1>2, <1>16, <1>18, <2>2
  <2> QED
    BY <2>1, <2>2
<1> QED
  BY <1>2, <1>7, <1>9, <1>12, <1>13, <1>15, <1>16, <1>17, <1>18, <1>20
     DEF SplitLeaves, HasApp, Stands

LEMMA VacancySplit ==
  ASSUME VacancyInv, NEW from \in Jobs, SplitJobs(from)
  PROVE  VacancyInv'
<1> DEFINE to == parent[from]
           rest == {m \in Jobs : parent[m] = to} \ {from}
<1>1. /\ parent \in [Jobs -> Jobs] /\ to \in Jobs /\ to # from /\ parent[to] = to
      /\ \A j \in Jobs : parent[j] # from
  BY DEF VacancyInv, JobsTyped, Flat, SplitJobs
<1>2. /\ parent' = [parent EXCEPT ![from] = from]
      /\ listedAs' = [listedAs EXCEPT ![from] = IF @ = "none" THEN @ ELSE from]
      /\ recordedAs' = [p \in Jobs |->
           IF p = from /\ listedAs[p] # "none" /\ recordedAs[p] # "none" THEN from ELSE recordedAs[p]]
  BY DEF SplitJobs
<1>3. to = parent[from] /\ rest = {m \in Jobs : parent[m] = to} \ {from}
  OBVIOUS
<1> HIDE DEF to, rest
<1>4. /\ appOf' \in [Jobs -> VacancyApp]
      /\ \A j \in Jobs : HasApp(j) =>
           /\ HasApp(j)' /\ appOf'[j].born = appOf[j].born
           /\ appOf[j].state = "HISTORICAL_SUBMITTED" => appOf'[j].state = "HISTORICAL_SUBMITTED"
      /\ \A j \in Jobs : ~HasApp(j) =>
           \/ ~HasApp(j)' /\ appOf'[j].born = 0
           \/ appOf'[j].state = "HISTORICAL_SUBMITTED" /\ appOf'[j].born = Births + 1
      /\ \A j \in Jobs \ (rest \cup {from}) : appOf'[j] = appOf[j]
      /\ appOf'[from].state # "DUPLICATE"
      /\ \/ \A m \in rest : MaybeSent(appOf'[m]) => MaybeSent(appOf[m])
         \/ \A m \in rest : MaybeSent(appOf'[m]) => m = to
      /\ StateTells'
      /\ (\E m \in rest : HasApp(m)') => \E m \in rest : Stands(m)'
  <2>1. SplitLeaves(from, to, rest)
    BY <1>3, SplitApplications
  <2> QED
    BY <2>1 DEF SplitLeaves
<1>5. JobsTyped'
  <2>1. /\ listedAs' \in [Jobs -> Jobs \cup {"none"}]
        /\ recordedAs' \in [Jobs -> Jobs \cup {"none", "unmatched"}]
    BY <1>2 DEF VacancyInv, JobsTyped
  <2>2. parent' \in [Jobs -> Jobs]
    BY <1>1, <1>2
  <2> QED
    BY <1>4, <2>1, <2>2 DEF JobsTyped
<1>6. parent'[from] = from /\ \A j \in Jobs \ {from} : parent'[j] = parent[j]
  BY <1>1, <1>2
<1>7. Flat'
  <2>1. \A j \in Jobs : parent[j] \in Jobs /\ parent[parent[j]] = parent[j]
    BY <1>1 DEF VacancyInv, Flat
  <2> QED
    BY <1>1, <1>6, <2>1 DEF Flat
<1>8. BornInOrder'
  <2>1. \A j \in Jobs : ~HasApp(j) =>
          IF HasApp(j)' THEN appOf'[j].born = Births + 1 ELSE appOf'[j].born = 0
    BY <1>4 DEF HasApp
  <2>2. \A m \in Jobs : ~HasApp(m) /\ HasApp(m)' => appOf'[m].state = "HISTORICAL_SUBMITTED"
    BY <1>4 DEF HasApp
  <2> QED
    BY <1>4, <1>5, <2>1, <2>2, AgesKept DEF VacancyInv
<1>9. /\ rest \in SUBSET Jobs /\ from \notin rest
      /\ \A m \in Jobs \ {from} : m \in rest <=> parent[m] = to
  BY <1>3
<1>10. OneSent'
  <2> SUFFICES ASSUME NEW m \in Jobs, NEW n \in Jobs, parent'[m] = parent'[n],
                      MaybeSent(appOf'[m]), MaybeSent(appOf'[n])
               PROVE  m = n
    BY DEF OneSent, SameVacancy
  <2>1. CASE m = from \/ n = from
    BY <1>1, <1>6, <2>1
  <2>2. CASE m # from /\ n # from
    <3>1. SameVacancy(m, n)
      BY <1>6, <2>2 DEF SameVacancy
    <3>2. MaybeSent(appOf[m]) /\ MaybeSent(appOf[n]) => m = n
      BY <3>1 DEF VacancyInv, OneSent
    <3>3. CASE m \in rest
      <4>1. n \in rest
        BY <1>9, <2>2, <3>1, <3>3 DEF SameVacancy
      <4> QED
        BY <1>4, <3>2, <3>3, <4>1
    <3>4. CASE m \notin rest
      <4>1. n \notin rest
        BY <1>9, <2>2, <3>1, <3>4 DEF SameVacancy
      <4>2. appOf'[m] = appOf[m] /\ appOf'[n] = appOf[n]
        BY <1>4, <2>2, <3>4, <4>1
      <4> QED
        BY <3>2, <4>2
    <3> QED
      BY <3>3, <3>4
  <2> QED
    BY <2>1, <2>2
<1>11. OneStands'
  <2> SUFFICES ASSUME NEW j \in Jobs, HasApp(j)'
               PROVE  \E m \in Jobs : parent'[m] = parent'[j] /\ Stands(m)'
    BY DEF OneStands, SameVacancy, HasApp
  <2>1. CASE j = from
    BY <1>4, <2>1 DEF Stands, HasApp
  <2>2. CASE j \in rest
    <3>1. PICK m \in rest : Stands(m)'
      BY <1>4, <2>2
    <3> QED
      BY <1>6, <1>9, <2>2, <3>1
  <2>3. CASE j \notin rest /\ j # from
    <3>1. HasApp(j)
      BY <1>4, <2>3 DEF HasApp
    <3>2. PICK m \in Jobs : SameVacancy(m, j) /\ Stands(m)
      BY <3>1 DEF VacancyInv, OneStands
    <3>3. m # from /\ m \notin rest
      BY <1>1, <1>3, <1>9, <2>3, <3>2 DEF SameVacancy
    <3>4. Stands(m)' /\ parent'[m] = parent'[j]
      BY <1>4, <1>6, <2>3, <3>2, <3>3 DEF Stands, SameVacancy
    <3> QED
      BY <3>4
  <2> QED
    BY <2>1, <2>2, <2>3
<1> QED
  BY <1>4, <1>5, <1>7, <1>8, <1>10, <1>11 DEF VacancyInv

LEMMA VacancyInvNext ==
  ASSUME VacancyInv, ~DraftsOverlap, [IdentitiesNext]_identityVars
  PROVE  VacancyInv'
<1>1. CASE UNCHANGED identityVars
  <2>1. UNCHANGED <<parent, appOf>> /\ JobsTyped'
    BY <1>1 DEF identityVars, VacancyInv, JobsTyped
  <2> QED
    BY <2>1, VacancyInvStutter
<1>2. CASE IdentitiesNext
  <2> SUFFICES ASSUME NEW j \in Jobs,
                      \/ CreateApplication(j) \/ BeginSubmission(j) \/ ResolveSubmission(j)
                      \/ SkipOrClose(j) \/ Invalidate(j) \/ SaveDraft(j) \/ Rebuild(j)
                      \/ ImportRecord(j) \/ IngestPosting(j) \/ SplitJobs(j)
                      \/ \E to \in Jobs : MergeJobs(j, to)
               PROVE  VacancyInv'
    BY <1>2 DEF IdentitiesNext
  <2> QED
    BY VacancyCreate, VacancyMoveOn, VacancyReturn, VacancyImport, VacancyIngest, VacancySplit, VacancyMerge
<1> QED
  BY <1>1, <1>2

LEMMA VacancyInvOnce ==
  ASSUME VacancyInv
  PROVE  OnePerVacancy
<1> SUFFICES ASSUME NEW j \in Jobs, HasApp(j)
             PROVE  /\ Cardinality({m \in Members(j) : MaybeSent(appOf[m])}) <= 1
                    /\ \E m \in Members(j) : appOf[m].state \notin {"none", "DUPLICATE"}
  BY DEF OnePerVacancy
<1>1. Members(j) = {m \in Jobs : SameVacancy(m, j)}
  BY MembersShare DEF VacancyInv
<1>2. Cardinality({m \in Members(j) : MaybeSent(appOf[m])}) <= 1
  <2> DEFINE sent == {m \in Members(j) : MaybeSent(appOf[m])}
  <2>1. sent \in SUBSET Jobs
    BY <1>1
  <2>2. \A m, n \in sent : m = n
    BY <1>1 DEF VacancyInv, OneSent, SameVacancy
  <2> HIDE DEF sent
  <2>3. Cardinality(sent) <= 1
    BY <2>1, <2>2, CountJobs
  <2> QED
    BY <2>3 DEF sent
<1>3. \E m \in Members(j) : appOf[m].state \notin {"none", "DUPLICATE"}
  BY <1>1 DEF VacancyInv, OneStands, Stands
<1> QED
  BY <1>2, <1>3

\* However jobs are merged, split and merged again while their applications are
\* submitted, fail, are drafted anew, lose their packets and are asserted as history, a
\* vacancy has at most one application that was or may have been sent, and one with
\* applications has one that is not a duplicate: for any number of jobs (mergeJobs,
\* splitJobs, applyHistory, assertDiscoveryEligibility, invalidate), provided no draft
\* ends behind what its application was sent with or asserted as.
THEOREM IdentitiesOnce ==
  ASSUME ~DraftsOverlap
  PROVE  IdentitiesSpec => []OnePerVacancy
<1>1. IdentitiesInit => VacancyInv
  BY VacancyInvInit
<1>2. VacancyInv /\ [IdentitiesNext]_identityVars => VacancyInv'
  BY VacancyInvNext
<1>3. VacancyInv => OnePerVacancy
  BY VacancyInvOnce
<1> QED
  BY <1>1, <1>2, <1>3, PTL DEF IdentitiesSpec

LEMMA VacancyTyped ==
  ASSUME VacancyInv
  PROVE  IdentitiesTypeOK
<1>1. Births \in Nat /\ Births <= Cardinality(Jobs)
  <2> DEFINE applied == {j \in Jobs : HasApp(j)}
  <2>1. IsFiniteSet(applied) /\ Cardinality(applied) \in Nat
    BY CountJobs
  <2>2. Cardinality(applied) <= Cardinality(Jobs)
    BY IdentitiesAssumption, FS_Subset
  <2> HIDE DEF applied
  <2> QED
    BY <2>1, <2>2 DEF Births, applied
<1>2. Cardinality(Jobs) \in Nat
  BY IdentitiesAssumption, FS_CardinalityType
<1>3. parent \in [Jobs -> Jobs]
  BY DEF VacancyInv, JobsTyped
<1>4. ASSUME NEW j \in Jobs
      PROVE  /\ appOf[j].state \in {"none", "open", "uncertain", "over", "DUPLICATE"} \cup Committed
             /\ appOf[j].born \in 0 .. Cardinality(Jobs)
             /\ appOf[j].attempt \in {"none", "failed", "live"}
             /\ listedAs[j] \in Jobs \cup {"none"}
             /\ recordedAs[j] \in Jobs \cup {"none", "unmatched"}
  <2>1. appOf[j] \in VacancyApp /\ appOf[j].born <= Births
    BY DEF VacancyInv, JobsTyped, BornInOrder
  <2>2. listedAs[j] \in Jobs \cup {"none"} /\ recordedAs[j] \in Jobs \cup {"none", "unmatched"}
    BY DEF VacancyInv, JobsTyped
  <2> QED
    BY <1>1, <1>2, <2>1, <2>2 DEF VacancyApp
<1> QED
  BY <1>3, <1>4 DEF IdentitiesTypeOK

\* The state of the identities keeps its types, and no application is older than
\* there are jobs, under the same condition on drafts.
THEOREM IdentitiesType ==
  ASSUME ~DraftsOverlap
  PROVE  IdentitiesSpec => []IdentitiesTypeOK
<1>1. IdentitiesInit => VacancyInv
  BY VacancyInvInit
<1>2. VacancyInv /\ [IdentitiesNext]_identityVars => VacancyInv'
  BY VacancyInvNext
<1>3. VacancyInv => IdentitiesTypeOK
  BY VacancyTyped
<1> QED
  BY <1>1, <1>2, <1>3, PTL DEF IdentitiesSpec

-----------------------------------------------------------------------------
(* Mailbox: the checkpoint of a scan and what it has left behind            *)

MailboxSpec == MailInit /\ [][MailNext]_mailVars

PageAt == [page : Nat, done : BOOLEAN]
PendingPages == {NoPending} \cup [key : MailContexts, ids : Seq(STRING)]
Checkpoints ==
  [entries : UNION {[keys -> PageAt] : keys \in SUBSET MailContexts}, next : Nat,
   pending : PendingPages]

MailRows ==
  [state : {"disconnected", "connecting", "connected", "refreshing", "reconnect_required"},
   generation : Nat, lease : {"none", "live", "lapsed"}, token : BOOLEAN, fresh : BOOLEAN,
   paused : BOOLEAN, cursor : {NoCursor} \cup Checkpoints, last : Nat]

FreeSyncs == [at : {"idle", "lease", "refresh"}]
RefreshSyncs == [at : {"exchange"}, state : {"refreshing"}, generation : Nat]
PlanSyncs ==
  [at : {"plan"}, generation : Nat, state : {"connected"}, ids : {{}}, pages : Nat]
ScanSyncs ==
  [at : {"scan", "finish"}, generation : Nat, state : {"connected"}, ids : SUBSET STRING,
   pages : Nat]
SyncRows == FreeSyncs \cup RefreshSyncs \cup PlanSyncs \cup ScanSyncs

MailTyped ==
  /\ mailbox \in MailRows
  /\ watched \subseteq MailContexts /\ steady \subseteq watched /\ swept \subseteq MailContexts
  /\ sync \in [Syncers -> SyncRows]

\* A checkpoint that is kept has something left to read, and what it has left of a
\* page is of the page that its context is at.
Resumes(scanned) ==
  /\ ~AllDone(scanned.entries)
  /\ \A c \in Keys(scanned) : scanned.entries[c].page \in 1 .. Len(MailOf[c])
  /\ scanned.pending # NoPending =>
       /\ scanned.pending.key \in Keys(scanned)
       /\ Messages(scanned.pending.ids) \subseteq
            Messages(MailOf[scanned.pending.key][scanned.entries[scanned.pending.key].page])

CursorResumable == mailbox.cursor # NoCursor => Resumes(mailbox.cursor)

\* Leases are told apart by their generation.
Fenced(row) == row.at \in {"exchange", "plan", "scan", "finish"}
LeasesApart ==
  /\ \A s \in Syncers : Fenced(sync[s]) => sync[s].generation <= mailbox.generation
  /\ \A s, t \in Syncers :
       Fenced(sync[s]) /\ Fenced(sync[t]) /\ sync[s].generation = sync[t].generation => s = t

\* What a sync that holds the lease has inspected of steady contexts is observed.
CursorRead(row) == row.at = "scan" /\ row.generation = mailbox.generation
InspectedIsObserved ==
  \A s \in Syncers : CursorRead(sync[s]) =>
    /\ mailbox.cursor # NoCursor
    /\ \A c \in steady : \A n \in DOMAIN MailOf[c] :
         Messages(MailOf[c][n]) \cap sync[s].ids \subseteq observed

MailInv ==
  MailTyped /\ CursorResumable /\ LeasesApart /\ InspectedIsObserved /\ SweptIsObserved

LEMMA NoKeys == Keys(NoCursor) = {} /\ AllDone(NoCursor.entries)
  BY DEF Keys, NoCursor, AllDone

\* Steps that leave the contexts and what is observed alone: they keep the
\* checkpoint, or drop it under a generation of its own; and of the syncs one at
\* most changes, to one that does not read under a lease it took before.
LEMMA MailRowStep ==
  ASSUME MailInv, mailbox' \in MailRows, sync' \in [Syncers -> SyncRows],
         UNCHANGED <<watched, steady, swept, observed>>,
         \/ mailbox'.generation = mailbox.generation /\ mailbox'.cursor = mailbox.cursor
         \/ /\ mailbox'.generation = mailbox.generation + 1
            /\ mailbox'.cursor \in {mailbox.cursor, NoCursor},
         \A s \in Syncers :
           \/ sync'[s] = sync[s] \/ ~Fenced(sync'[s])
           \/ /\ sync'[s].at \in {"exchange", "plan"}
              /\ sync'[s].generation = mailbox'.generation
              /\ mailbox'.generation = mailbox.generation + 1,
         \A s, t \in Syncers : sync'[s] # sync[s] /\ sync'[t] # sync[t] => s = t
  PROVE  MailInv'
<1> USE DEF MailInv
<1>1. mailbox.generation \in Nat
  BY DEF MailTyped, MailRows
<1>2. MailTyped'
  BY DEF MailTyped, MailContexts
<1>3. CursorResumable'
  <2>1. mailbox'.cursor = mailbox.cursor \/ mailbox'.cursor = NoCursor
    OBVIOUS
  <2>2. Resumes(mailbox.cursor)' <=> Resumes(mailbox'.cursor)
    BY DEF Resumes, Keys, AllDone, Messages
  <2> QED
    BY <2>1, <2>2 DEF CursorResumable
<1>4. LeasesApart'
  <2>1. ASSUME NEW s \in Syncers, Fenced(sync'[s])
        PROVE  /\ sync'[s].generation <= mailbox'.generation
               /\ \/ sync'[s] = sync[s] /\ sync'[s].generation <= mailbox.generation
                  \/ sync'[s] # sync[s] /\ sync'[s].generation = mailbox.generation + 1
    <3>1. CASE sync'[s] = sync[s]
      <4>1. sync[s].generation <= mailbox.generation /\ sync[s].generation \in Nat
        BY <2>1, <3>1 DEF LeasesApart, MailTyped, SyncRows, FreeSyncs, RefreshSyncs, PlanSyncs, ScanSyncs, Fenced
      <4> QED
        BY <1>1, <3>1, <4>1
    <3>2. CASE sync'[s] # sync[s]
      BY <1>1, <2>1, <3>2
    <3> QED
      BY <3>1, <3>2
  <2>2. ASSUME NEW s \in Syncers, NEW t \in Syncers, Fenced(sync'[s]), Fenced(sync'[t]),
               sync'[s].generation = sync'[t].generation
        PROVE  s = t
    BY <1>1, <2>1, <2>2 DEF LeasesApart
  <2> QED
    BY <2>1, <2>2 DEF LeasesApart
<1>5. InspectedIsObserved'
  <2> SUFFICES ASSUME NEW s \in Syncers, sync'[s].at = "scan", sync'[s].generation = mailbox'.generation
               PROVE  /\ mailbox'.cursor # NoCursor
                      /\ \A c \in steady : \A n \in DOMAIN MailOf[c] :
                           Messages(MailOf[c][n]) \cap sync'[s].ids \subseteq observed
    BY DEF InspectedIsObserved, CursorRead, Messages
  <2>1. sync'[s] = sync[s]
    BY DEF Fenced
  <2>2. sync[s].generation <= mailbox.generation
    BY <2>1 DEF LeasesApart, Fenced
  <2>3. mailbox'.generation = mailbox.generation
    BY <1>1, <2>1, <2>2
  <2>4. mailbox'.cursor = mailbox.cursor
    BY <1>1, <2>3
  <2> QED
    BY <2>1, <2>3, <2>4 DEF InspectedIsObserved, CursorRead
<1>6. SweptIsObserved'
  <2>1. mailbox'.cursor = mailbox.cursor \/ mailbox'.cursor = NoCursor
    OBVIOUS
  <2>2. \A c \in swept' : \A n \in DOMAIN MailOf[c] : Messages(MailOf[c][n]) \subseteq observed'
    BY DEF SweptIsObserved
  <2>3. CASE mailbox'.cursor = mailbox.cursor
    <3>1. Keys(mailbox.cursor)' = Keys(mailbox.cursor) /\ \A c : PassedOver(mailbox.cursor, c)' = PassedOver(mailbox.cursor, c)
      BY <2>3 DEF Keys, PassedOver, Messages
    <3> QED
      BY <2>2, <3>1 DEF SweptIsObserved, Messages
  <2>4. CASE mailbox'.cursor = NoCursor
    <3>1. Keys(mailbox.cursor)' = {}
      BY <2>4, NoKeys DEF Keys, NoCursor
    <3> QED
      BY <2>2, <3>1 DEF SweptIsObserved, Messages
  <2> QED
    BY <2>1, <2>3, <2>4
<1> QED
  BY <1>2, <1>3, <1>4, <1>5, <1>6

\* Writing the row: what it was, under the same generation or the next.
RowKept == mailbox'.generation = mailbox.generation /\ mailbox'.cursor = mailbox.cursor
RowNext ==
  /\ mailbox'.generation = mailbox.generation + 1
  /\ mailbox'.cursor \in {mailbox.cursor, NoCursor}

\* The row of email_connections, field by field.
LEMMA RowFields ==
  ASSUME NEW row \in MailRows
  PROVE  /\ row.state \in {"disconnected", "connecting", "connected", "refreshing", "reconnect_required"}
         /\ row.generation \in Nat /\ row.generation + 1 \in Nat
         /\ row.lease \in {"none", "live", "lapsed"}
         /\ row.token \in BOOLEAN /\ row.fresh \in BOOLEAN /\ row.paused \in BOOLEAN
         /\ row.cursor \in {NoCursor} \cup Checkpoints /\ row.last \in Nat
  BY DEF MailRows

LEMMA TakeLeaseTyped ==
  ASSUME MailTyped, NEW state \in {"connecting", "connected", "refreshing"}, TakeLease(state)
  PROVE  mailbox' \in MailRows /\ RowNext
<1>1. mailbox \in MailRows
  BY DEF MailTyped
<1>2. mailbox' = [mailbox EXCEPT !.state = state, !.generation = @ + 1, !.lease = "live"]
  BY DEF TakeLease
<1>5. mailbox' = [state |-> state, generation |-> mailbox.generation + 1, lease |-> "live", token |-> mailbox.token,
                  fresh |-> mailbox.fresh, paused |-> mailbox.paused, cursor |-> mailbox.cursor, last |-> mailbox.last]
  BY <1>1, <1>2 DEF MailRows
<1>3. mailbox' \in MailRows
  BY <1>1, <1>5, RowFields DEF MailRows
<1>4. mailbox'.generation = mailbox.generation + 1 /\ mailbox'.cursor = mailbox.cursor
  BY <1>1, <1>2 DEF MailRows
<1> QED
  BY <1>3, <1>4 DEF RowNext

LEMMA InvalidatedTyped ==
  ASSUME MailTyped, NEW generation, NEW leaseState, NEW reason,
         mailbox' = Invalidated(generation, leaseState, reason)
  PROVE  mailbox' \in MailRows /\ (RowKept \/ RowNext)
<1>1. mailbox \in MailRows
  BY DEF MailTyped
<1>2. CASE mailbox' = mailbox
  BY <1>1, <1>2 DEF RowKept
<1>3. CASE mailbox' # mailbox
  <2> DEFINE retried == reason \in {"temporarily_unavailable", "scan_needs_review"}
                          /\ leaseState = "connected"
             state == IF retried THEN "connected" ELSE "reconnect_required"
             token == mailbox.token /\ retried
             paused == reason = "scan_needs_review"
  <2>1. mailbox' = [mailbox EXCEPT !.state = state, !.token = token, !.lease = "none",
                                   !.generation = @ + 1, !.paused = paused]
    BY <1>3 DEF Invalidated
  <2>2. state \in {"connected", "reconnect_required"}
    OBVIOUS
  <2>3. retried \in BOOLEAN
    OBVIOUS
  <2>4. token \in BOOLEAN
    <3> HIDE DEF retried
    <3> QED
      BY <2>3
  <2>5. paused \in BOOLEAN
    OBVIOUS
  <2> HIDE DEF retried, state, token, paused
  <2>a. mailbox' = [state |-> state, generation |-> mailbox.generation + 1, lease |-> "none", token |-> token,
                    fresh |-> mailbox.fresh, paused |-> paused, cursor |-> mailbox.cursor, last |-> mailbox.last]
    BY <1>1, <2>1 DEF MailRows
  <2>6. mailbox' \in MailRows
    BY <1>1, <2>a, <2>2, <2>4, <2>5, RowFields DEF MailRows
  <2>7. mailbox'.generation = mailbox.generation + 1 /\ mailbox'.cursor = mailbox.cursor
    BY <1>1, <2>1 DEF MailRows
  <2> QED
    BY <2>6, <2>7 DEF RowNext
<1> QED
  BY <1>2, <1>3

\* Steps of the owner and of time, during which no sync moves.
LEMMA MailOwnerSteps ==
  ASSUME MailInv,
         \/ Configure \/ Connect \/ Callback \/ CloseFlow \/ Disconnect \/ ResetScan
         \/ MailTimePasses \/ ToggleMailStop \/ UNCHANGED mailVars
  PROVE  MailInv'
<1>1. MailTyped /\ mailbox \in MailRows /\ sync \in [Syncers -> SyncRows]
  BY DEF MailInv, MailTyped
<1>2. UNCHANGED <<watched, steady, swept, observed, sync>>
  BY DEF Configure, Connect, Callback, CloseFlow, Disconnect, ResetScan, MailTimePasses,
         ToggleMailStop, mailVars
<1>3. mailbox' \in MailRows /\ (RowKept \/ RowNext)
  <2>1. CASE Configure
    <3>1. mailbox' = [state |-> "disconnected", generation |-> mailbox.generation + 1, lease |-> "none", token |-> FALSE,
                      fresh |-> mailbox.fresh, paused |-> FALSE, cursor |-> NoCursor, last |-> 0]
      BY <1>1, <2>1 DEF Configure, MailRows
    <3>2. mailbox' \in MailRows
      BY <1>1, <3>1, RowFields DEF MailRows
    <3> QED
      BY <3>1, <3>2 DEF RowNext
  <2>2. CASE Connect
    BY <1>1, <2>2, TakeLeaseTyped DEF Connect
  <2>3. CASE Callback
    <3>1. mailbox' = [state |-> "connected", generation |-> mailbox.generation, lease |-> "none", token |-> TRUE,
                      fresh |-> TRUE, paused |-> mailbox.paused, cursor |-> mailbox.cursor, last |-> mailbox.last]
      BY <1>1, <2>3 DEF Callback, MailRows
    <3>2. mailbox' \in MailRows
      BY <1>1, <3>1, RowFields DEF MailRows
    <3> QED
      BY <3>1, <3>2 DEF RowKept
  <2>4. CASE CloseFlow
    <3>1. CASE mailbox' = mailbox
      BY <1>1, <3>1 DEF RowKept
    <3>2. CASE mailbox' = Invalidated(consent, "connecting", "consent_failed")
      BY <1>1, <3>2, InvalidatedTyped
    <3> QED
      BY <2>4, <3>1, <3>2 DEF CloseFlow
  <2>5. CASE Disconnect
    <3>1. mailbox' = [state |-> "disconnected", generation |-> mailbox.generation + 1, lease |-> "none", token |-> FALSE,
                      fresh |-> mailbox.fresh, paused |-> mailbox.paused, cursor |-> NoCursor, last |-> 0]
      BY <1>1, <2>5 DEF Disconnect, MailRows
    <3>2. mailbox' \in MailRows
      BY <1>1, <3>1, RowFields DEF MailRows
    <3> QED
      BY <3>1, <3>2 DEF RowNext
  <2>6. CASE ResetScan
    <3>1. mailbox' = [state |-> mailbox.state, generation |-> mailbox.generation + 1, lease |-> mailbox.lease, token |-> mailbox.token,
                      fresh |-> mailbox.fresh, paused |-> FALSE, cursor |-> NoCursor, last |-> 0]
      BY <1>1, <2>6 DEF ResetScan, MailRows
    <3>2. mailbox' \in MailRows
      BY <1>1, <3>1, RowFields DEF MailRows
    <3> QED
      BY <3>1, <3>2 DEF RowNext
  <2>7. CASE MailTimePasses
    <3>1. CASE mailbox' = [mailbox EXCEPT !.lease = "lapsed"]
      BY <1>1, <3>1 DEF MailRows, RowKept
    <3>2. CASE mailbox' = [mailbox EXCEPT !.fresh = FALSE]
      BY <1>1, <3>2 DEF MailRows, RowKept
    <3> QED
      BY <2>7, <3>1, <3>2 DEF MailTimePasses
  <2>8. CASE ToggleMailStop \/ UNCHANGED mailVars
    BY <1>1, <2>8 DEF ToggleMailStop, mailVars, RowKept
  <2> QED
    BY <2>1, <2>2, <2>3, <2>4, <2>5, <2>6, <2>7, <2>8
<1> QED
  BY <1>1, <1>2, <1>3, MailRowStep DEF RowKept, RowNext

\* Steps of a sync that read no mail.
LEMMA MailSyncSteps ==
  ASSUME MailInv, NEW s \in Syncers,
         \/ StartSync(s) \/ LeaseSync(s) \/ Refresh(s) \/ RefreshFails(s) \/ FinishSync(s)
         \/ RefuseWindow(s) \/ RequestFails(s) \/ Unleased(s) \/ SyncStops(s)
  PROVE  MailInv'
<1>1. MailTyped /\ mailbox \in MailRows /\ sync \in [Syncers -> SyncRows]
  BY DEF MailInv, MailTyped
<1>2. UNCHANGED <<watched, steady, swept, observed>>
  BY DEF StartSync, LeaseSync, Refresh, RefreshFails, FinishSync, RefuseWindow, RequestFails,
         Unleased, SyncStops, GivesUp
<1>3. SUFFICES ASSUME NEW row,
                      sync' = [sync EXCEPT ![s] = row],
                      mailbox' \in MailRows, RowKept \/ RowNext,
                      \/ row \in FreeSyncs
                      \/ /\ row \in RefreshSyncs \cup PlanSyncs
                         /\ row.generation = mailbox'.generation
                         /\ mailbox'.generation = mailbox.generation + 1
               PROVE  MailInv'
  <2>1. IdleSync \in FreeSyncs
    BY DEF IdleSync, FreeSyncs
  <2>2. CASE StartSync(s)
    <3> DEFINE row == [at |-> IF mailbox.fresh THEN "lease" ELSE "refresh"]
    <3>1. mailbox' = mailbox /\ sync' = [sync EXCEPT ![s] = row]
      BY <2>2 DEF StartSync
    <3>2. row \in FreeSyncs
      BY DEF FreeSyncs
    <3> HIDE DEF row
    <3> QED
      BY <1>1, <1>3, <3>1, <3>2 DEF RowKept
  <2>3. CASE LeaseSync(s) /\ SyncAt(s, "lease")
    <3> DEFINE row == [at |-> "plan", generation |-> mailbox'.generation,
                       state |-> "connected", ids |-> {}, pages |-> 0]
    <3>1. TakeLease("connected") /\ sync' = [sync EXCEPT ![s] = row]
      BY <2>3 DEF LeaseSync, SyncAt
    <3>2. mailbox' \in MailRows /\ RowNext
      BY <1>1, <3>1, TakeLeaseTyped
    <3>3. row \in PlanSyncs
      BY <3>2 DEF MailRows, PlanSyncs
    <3>4. row.generation = mailbox'.generation
      OBVIOUS
    <3> HIDE DEF row
    <3> QED
      BY <1>3, <3>1, <3>2, <3>3, <3>4 DEF RowNext
  <2>4. CASE LeaseSync(s) /\ ~SyncAt(s, "lease")
    <3> DEFINE row == [at |-> "exchange", state |-> "refreshing", generation |-> mailbox'.generation]
    <3>1. TakeLease("refreshing") /\ sync' = [sync EXCEPT ![s] = row]
      BY <2>4 DEF LeaseSync, SyncAt
    <3>2. mailbox' \in MailRows /\ RowNext
      BY <1>1, <3>1, TakeLeaseTyped
    <3>3. row \in RefreshSyncs
      BY <3>2 DEF MailRows, RefreshSyncs
    <3>4. row.generation = mailbox'.generation
      OBVIOUS
    <3> HIDE DEF row
    <3> QED
      BY <1>3, <3>1, <3>2, <3>3, <3>4 DEF RowNext
  <2>5. CASE Refresh(s)
    <3>1. [at |-> "lease"] \in FreeSyncs
      BY DEF FreeSyncs
    <3>3. mailbox' = [state |-> "connected", generation |-> mailbox.generation, lease |-> "none", token |-> mailbox.token,
                      fresh |-> TRUE, paused |-> mailbox.paused, cursor |-> mailbox.cursor, last |-> mailbox.last]
      BY <1>1, <2>5 DEF Refresh, MailRows
    <3>4. mailbox' \in MailRows
      BY <1>1, <3>3, RowFields DEF MailRows
    <3>2. mailbox' \in MailRows /\ RowKept
      BY <3>3, <3>4 DEF RowKept
    <3> QED
      BY <1>3, <2>5, <3>1, <3>2 DEF Refresh
  <2>6. CASE RefreshFails(s) \/ RefuseWindow(s) \/ RequestFails(s) \/ Unleased(s)
    <3>1. PICK reason : GivesUp(s, reason)
      BY <2>6 DEF RefreshFails, RefuseWindow, RequestFails, Unleased
    <3>2. mailbox' \in MailRows /\ (RowKept \/ RowNext)
      BY <1>1, <3>1, InvalidatedTyped DEF GivesUp
    <3> QED
      BY <1>3, <2>1, <3>1, <3>2 DEF GivesUp
  <2>7. CASE FinishSync(s)
    <3>1. mailbox' \in MailRows /\ RowKept
      BY <1>1, <2>7 DEF FinishSync, MailRows, RowKept
    <3> QED
      BY <1>3, <2>1, <2>7, <3>1 DEF FinishSync
  <2>8. CASE SyncStops(s)
    BY <1>1, <1>3, <2>1, <2>8 DEF SyncStops, RowKept
  <2> QED
    BY <2>2, <2>3, <2>4, <2>5, <2>6, <2>7, <2>8
<1>4. /\ row \in SyncRows
      /\ \/ ~Fenced(row)
         \/ /\ row.at \in {"exchange", "plan"} /\ row.generation = mailbox'.generation
            /\ mailbox'.generation = mailbox.generation + 1
  BY <1>3 DEF SyncRows, FreeSyncs, RefreshSyncs, PlanSyncs, Fenced
<1>5. sync'[s] = row /\ \A t \in Syncers \ {s} : sync'[t] = sync[t]
  BY <1>1, <1>3
<1>6. sync' \in [Syncers -> SyncRows]
  BY <1>1, <1>3, <1>4
<1> QED
  BY <1>2, <1>3, <1>4, <1>5, <1>6, MailRowStep DEF RowKept, RowNext

\* Mail is read page by page, of contexts that are numbered from 1.
LEMMA MailPages ==
  ASSUME NEW c \in MailContexts
  PROVE  /\ c \in Nat /\ c # 0
         /\ MailOf[c] \in Seq(Seq(STRING)) /\ Len(MailOf[c]) \in Nat \ {0}
         /\ DOMAIN MailOf[c] = 1 .. Len(MailOf[c])
         /\ \A n \in 1 .. Len(MailOf[c]) : MailOf[c][n] \in Seq(STRING)
<1>1. MailOf \in Seq(Seq(Seq(STRING))) /\ MailOf[c] # <<>>
  BY MailboxAssumption DEF MailContexts
<1>2. c \in 1 .. Len(MailOf) /\ Len(MailOf) \in Nat
  BY <1>1 DEF MailContexts
<1>3. MailOf[c] \in Seq(Seq(STRING))
  BY <1>1, <1>2
<1>4. Len(MailOf[c]) \in Nat \ {0}
  BY <1>1, <1>3
<1> QED
  BY <1>2, <1>3, <1>4

LEMMA CheckpointFields ==
  ASSUME NEW scanned \in Checkpoints
  PROVE  /\ Keys(scanned) \in SUBSET MailContexts /\ Keys(scanned) \in SUBSET Nat
         /\ 0 \notin Keys(scanned)
         /\ scanned.entries \in [Keys(scanned) -> PageAt]
         /\ scanned.next \in Nat /\ scanned.pending \in PendingPages
         /\ scanned = [entries |-> scanned.entries, next |-> scanned.next, pending |-> scanned.pending]
<1>1. /\ scanned.entries \in UNION {[keys -> PageAt] : keys \in SUBSET MailContexts}
      /\ scanned.next \in Nat /\ scanned.pending \in PendingPages
      /\ scanned = [entries |-> scanned.entries, next |-> scanned.next, pending |-> scanned.pending]
  BY DEF Checkpoints
<1>2. PICK keys \in SUBSET MailContexts : scanned.entries \in [keys -> PageAt]
  BY <1>1
<1>3. Keys(scanned) = keys
  BY <1>2 DEF Keys
<1>4. \A c \in keys : c \in Nat /\ c # 0
  BY MailPages
<1> QED
  BY <1>1, <1>2, <1>3, <1>4

LEMMA LeastIsOne ==
  ASSUME NEW S \in SUBSET Nat, S # {}
  PROVE  Least(S) \in S
  BY LeastNumber DEF Least

\* The context a scan goes on with is one of its own; it is the one whose page it
\* holds, or has something left.
LEMMA ContextIsOpen ==
  ASSUME NEW scanned \in Checkpoints, Resumes(scanned), NEW c, c = ContextAt(scanned)
  PROVE  /\ c \in Keys(scanned)
         /\ scanned.pending # NoPending => c = scanned.pending.key
         /\ scanned.pending = NoPending => ~scanned.entries[c].done
<1> DEFINE open == {d \in Keys(scanned) : ~scanned.entries[d].done}
           ahead == {d \in open : d >= scanned.next}
           from == IF ahead # {} THEN ahead ELSE open
<1>1. Keys(scanned) \in SUBSET Nat /\ 0 \notin Keys(scanned)
  BY CheckpointFields
<1>2. open # {}
  BY DEF Resumes, AllDone, Keys
<1>3. CASE scanned.pending # NoPending
  BY <1>3 DEF Resumes, ContextAt
<1>4. CASE scanned.pending = NoPending
  <2>1. scanned.pending.key \notin Keys(scanned)
    BY <1>1, <1>4 DEF NoPending
  <2>2. c = Least(from)
    BY <2>1 DEF ContextAt
  <2>3. from \in SUBSET Nat /\ from # {} /\ from \in SUBSET open
    BY <1>1, <1>2
  <2>4. Least(from) \in from
    <3> HIDE DEF from
    <3> QED
      BY <2>3, LeastIsOne
  <2>5. c \in open
    <3> HIDE DEF from, open
    <3> QED
      BY <2>2, <2>3, <2>4
  <2> QED
    BY <1>4, <2>5
<1> QED
  BY <1>3, <1>4

\* A checkpoint that is written: the contexts are those of the row, and each is at
\* a page with something to come.
LEMMA SavedCursor ==
  ASSUME MailTyped, NEW scanned \in Checkpoints, NEW row, row = Saved(scanned),
         Keys(scanned) # {} => Greatest(Keys(scanned)) \in Nat
  PROVE  /\ row \in MailRows /\ row.generation = mailbox.generation
         /\ row.cursor = IF AllDone(scanned.entries) THEN NoCursor ELSE scanned
<1>1. mailbox \in MailRows
  BY DEF MailTyped
<1>2. CASE AllDone(scanned.entries)
  <2> DEFINE last == IF Keys(scanned) = {} THEN mailbox.last ELSE Greatest(Keys(scanned))
  <2>1. row = [mailbox EXCEPT !.cursor = NoCursor, !.last = last]
    BY <1>2 DEF Saved
  <2>2. last \in Nat
    BY <1>1 DEF MailRows
  <2> HIDE DEF last
  <2>3. row = [state |-> mailbox.state, generation |-> mailbox.generation,
               lease |-> mailbox.lease, token |-> mailbox.token, fresh |-> mailbox.fresh,
               paused |-> mailbox.paused, cursor |-> NoCursor, last |-> last]
    BY <1>1, <2>1 DEF MailRows
  <2>4. row \in MailRows
    BY <1>1, <2>2, <2>3, RowFields DEF MailRows
  <2> QED
    BY <1>2, <2>3, <2>4
<1>3. CASE ~AllDone(scanned.entries)
  <2>1. row = [mailbox EXCEPT !.cursor = scanned]
    BY <1>3 DEF Saved
  <2>2. row = [state |-> mailbox.state, generation |-> mailbox.generation,
               lease |-> mailbox.lease, token |-> mailbox.token, fresh |-> mailbox.fresh,
               paused |-> mailbox.paused, cursor |-> scanned, last |-> mailbox.last]
    BY <1>1, <2>1 DEF MailRows
  <2>3. row \in MailRows
    BY <1>1, <2>2, RowFields DEF MailRows
  <2> QED
    BY <1>3, <2>2, <2>3
<1> QED
  BY <1>2, <1>3

LEMMA GreatestIsOne ==
  ASSUME NEW S \in SUBSET MailContexts, S # {}
  PROVE  Greatest(S) \in S /\ Greatest(S) \in Nat
<1> DEFINE last == Len(MailOf)
           left == {last - c : c \in S}
<1>1. last \in Nat /\ \A c \in S : c \in Nat /\ c <= last
  BY MailboxAssumption DEF MailContexts
<1> HIDE DEF last
<1>2. left \in SUBSET Nat /\ left # {}
  <2>1. \A c \in S : last - c \in Nat
    BY <1>1
  <2> QED
    BY <2>1
<1>3. PICK d \in left : \A e \in left : d <= e
  <2> HIDE DEF left
  <2> QED
    BY <1>2, LeastNumber
<1>4. PICK m \in S : d = last - m
  BY <1>3
<1>5. \A n \in S : n <= m
  <2> SUFFICES ASSUME NEW n \in S PROVE n <= m
    OBVIOUS
  <2>1. last - m <= last - n
    BY <1>3, <1>4
  <2>2. last \in Int /\ m \in Int /\ n \in Int
    BY <1>1
  <2> QED
    BY <2>1, <2>2
<1>6. Greatest(S) \in S
  BY <1>5 DEF Greatest
<1> QED
  BY <1>1, <1>6

\* Steps of the sync that holds the lease, whatever it writes of the checkpoint.
LEMMA MailLeaseStep ==
  ASSUME MailInv, NEW s \in Syncers, Fenced(sync[s]), sync[s].generation = mailbox.generation,
         mailbox' \in MailRows, mailbox'.generation = mailbox.generation,
         NEW row \in ScanSyncs, sync' = [sync EXCEPT ![s] = row],
         row.generation = mailbox.generation,
         row.at = "scan" => mailbox'.cursor # NoCursor,
         UNCHANGED watched, steady' \subseteq watched, swept' \subseteq MailContexts,
         CursorResumable', SweptIsObserved',
         \A c \in steady' : \A n \in DOMAIN MailOf[c] :
           Messages(MailOf[c][n]) \cap row.ids \subseteq observed'
  PROVE  MailInv'
<1> USE DEF MailInv
<1>1. sync \in [Syncers -> SyncRows] /\ row \in SyncRows /\ mailbox.generation \in Nat
  BY DEF MailTyped, MailRows, SyncRows
<1>2. sync'[s] = row /\ \A t \in Syncers \ {s} : sync'[t] = sync[t]
  BY <1>1
<1>3. MailTyped'
  BY <1>1 DEF MailTyped, MailContexts
<1>4. \A t \in Syncers \ {s} : Fenced(sync[t]) =>
        sync[t].generation <= mailbox.generation /\ sync[t].generation # mailbox.generation
  BY DEF LeasesApart
<1>5. LeasesApart'
  <2>1. ASSUME NEW t \in Syncers, Fenced(sync'[t])
        PROVE  sync'[t].generation <= mailbox'.generation
    BY <1>1, <1>2, <1>4, <2>1
  <2>2. ASSUME NEW t \in Syncers, NEW u \in Syncers, Fenced(sync'[t]), Fenced(sync'[u]),
               sync'[t].generation = sync'[u].generation
        PROVE  t = u
    BY <1>2, <1>4, <2>2 DEF LeasesApart
  <2> QED
    BY <2>1, <2>2 DEF LeasesApart
<1>6. InspectedIsObserved'
  <2> SUFFICES ASSUME NEW t \in Syncers, sync'[t].at = "scan", sync'[t].generation = mailbox'.generation
               PROVE  /\ mailbox'.cursor # NoCursor
                      /\ \A c \in steady' : \A n \in DOMAIN MailOf[c] :
                           Messages(MailOf[c][n]) \cap sync'[t].ids \subseteq observed'
    BY DEF InspectedIsObserved, CursorRead, Messages
  <2>1. t = s
    BY <1>2, <1>4 DEF Fenced
  <2> QED
    BY <1>2, <2>1
<1> QED
  BY <1>3, <1>5, <1>6

\* What holds of the sync that reads.
LEMMA ScanningHolds ==
  ASSUME MailInv, NEW s \in Syncers, Scanning(s)
  PROVE  /\ sync[s] \in ScanSyncs /\ sync[s].at = "scan" /\ Fenced(sync[s])
         /\ sync[s].generation = mailbox.generation
         /\ mailbox.cursor \in Checkpoints /\ Resumes(mailbox.cursor)
         /\ \A c \in steady : \A n \in DOMAIN MailOf[c] :
              Messages(MailOf[c][n]) \cap sync[s].ids \subseteq observed
<1>1. sync[s] \in SyncRows /\ mailbox \in MailRows
  BY DEF MailInv, MailTyped
<1>2. sync[s].at = "scan" /\ sync[s].generation = mailbox.generation
  BY DEF Scanning, SyncAt, HoldsLease
<1>3. sync[s] \in ScanSyncs
  BY <1>1, <1>2 DEF SyncRows, FreeSyncs, RefreshSyncs, PlanSyncs
<1>4. mailbox.cursor # NoCursor
  BY <1>2 DEF MailInv, InspectedIsObserved, CursorRead
<1>5. mailbox.cursor \in Checkpoints
  BY <1>1, <1>4, RowFields
<1> QED
  BY <1>2, <1>3, <1>4, <1>5 DEF MailInv, InspectedIsObserved, CursorRead, Fenced, CursorResumable

\* A message is observed when a context that waits for it is watched.
LEMMA MailIngest ==
  ASSUME MailInv, NEW s \in Syncers, IngestMail(s)
  PROVE  MailInv'
<1> DEFINE pending == mailbox.cursor.pending
           id == Head(pending.ids)
           row == [sync[s] EXCEPT !.ids = @ \cup {id}]
<1>1. Scanning(s) /\ pending # NoPending /\ pending.ids # <<>>
  BY DEF IngestMail, Inspects, NeedsPage
<1>2. /\ sync[s] \in ScanSyncs /\ sync[s].at = "scan" /\ Fenced(sync[s])
      /\ sync[s].generation = mailbox.generation
      /\ mailbox.cursor \in Checkpoints /\ Resumes(mailbox.cursor)
      /\ \A c \in steady : \A n \in DOMAIN MailOf[c] :
           Messages(MailOf[c][n]) \cap sync[s].ids \subseteq observed
  BY <1>1, ScanningHolds
<1>3. /\ UNCHANGED <<mailbox, watched, steady, swept>>
      /\ sync' = [sync EXCEPT ![s].ids = @ \cup {id}]
      /\ observed' = IF \E c \in watched : \E n \in DOMAIN MailOf[c] : id \in Messages(MailOf[c][n])
                     THEN observed \cup {id} ELSE observed
  BY DEF IngestMail
<1>4. id \in STRING
  <2>1. pending \in PendingPages
    BY <1>2, CheckpointFields
  <2>2. pending.ids \in Seq(STRING)
    BY <1>1, <2>1 DEF PendingPages
  <2> HIDE DEF pending
  <2> QED
    BY <1>1, <2>2
<1> HIDE DEF id
<1>5. /\ row \in ScanSyncs /\ row.generation = mailbox.generation /\ row.ids = sync[s].ids \cup {id}
      /\ sync' = [sync EXCEPT ![s] = row]
  BY <1>2, <1>3, <1>4 DEF ScanSyncs
<1> HIDE DEF row
<1>6. MailTyped /\ CursorResumable /\ SweptIsObserved
  BY DEF MailInv
<1>7. CursorResumable'
  <2>1. mailbox'.cursor = mailbox.cursor
    BY <1>3
  <2> QED
    BY <1>6, <2>1 DEF CursorResumable, Resumes, Keys, AllDone, Messages
<1>8. observed \subseteq observed'
  BY <1>3
<1>9. SweptIsObserved'
  <2>1. /\ Keys(mailbox.cursor)' = Keys(mailbox.cursor)
        /\ \A c : PassedOver(mailbox.cursor, c)' = PassedOver(mailbox.cursor, c)
    BY <1>3 DEF Keys, PassedOver, Messages
  <2>2. /\ \A c \in Keys(mailbox.cursor)' \cap steady' : PassedOver(mailbox.cursor, c)' \subseteq observed'
        /\ \A c \in swept' : \A n \in DOMAIN MailOf[c] : Messages(MailOf[c][n]) \subseteq observed'
    BY <1>3, <1>6, <1>8, <2>1 DEF SweptIsObserved
  <2> QED
    BY <2>2 DEF SweptIsObserved, Messages
<1>10. \A c \in steady : \A n \in DOMAIN MailOf[c] :
         Messages(MailOf[c][n]) \cap row.ids \subseteq observed'
  <2> SUFFICES ASSUME NEW c \in steady, NEW n \in DOMAIN MailOf[c],
                      NEW m \in Messages(MailOf[c][n]), m \in row.ids
               PROVE  m \in observed'
    OBVIOUS
  <2>1. CASE m \in sync[s].ids
    BY <1>2, <1>8, <2>1
  <2>2. CASE m = id
    BY <1>3, <1>6, <2>2 DEF MailTyped
  <2> QED
    BY <1>5, <2>1, <2>2
<1>11. /\ mailbox' \in MailRows /\ mailbox'.generation = mailbox.generation
       /\ mailbox'.cursor # NoCursor
  <2>1. mailbox.cursor # NoCursor
    BY <1>2, NoKeys DEF Resumes
  <2> QED
    BY <1>3, <1>6, <2>1 DEF MailTyped
<1>12. UNCHANGED watched /\ steady' \subseteq watched /\ swept' \subseteq MailContexts
  BY <1>3, <1>6 DEF MailTyped
<1> QED
  BY <1>2, <1>3, <1>5, <1>7, <1>9, <1>10, <1>11, <1>12, MailLeaseStep

\* ... and when what it writes is a checkpoint.
LEMMA MailSavedStep ==
  ASSUME MailInv, NEW s \in Syncers, Fenced(sync[s]), sync[s].generation = mailbox.generation,
         NEW scanned \in Checkpoints, mailbox' = Saved(scanned),
         ~AllDone(scanned.entries) => Resumes(scanned),
         NEW row \in ScanSyncs, sync' = [sync EXCEPT ![s] = row],
         row.generation = mailbox.generation, row.at = "scan" => ~AllDone(scanned.entries),
         UNCHANGED <<watched, observed>>, steady' \subseteq watched, swept' \subseteq MailContexts,
         \A c \in Keys(scanned) \cap steady' : PassedOver(scanned, c) \subseteq observed,
         \A c \in swept' : \A n \in DOMAIN MailOf[c] : Messages(MailOf[c][n]) \subseteq observed,
         \A c \in steady' : \A n \in DOMAIN MailOf[c] :
           Messages(MailOf[c][n]) \cap row.ids \subseteq observed
  PROVE  MailInv'
<1>1. Keys(scanned) # {} => Greatest(Keys(scanned)) \in Nat
  BY CheckpointFields, GreatestIsOne
<1>2. /\ mailbox' \in MailRows /\ mailbox'.generation = mailbox.generation
      /\ mailbox'.cursor = IF AllDone(scanned.entries) THEN NoCursor ELSE scanned
  <2> DEFINE saved == mailbox'
  <2>1. saved = Saved(scanned)
    OBVIOUS
  <2> HIDE DEF saved
  <2>2. /\ saved \in MailRows /\ saved.generation = mailbox.generation
        /\ saved.cursor = IF AllDone(scanned.entries) THEN NoCursor ELSE scanned
    BY <1>1, <2>1, SavedCursor DEF MailInv
  <2> QED
    BY <2>2 DEF saved
<1>3. CursorResumable'
  <2>1. CASE AllDone(scanned.entries)
    BY <1>2, <2>1 DEF CursorResumable, NoCursor
  <2>2. CASE ~AllDone(scanned.entries)
    <3>1. mailbox'.cursor = scanned /\ Resumes(scanned)
      BY <1>2, <2>2
    <3>2. Resumes(mailbox.cursor)' <=> Resumes(mailbox'.cursor)
      BY DEF Resumes, Keys, AllDone, Messages
    <3>3. Resumes(mailbox'.cursor)
      BY <3>1
    <3> QED
      BY <3>2, <3>3 DEF CursorResumable
  <2> QED
    BY <2>1, <2>2
<1>4. SweptIsObserved'
  <2>1. CASE AllDone(scanned.entries)
    <3>1. Keys(mailbox.cursor)' = {}
      BY <1>2, <2>1, NoKeys DEF Keys, NoCursor
    <3> QED
      BY <3>1 DEF SweptIsObserved, Messages
  <2>2. CASE ~AllDone(scanned.entries)
    <3>1. mailbox'.cursor = scanned
      BY <1>2, <2>2
    <3>2. /\ Keys(mailbox.cursor)' = Keys(scanned)
          /\ \A c : PassedOver(mailbox.cursor, c)' = PassedOver(scanned, c)
      BY <3>1 DEF Keys, PassedOver, Messages
    <3> QED
      BY <3>2 DEF SweptIsObserved, Messages
  <2> QED
    BY <2>1, <2>2
<1>5. row.at = "scan" => mailbox'.cursor # NoCursor
  BY <1>2, NoKeys
<1> QED
  BY <1>2, <1>3, <1>4, <1>5, MailLeaseStep

LEMMA PassedMail ==
  ASSUME MailInv
  PROVE  /\ \A c \in Keys(mailbox.cursor) \cap steady : PassedOver(mailbox.cursor, c) \subseteq observed
         /\ \A c \in swept : \A n \in DOMAIN MailOf[c] : Messages(MailOf[c][n]) \subseteq observed
         /\ steady \subseteq watched /\ swept \subseteq MailContexts /\ watched \subseteq MailContexts
         /\ sync \in [Syncers -> SyncRows]
  BY DEF MailInv, SweptIsObserved, MailTyped

\* A page that is listed is all to come.
LEMMA MailList ==
  ASSUME MailInv, NEW s \in Syncers, ListPage(s)
  PROVE  MailInv'
<1> DEFINE old == mailbox.cursor
           c == Here
           pageAt == old.entries[c].page
           pending == [key |-> c, ids |-> MailOf[c][pageAt]]
           scanned == [old EXCEPT !.pending = pending]
           row == [sync[s] EXCEPT !.pages = @ + 1]
<1>1. Scanning(s) /\ old.pending = NoPending
  BY DEF ListPage, NeedsPage
<1>2. /\ sync[s] \in ScanSyncs /\ sync[s].at = "scan" /\ Fenced(sync[s])
      /\ sync[s].generation = mailbox.generation
      /\ old \in Checkpoints /\ Resumes(old)
      /\ \A k \in steady : \A n \in DOMAIN MailOf[k] :
           Messages(MailOf[k][n]) \cap sync[s].ids \subseteq observed
  BY <1>1, ScanningHolds
<1>3. /\ UNCHANGED <<watched, steady, swept, observed>>
      /\ mailbox' = Saved(scanned) /\ sync' = [sync EXCEPT ![s] = row]
  <2>1. sync' = [sync EXCEPT ![s].pages = @ + 1]
    BY DEF ListPage
  <2> QED
    BY <2>1 DEF ListPage, Entry
<1> HIDE DEF old
<1>4. c \in Keys(old) /\ ~old.entries[c].done
  <2>1. c = ContextAt(old)
    BY DEF Here, old
  <2> HIDE DEF c
  <2> QED
    BY <1>1, <1>2, <2>1, ContextIsOpen
<1>5. /\ Keys(old) \in SUBSET MailContexts /\ old.entries \in [Keys(old) -> PageAt] /\ old.next \in Nat
      /\ old = [entries |-> old.entries, next |-> old.next, pending |-> old.pending]
  BY <1>2, CheckpointFields
<1> HIDE DEF c
<1>6. c \in MailContexts /\ pageAt \in 1 .. Len(MailOf[c])
  BY <1>2, <1>4, <1>5 DEF Resumes
<1>7. pending \in PendingPages /\ pending # NoPending /\ pending.key = c /\ pending.ids = MailOf[c][pageAt]
  <2>1. MailOf[c][pageAt] \in Seq(STRING) /\ c # 0
    BY <1>6, MailPages
  <2> QED
    BY <1>6, <2>1 DEF PendingPages, NoPending
<1> HIDE DEF pending
<1>8. scanned = [entries |-> old.entries, next |-> old.next, pending |-> pending]
  BY <1>5
<1>9. scanned \in Checkpoints /\ scanned.entries = old.entries /\ scanned.pending = pending
  BY <1>2, <1>5, <1>7, <1>8 DEF Checkpoints
<1> HIDE DEF scanned
<1>10. Keys(scanned) = Keys(old) /\ ~AllDone(scanned.entries)
  BY <1>2, <1>9 DEF Keys, Resumes
<1>11. Resumes(scanned)
  BY <1>2, <1>4, <1>7, <1>9, <1>10 DEF Resumes
<1>12. \A k \in Keys(scanned) \cap steady : PassedOver(scanned, k) \subseteq observed
  <2> SUFFICES ASSUME NEW k \in Keys(old) \cap steady
               PROVE  PassedOver(scanned, k) \subseteq observed
    BY <1>10
  <2>1. PassedOver(old, k) \subseteq observed
    BY PassedMail DEF old
  <2>2. PassedOver(scanned, k) \subseteq PassedOver(old, k)
    <3>1. CASE k # c
      BY <1>7, <1>9, <3>1 DEF PassedOver
    <3>2. CASE k = c
      BY <1>4, <1>7, <1>9, <3>2 DEF PassedOver
    <3> QED
      BY <3>1, <3>2
  <2> QED
    BY <2>1, <2>2
<1>13. /\ row \in ScanSyncs /\ row.generation = mailbox.generation /\ row.ids = sync[s].ids
  BY <1>2 DEF ScanSyncs
<1> HIDE DEF row
<1>14. steady' \subseteq watched /\ swept' \subseteq MailContexts
  BY <1>3, PassedMail
<1>15. \A k \in Keys(scanned) \cap steady' : PassedOver(scanned, k) \subseteq observed
  BY <1>3, <1>12
<1>16. \A k \in swept' : \A n \in DOMAIN MailOf[k] : Messages(MailOf[k][n]) \subseteq observed
  BY <1>3, PassedMail
<1>17. \A k \in steady' : \A n \in DOMAIN MailOf[k] :
         Messages(MailOf[k][n]) \cap row.ids \subseteq observed
  BY <1>2, <1>3, <1>13
<1> QED
  BY <1>2, <1>3, <1>9, <1>10, <1>11, <1>13, <1>14, <1>15, <1>16, <1>17, MailSavedStep

\* A message is passed over once this sync has inspected it.
LEMMA MailShift ==
  ASSUME MailInv, NEW s \in Syncers, Shift(s)
  PROVE  MailInv'
<1> DEFINE old == mailbox.cursor
           c == old.pending.key
           ids == old.pending.ids
           pending == [key |-> c, ids |-> Tail(ids)]
           scanned == [old EXCEPT !.pending.ids = Tail(@)]
           row == sync[s]
<1>1. Scanning(s) /\ old.pending # NoPending /\ ids # <<>> /\ Head(ids) \in sync[s].ids
  BY DEF Shift, Shiftable, Inspects, NeedsPage
<1>2. /\ sync[s] \in ScanSyncs /\ sync[s].at = "scan" /\ Fenced(sync[s])
      /\ sync[s].generation = mailbox.generation
      /\ old \in Checkpoints /\ Resumes(old)
      /\ \A k \in steady : \A n \in DOMAIN MailOf[k] :
           Messages(MailOf[k][n]) \cap sync[s].ids \subseteq observed
  BY <1>1, ScanningHolds
<1>3. /\ UNCHANGED <<watched, steady, swept, observed, sync>>
      /\ mailbox' = Saved(scanned)
  BY DEF Shift
<1>4. sync' = [sync EXCEPT ![s] = row]
  BY <1>3, PassedMail
<1> HIDE DEF old
<1>5. /\ Keys(old) \in SUBSET MailContexts /\ old.entries \in [Keys(old) -> PageAt] /\ old.next \in Nat
      /\ old.pending \in PendingPages
      /\ old = [entries |-> old.entries, next |-> old.next, pending |-> old.pending]
  BY <1>2, CheckpointFields
<1>6. /\ c \in MailContexts /\ ids \in Seq(STRING) /\ old.pending = [key |-> c, ids |-> ids]
      /\ c # 0
  <2>1. old.pending \in [key : MailContexts, ids : Seq(STRING)]
    BY <1>1, <1>5 DEF PendingPages
  <2>2. c \in MailContexts /\ ids \in Seq(STRING) /\ old.pending = [key |-> c, ids |-> ids]
    BY <2>1
  <2> HIDE DEF c
  <2> QED
    BY <2>2, MailPages
<1>7. /\ c \in Keys(old) /\ old.entries[c].page \in 1 .. Len(MailOf[c])
      /\ Messages(ids) \subseteq Messages(MailOf[c][old.entries[c].page])
  BY <1>1, <1>2 DEF Resumes
<1>8. /\ Tail(ids) \in Seq(STRING) /\ Messages(Tail(ids)) \subseteq Messages(ids)
      /\ Head(ids) \in Messages(ids)
      /\ Messages(ids) \subseteq Messages(Tail(ids)) \cup {Head(ids)}
  <2> HIDE DEF ids
  <2>1. /\ Tail(ids) \in Seq(STRING) /\ Len(ids) \in Nat \ {0} /\ Len(Tail(ids)) = Len(ids) - 1
        /\ Head(ids) = ids[1] /\ \A n \in 1 .. Len(ids) - 1 : Tail(ids)[n] = ids[n + 1]
    BY <1>1, <1>6
  <2>2. DOMAIN ids = 1 .. Len(ids) /\ DOMAIN Tail(ids) = 1 .. Len(ids) - 1
    BY <1>6, <2>1
  <2>3. Messages(Tail(ids)) \subseteq Messages(ids)
    BY <2>1, <2>2 DEF Messages
  <2>4. Head(ids) \in Messages(ids)
    BY <2>1, <2>2 DEF Messages
  <2>5. ASSUME NEW n \in 1 .. Len(ids), n # 1
        PROVE  n - 1 \in 1 .. Len(ids) - 1 /\ ids[n] = Tail(ids)[n - 1]
    <3>1. n - 1 \in 1 .. Len(ids) - 1 /\ (n - 1) + 1 = n
      BY <2>1, <2>5
    <3>2. Tail(ids)[n - 1] = ids[(n - 1) + 1]
      BY <2>1, <3>1
    <3> QED
      BY <3>1, <3>2
  <2>6. Messages(ids) \subseteq Messages(Tail(ids)) \cup {Head(ids)}
    <3> SUFFICES ASSUME NEW n \in 1 .. Len(ids), n # 1
                 PROVE  ids[n] \in Messages(Tail(ids))
      BY <2>1, <2>2 DEF Messages
    <3> QED
      BY <2>2, <2>5 DEF Messages
  <2> QED
    BY <2>1, <2>3, <2>4, <2>6
<1>9. pending \in PendingPages /\ pending # NoPending /\ pending.key = c /\ pending.ids = Tail(ids)
  BY <1>6, <1>8 DEF PendingPages, NoPending
<1>10. scanned = [entries |-> old.entries, next |-> old.next, pending |-> pending]
  <2> DEFINE left == Tail(ids)
  <2>1. scanned = [old EXCEPT !.pending = [old.pending EXCEPT !.ids = left]]
    OBVIOUS
  <2>2. [old.pending EXCEPT !.ids = left] = pending
    <3>1. pending = [key |-> c, ids |-> left]
      OBVIOUS
    <3> HIDE DEF c, ids, left, pending
    <3> QED
      BY <1>6, <3>1
  <2> HIDE DEF pending, left, scanned
  <2> QED
    BY <1>5, <2>1, <2>2
<1> HIDE DEF pending, c, ids
<1>11. scanned \in Checkpoints /\ scanned.entries = old.entries /\ scanned.pending = pending
  BY <1>2, <1>5, <1>9, <1>10 DEF Checkpoints
<1> HIDE DEF scanned
<1>12. Keys(scanned) = Keys(old) /\ ~AllDone(scanned.entries)
  BY <1>2, <1>11 DEF Keys, Resumes
<1>13. Resumes(scanned)
  BY <1>2, <1>7, <1>8, <1>9, <1>11, <1>12 DEF Resumes
<1>14. \A k \in Keys(scanned) \cap steady : PassedOver(scanned, k) \subseteq observed
  <2> SUFFICES ASSUME NEW k \in Keys(old) \cap steady
               PROVE  PassedOver(scanned, k) \subseteq observed
    BY <1>12
  <2>1. PassedOver(old, k) \subseteq observed
    BY PassedMail DEF old
  <2>2. CASE k # c
    <3>1. PassedOver(scanned, k) = PassedOver(old, k)
      BY <1>9, <1>11, <2>2 DEF PassedOver, c
    <3> QED
      BY <2>1, <3>1
  <2>3. CASE k = c
    <3>1. PassedOver(scanned, c) \subseteq PassedOver(old, c) \cup {Head(ids)}
      <4>1. old.pending.key = c /\ old.pending.ids = ids
        BY DEF c, ids
      <4> QED
        BY <1>8, <1>9, <1>11, <4>1 DEF PassedOver
    <3>2. Head(ids) \in observed
      <4>1. DOMAIN MailOf[c] = 1 .. Len(MailOf[c])
        BY <1>6, MailPages
      <4>2. Head(ids) \in Messages(MailOf[c][old.entries[c].page])
        BY <1>7, <1>8
      <4>3. Head(ids) \in sync[s].ids
        BY <1>1 DEF ids
      <4> QED
        BY <1>2, <1>7, <2>3, <4>1, <4>2, <4>3
    <3> QED
      BY <2>1, <2>3, <3>1, <3>2
  <2> QED
    BY <2>2, <2>3
<1> HIDE DEF row
<1>15. row = sync[s]
  BY DEF row
<1>16. steady' \subseteq watched /\ swept' \subseteq MailContexts
  BY <1>3, PassedMail
<1>17. \A k \in Keys(scanned) \cap steady' : PassedOver(scanned, k) \subseteq observed
  BY <1>3, <1>14
<1>18. \A k \in swept' : \A n \in DOMAIN MailOf[k] : Messages(MailOf[k][n]) \subseteq observed
  BY <1>3, PassedMail
<1>19. \A k \in steady' : \A n \in DOMAIN MailOf[k] :
         Messages(MailOf[k][n]) \cap row.ids \subseteq observed
  BY <1>2, <1>3, <1>15
<1> QED
  BY <1>2, <1>3, <1>4, <1>11, <1>12, <1>13, <1>15, <1>16, <1>17, <1>18, <1>19, MailSavedStep

\* A page that is read to its end.
LEMMA PageTurned ==
  ASSUME NEW c \in MailContexts, NEW p \in 1 .. Len(MailOf[c])
  PROVE  /\ UNION {Messages(MailOf[c][n]) : n \in 1 .. (p + 1) - 1}
              = (UNION {Messages(MailOf[c][n]) : n \in 1 .. p - 1}) \cup Messages(MailOf[c][p])
         /\ p # Len(MailOf[c]) => p + 1 \in 1 .. Len(MailOf[c])
         /\ p \in Nat /\ p + 1 \in Nat
<1>1. Len(MailOf[c]) \in Nat
  BY MailPages
<1>2. p \in Nat /\ p >= 1 /\ p <= Len(MailOf[c])
  BY <1>1
<1>3. 1 .. (p + 1) - 1 = (1 .. p - 1) \cup {p}
  BY <1>2
<1> DEFINE ReadOf(n) == Messages(MailOf[c][n])
<1>4. UNION {ReadOf(n) : n \in 1 .. (p + 1) - 1} = (UNION {ReadOf(n) : n \in 1 .. p - 1}) \cup ReadOf(p)
  <2> HIDE DEF ReadOf
  <2> QED
    BY <1>3
<1> QED
  BY <1>1, <1>2, <1>4

\* A context that is read to its end has been swept, and the others are as they were.
LEMMA MailTurn ==
  ASSUME MailInv, NEW s \in Syncers, TurnPage(s)
  PROVE  MailInv'
<1> DEFINE old == mailbox.cursor
           c == Here
           pageAt == old.entries[c].page
           ended == pageAt = Len(MailOf[c])
           beyond == {k \in Keys(old) : k > c}
           from == IF beyond # {} THEN beyond ELSE Keys(old)
           next == Least(from)
           entry == [page |-> IF ended THEN pageAt ELSE pageAt + 1, done |-> ended]
           entries == [old.entries EXCEPT ![c] = entry]
           turned == [old EXCEPT !.entries = entries, !.pending = NoPending, !.next = next]
           row == [sync[s] EXCEPT !.at = IF AllDone(turned.entries) THEN "finish" ELSE @]
<1>1. Scanning(s) /\ old.pending # NoPending /\ old.pending.ids = <<>>
  BY DEF TurnPage, NeedsPage
<1>2. /\ sync[s] \in ScanSyncs /\ sync[s].at = "scan" /\ Fenced(sync[s])
      /\ sync[s].generation = mailbox.generation
      /\ old \in Checkpoints /\ Resumes(old)
      /\ \A k \in steady : \A n \in DOMAIN MailOf[k] :
           Messages(MailOf[k][n]) \cap sync[s].ids \subseteq observed
  BY <1>1, ScanningHolds
<1>3. /\ UNCHANGED <<watched, steady, observed>>
      /\ mailbox' = Saved(turned) /\ sync' = [sync EXCEPT ![s] = row]
      /\ swept' = IF ended THEN swept \cup ({c} \cap steady) ELSE swept
  <2>1. /\ UNCHANGED <<watched, steady, observed>>
        /\ mailbox' = Saved(turned)
        /\ sync' = [sync EXCEPT ![s].at = IF AllDone(turned.entries) THEN "finish" ELSE @]
        /\ swept' = IF ended THEN swept \cup ({c} \cap steady) ELSE swept
    BY DEF TurnPage, Entry
  <2>2. sync' = [sync EXCEPT ![s] = row]
    BY <2>1
  <2> HIDE DEF turned, row
  <2> QED
    BY <2>1, <2>2
<1> HIDE DEF old
<1>4. c \in Keys(old) /\ c = old.pending.key
  <2>1. c = ContextAt(old)
    BY DEF Here, old
  <2> HIDE DEF c
  <2> QED
    BY <1>1, <1>2, <2>1, ContextIsOpen
<1>5. /\ Keys(old) \in SUBSET MailContexts /\ Keys(old) \in SUBSET Nat
      /\ old.entries \in [Keys(old) -> PageAt] /\ old.next \in Nat
      /\ old = [entries |-> old.entries, next |-> old.next, pending |-> old.pending]
  BY <1>2, CheckpointFields
<1> HIDE DEF c
<1>6. c \in MailContexts /\ pageAt \in 1 .. Len(MailOf[c]) /\ c # 0
  <2>1. c \in MailContexts /\ pageAt \in 1 .. Len(MailOf[c])
    BY <1>2, <1>4, <1>5 DEF Resumes
  <2> QED
    BY <2>1, MailPages
<1> HIDE DEF pageAt
<1> DEFINE before == UNION {Messages(MailOf[c][n]) : n \in 1 .. pageAt - 1}
           here == Messages(MailOf[c][pageAt])
<1>7. /\ UNION {Messages(MailOf[c][n]) : n \in 1 .. (pageAt + 1) - 1} = before \cup here
      /\ pageAt # Len(MailOf[c]) => pageAt + 1 \in 1 .. Len(MailOf[c])
      /\ pageAt \in Nat /\ pageAt + 1 \in Nat
  BY <1>6, PageTurned
<1>8. /\ entry \in PageAt /\ entry.page \in 1 .. Len(MailOf[c]) /\ entry.done = ended
      /\ entry.page = IF ended THEN pageAt ELSE pageAt + 1
  <2>1. (IF ended THEN pageAt ELSE pageAt + 1) \in Nat
    BY <1>7
  <2>2. (IF ended THEN pageAt ELSE pageAt + 1) \in 1 .. Len(MailOf[c])
    BY <1>6, <1>7
  <2> QED
    BY <2>1, <2>2 DEF PageAt
<1> HIDE DEF entry
<1>9. /\ entries \in [Keys(old) -> PageAt] /\ DOMAIN entries = Keys(old)
      /\ entries[c] = entry /\ \A k \in Keys(old) : k # c => entries[k] = old.entries[k]
  BY <1>4, <1>5, <1>8
<1> HIDE DEF entries
<1>10. next \in Nat
  <2>1. from \in SUBSET Nat /\ from # {}
    BY <1>4, <1>5
  <2> HIDE DEF from
  <2> QED
    BY <2>1, LeastIsOne
<1> HIDE DEF next
<1>11. turned = [entries |-> entries, next |-> next, pending |-> NoPending]
  <2>1. PICK w : w = [old EXCEPT !.entries = entries, !.pending = NoPending, !.next = next]
    OBVIOUS
  <2>2. w = [entries |-> entries, next |-> next, pending |-> NoPending]
    BY <1>2, <2>1 DEF Checkpoints
  <2> QED
    BY <2>1, <2>2
<1>12. /\ turned \in Checkpoints /\ turned.entries = entries /\ turned.pending = NoPending
       /\ Keys(turned) = Keys(old)
  <2>1. entries \in UNION {[keys -> PageAt] : keys \in SUBSET MailContexts}
    BY <1>5, <1>9
  <2> QED
    BY <1>9, <1>10, <1>11, <2>1 DEF Checkpoints, PendingPages, Keys
<1> HIDE DEF turned
<1>13. ~AllDone(turned.entries) => Resumes(turned)
  <2>1. \A k \in Keys(turned) : turned.entries[k].page \in 1 .. Len(MailOf[k])
    BY <1>2, <1>8, <1>9, <1>12 DEF Resumes
  <2> QED
    BY <1>12, <2>1 DEF Resumes
<1>14. c \in steady => before \cup here \subseteq observed
  <2>1. PassedOver(old, c) = before \cup here
    <3>1. Messages(old.pending.ids) = {}
      BY <1>1 DEF Messages
    <3> QED
      BY <1>4, <3>1 DEF PassedOver, pageAt
  <2>2. c \in steady => PassedOver(old, c) \subseteq observed
    BY <1>4, PassedMail DEF old
  <2> QED
    BY <2>1, <2>2
<1>15. \A k \in Keys(turned) \cap steady : PassedOver(turned, k) \subseteq observed
  <2> SUFFICES ASSUME NEW k \in Keys(old) \cap steady
               PROVE  PassedOver(turned, k) \subseteq observed
    BY <1>12
  <2>1. turned.pending.key # k
    BY <1>5, <1>12, CheckpointFields, <1>2 DEF NoPending
  <2>2. CASE k # c
    <3>1. turned.entries[k] = old.entries[k] /\ old.pending.key # k
      BY <1>4, <1>9, <1>12, <2>2
    <3>2. PassedOver(turned, k) = PassedOver(old, k)
      BY <2>1, <3>1 DEF PassedOver
    <3>3. PassedOver(old, k) \subseteq observed
      BY PassedMail DEF old
    <3> QED
      BY <3>2, <3>3
  <2>3. CASE k = c
    <3>1. turned.entries[k] = entry
      BY <1>9, <1>12, <2>3
    <3>2. CASE ended
      <4>1. entry.done /\ entry.page = pageAt
        BY <1>8, <3>2
      <4>2. PassedOver(turned, k) = before \cup here
        BY <2>3, <3>1, <4>1 DEF PassedOver
      <4> QED
        BY <1>14, <2>3, <4>2
    <3>3. CASE ~ended
      <4>1. ~entry.done /\ entry.page = pageAt + 1
        BY <1>8, <3>3
      <4>2. PassedOver(turned, k) = UNION {Messages(MailOf[c][n]) : n \in 1 .. (pageAt + 1) - 1}
        BY <2>1, <2>3, <3>1, <4>1 DEF PassedOver
      <4> QED
        BY <1>7, <1>14, <2>3, <4>2
    <3> QED
      BY <3>2, <3>3
  <2> QED
    BY <2>2, <2>3
<1>16. \A k \in swept' : \A n \in DOMAIN MailOf[k] : Messages(MailOf[k][n]) \subseteq observed
  <2> SUFFICES ASSUME NEW k \in swept', NEW n \in DOMAIN MailOf[k]
               PROVE  Messages(MailOf[k][n]) \subseteq observed
    OBVIOUS
  <2>1. CASE k \in swept
    BY <2>1, PassedMail
  <2>2. CASE ended /\ k = c /\ c \in steady
    <3>1. n \in 1 .. pageAt /\ pageAt \in Nat
      BY <1>6, <1>7, <2>2, MailPages
    <3>2. n = pageAt \/ n \in 1 .. pageAt - 1
      BY <3>1
    <3>3. Messages(MailOf[c][n]) \subseteq before \cup here
      BY <3>2
    <3> QED
      BY <1>14, <2>2, <3>3
  <2> QED
    BY <1>3, <2>1, <2>2
<1>17. /\ row \in ScanSyncs /\ row.generation = mailbox.generation /\ row.ids = sync[s].ids
       /\ row.at = "scan" => ~AllDone(turned.entries)
  <2> DEFINE at == IF AllDone(turned.entries) THEN "finish" ELSE "scan"
  <2>1. row = [sync[s] EXCEPT !.at = at]
    BY <1>2
  <2>2. at \in {"scan", "finish"} /\ (at = "scan" => ~AllDone(turned.entries))
    OBVIOUS
  <2> HIDE DEF at, row
  <2> QED
    BY <1>2, <2>1, <2>2 DEF ScanSyncs
<1> HIDE DEF row
<1>18. steady' \subseteq watched /\ swept' \subseteq MailContexts
  BY <1>3, <1>6, PassedMail
<1>19. \A k \in Keys(turned) \cap steady' : PassedOver(turned, k) \subseteq observed
  BY <1>3, <1>15
<1>20. \A k \in steady' : \A n \in DOMAIN MailOf[k] :
         Messages(MailOf[k][n]) \cap row.ids \subseteq observed
  BY <1>2, <1>3, <1>17
<1>21. UNCHANGED <<watched, observed>>
  BY <1>3
<1> QED
  BY <1>2, <1>3, <1>12, <1>13, <1>16, <1>17, <1>18, <1>19, <1>20, <1>21, MailSavedStep

\* The first checkpoint of a batch has nothing behind it.
LEMMA NewMailScanFields ==
  ASSUME NEW keys \in SUBSET MailContexts, NEW scanned, scanned = NewMailScan(keys)
  PROVE  /\ scanned \in Checkpoints /\ Keys(scanned) = keys
         /\ keys # {} => Resumes(scanned)
         /\ \A c \in keys : PassedOver(scanned, c) = {}
<1> DEFINE entries == [c \in keys |-> [page |-> 1, done |-> FALSE]]
           next == IF keys = {} THEN 0 ELSE Least(keys)
<1>1. scanned = [entries |-> entries, next |-> next, pending |-> NoPending]
  BY DEF NewMailScan
<1>2. keys \in SUBSET Nat /\ 0 \notin keys
  BY MailPages
<1>3. next \in Nat
  BY <1>2, LeastIsOne
<1>4. entries \in [keys -> PageAt] /\ DOMAIN entries = keys
  BY DEF PageAt
<1>5. \A c \in keys : entries[c].page = 1 /\ ~entries[c].done
  OBVIOUS
<1> HIDE DEF entries, next
<1>6. entries \in UNION {[k -> PageAt] : k \in SUBSET MailContexts}
  BY <1>4
<1>7. scanned \in Checkpoints
  BY <1>1, <1>3, <1>6 DEF Checkpoints, PendingPages
<1>8. Keys(scanned) = keys /\ scanned.entries = entries /\ scanned.pending = NoPending
  BY <1>1, <1>4 DEF Keys
<1>9. ASSUME keys # {}
      PROVE  Resumes(scanned)
  <2>1. ~AllDone(entries)
    BY <1>4, <1>5, <1>9 DEF AllDone
  <2>2. \A c \in keys : 1 \in 1 .. Len(MailOf[c])
    <3>1. \A c \in keys : Len(MailOf[c]) \in Nat \ {0}
      BY MailPages
    <3> QED
      BY <3>1
  <2> QED
    BY <1>5, <1>8, <2>1, <2>2 DEF Resumes
<1>10. ASSUME NEW c \in keys
       PROVE  PassedOver(scanned, c) = {}
  <2>1. scanned.pending.key # c
    BY <1>2, <1>8 DEF NoPending
  <2>2. scanned.entries[c].page = 1 /\ ~scanned.entries[c].done
    BY <1>5, <1>8
  <2>3. PassedOver(scanned, c) = UNION {Messages(MailOf[c][n]) : n \in 1 .. 1 - 1}
    BY <2>1, <2>2 DEF PassedOver
  <2>4. 1 .. 1 - 1 = {}
    OBVIOUS
  <2> QED
    BY <2>3, <2>4
<1> QED
  BY <1>7, <1>8, <1>9, <1>10

\* What is left of a checkpoint whose contexts have changed has left nothing more behind.
LEMMA NarrowedFields ==
  ASSUME MailTyped, NEW old \in Checkpoints, Resumes(old), NEW scanned, scanned = Narrowed(old)
  PROVE  /\ scanned \in Checkpoints /\ Keys(scanned) = Keys(old) \cap watched
         /\ ~AllDone(scanned.entries) => Resumes(scanned)
         /\ \A c \in Keys(scanned) : PassedOver(scanned, c) = PassedOver(old, c)
<1> DEFINE kept == Keys(old) \cap watched
           entries == [c \in kept |-> old.entries[c]]
           next == IF old.next \in kept \/ kept = {} THEN old.next ELSE Least(kept)
           pending == IF old.pending.key \in watched THEN old.pending ELSE NoPending
<1>1. scanned = [entries |-> entries, next |-> next, pending |-> pending]
  BY DEF Narrowed
<1>2. /\ Keys(old) \in SUBSET MailContexts /\ Keys(old) \in SUBSET Nat /\ 0 \notin Keys(old)
      /\ old.entries \in [Keys(old) -> PageAt] /\ old.next \in Nat
      /\ old.pending \in PendingPages
  BY CheckpointFields
<1> DEFINE inKeys == Keys(old)
<1>3. next \in Nat
  <2>1. kept \in SUBSET Nat
    BY <1>2
  <2> HIDE DEF kept
  <2> QED
    BY <1>2, <2>1, LeastIsOne
<1>4. entries \in [kept -> PageAt] /\ DOMAIN entries = kept
  BY <1>2
<1>5. \A c \in kept : entries[c] = old.entries[c]
  OBVIOUS
<1>6. pending \in PendingPages /\ (pending # NoPending => pending = old.pending /\ old.pending.key \in watched)
  BY <1>2 DEF PendingPages
<1>7. \A c \in kept : pending.key = c <=> old.pending.key = c
  BY <1>2 DEF NoPending
<1> HIDE DEF entries, next, pending
<1>8. entries \in UNION {[k -> PageAt] : k \in SUBSET MailContexts}
  BY <1>2, <1>4
<1>9. scanned \in Checkpoints
  BY <1>1, <1>3, <1>6, <1>8 DEF Checkpoints
<1>10. Keys(scanned) = kept /\ scanned.entries = entries /\ scanned.pending = pending
  BY <1>1, <1>4 DEF Keys
<1>11. ASSUME ~AllDone(scanned.entries)
       PROVE  Resumes(scanned)
  <2>1. \A c \in kept : entries[c].page \in 1 .. Len(MailOf[c])
    BY <1>5 DEF Resumes
  <2>2. ASSUME pending # NoPending
        PROVE  /\ pending.key \in kept
               /\ Messages(pending.ids) \subseteq Messages(MailOf[pending.key][entries[pending.key].page])
    <3>1. pending = old.pending /\ old.pending.key \in watched
      BY <1>6, <2>2
    <3>2. pending.key \in kept
      BY <2>2, <3>1 DEF Resumes
    <3> QED
      BY <1>5, <2>2, <3>1, <3>2 DEF Resumes
  <2> QED
    BY <1>10, <1>11, <2>1, <2>2 DEF Resumes
<1>12. ASSUME NEW c \in kept
       PROVE  PassedOver(scanned, c) = PassedOver(old, c)
  <2>1. scanned.entries[c] = old.entries[c]
    BY <1>5, <1>10
  <2>2. scanned.pending.key = c <=> old.pending.key = c
    BY <1>7, <1>10
  <2>3. scanned.pending.key = c => scanned.pending = old.pending
    BY <1>2, <1>6, <1>10 DEF NoPending
  <2> QED
    BY <2>1, <2>2, <2>3 DEF PassedOver
<1> QED
  BY <1>9, <1>10, <1>11, <1>12

\* A batch is resumed where it was left, or a new one is begun.
LEMMA MailPlan ==
  ASSUME MailInv, NEW s \in Syncers, ScanPlan(s)
  PROVE  MailInv'
<1> DEFINE cursor == mailbox.cursor
           old == IF cursor = NoCursor THEN NoCursor ELSE Narrowed(cursor)
           resumed == ~AllDone(old.entries)
           planned == IF resumed THEN old ELSE NewMailScan(NextBatch)
           row == [sync[s] EXCEPT !.at = IF Keys(planned) = {} THEN "finish" ELSE "scan"]
<1>1. sync[s].at = "plan" /\ sync[s].generation = mailbox.generation
  BY DEF ScanPlan, SyncAt, HoldsLease
<1>2. /\ sync[s] \in PlanSyncs /\ Fenced(sync[s])
      /\ MailTyped /\ cursor \in {NoCursor} \cup Checkpoints
      /\ cursor # NoCursor => Resumes(cursor)
  <2>1. sync[s] \in SyncRows /\ mailbox \in MailRows
    BY DEF MailInv, MailTyped
  <2>2. sync[s] \in PlanSyncs /\ Fenced(sync[s])
    BY <1>1, <2>1 DEF SyncRows, FreeSyncs, RefreshSyncs, ScanSyncs, Fenced
  <2> QED
    BY <2>1, <2>2, RowFields DEF MailInv, CursorResumable
<1>3. /\ UNCHANGED <<watched, swept, observed>>
      /\ mailbox' = Saved(planned)
      /\ steady' = IF resumed THEN steady ELSE watched
      /\ sync' = [sync EXCEPT ![s] = row]
  <2>1. /\ UNCHANGED <<watched, swept, observed>>
        /\ mailbox' = Saved(planned)
        /\ steady' = IF resumed THEN steady ELSE watched
        /\ sync' = [sync EXCEPT ![s].at = IF Keys(planned) = {} THEN "finish" ELSE "scan"]
    BY DEF ScanPlan
  <2>2. sync' = [sync EXCEPT ![s] = row]
    <3> HIDE DEF planned
    <3> QED
      BY <2>1
  <2> HIDE DEF planned, row, resumed
  <2> QED
    BY <2>1, <2>2
<1>4. /\ planned \in Checkpoints
      /\ Keys(planned) # {} => Resumes(planned)
      /\ \A c \in Keys(planned) \cap steady' : PassedOver(planned, c) \subseteq observed
  <2>1. CASE resumed
    <3>1. cursor # NoCursor /\ cursor \in Checkpoints /\ Resumes(cursor)
      BY <1>2, <2>1, NoKeys
    <3>2. planned = Narrowed(cursor) /\ ~AllDone(planned.entries) /\ steady' = steady
      BY <1>3, <2>1, <3>1
    <3> HIDE DEF planned, cursor
    <3>3. /\ planned \in Checkpoints /\ Keys(planned) = Keys(cursor) \cap watched
          /\ Resumes(planned)
          /\ \A c \in Keys(planned) : PassedOver(planned, c) = PassedOver(cursor, c)
      BY <1>2, <3>1, <3>2, NarrowedFields
    <3>4. \A c \in Keys(cursor) \cap steady : PassedOver(cursor, c) \subseteq observed
      BY PassedMail DEF cursor
    <3>5. \A c \in Keys(planned) \cap steady' : PassedOver(planned, c) \subseteq observed
      BY <3>2, <3>3, <3>4
    <3> QED
      BY <3>3, <3>5
  <2>2. CASE ~resumed
    <3>1. planned = NewMailScan(NextBatch)
      BY <2>2
    <3>2. NextBatch \in SUBSET MailContexts
      BY <1>2 DEF NextBatch, MailTyped
    <3> HIDE DEF planned
    <3>3. /\ planned \in Checkpoints /\ Keys(planned) = NextBatch
          /\ NextBatch # {} => Resumes(planned)
          /\ \A c \in NextBatch : PassedOver(planned, c) = {}
      BY <3>1, <3>2, NewMailScanFields
    <3> QED
      BY <3>3
  <2> QED
    BY <2>1, <2>2
<1>5. ~AllDone(planned.entries) => Resumes(planned)
  <2> HIDE DEF planned
  <2>1. Keys(planned) = {} => AllDone(planned.entries)
    BY DEF Keys, AllDone
  <2> QED
    BY <1>4, <2>1
<1>6. Keys(planned) # {} => ~AllDone(planned.entries)
  <2> HIDE DEF planned
  <2> QED
    BY <1>4 DEF Resumes
<1>7. steady' \subseteq watched /\ swept' \subseteq MailContexts
  BY <1>3, PassedMail
<1> HIDE DEF planned, resumed, old
<1>8. /\ row \in ScanSyncs /\ row.generation = mailbox.generation /\ row.ids = {}
      /\ row.at = "scan" => ~AllDone(planned.entries)
  <2> DEFINE at == IF Keys(planned) = {} THEN "finish" ELSE "scan"
  <2>1. at \in {"scan", "finish"} /\ (at = "scan" => ~AllDone(planned.entries))
    BY <1>6
  <2>2. row = [sync[s] EXCEPT !.at = at]
    OBVIOUS
  <2> HIDE DEF at, row
  <2> QED
    BY <1>1, <1>2, <2>1, <2>2 DEF PlanSyncs, ScanSyncs
<1> HIDE DEF row
<1>9. \A k \in swept' : \A n \in DOMAIN MailOf[k] : Messages(MailOf[k][n]) \subseteq observed
  BY <1>3, PassedMail
<1>10. \A k \in steady' : \A n \in DOMAIN MailOf[k] :
         Messages(MailOf[k][n]) \cap row.ids \subseteq observed
  BY <1>8
<1>11. UNCHANGED <<watched, observed>>
  BY <1>3
<1> QED
  BY <1>1, <1>2, <1>3, <1>4, <1>5, <1>7, <1>8, <1>9, <1>10, <1>11, MailSavedStep

\* A context that opens is none of those the batch has watched all along; one that
\* closes is no longer asked about.
LEMMA MailContextSteps ==
  ASSUME MailInv, NEW c \in MailContexts, OpenContext(c) \/ CloseContext(c)
  PROVE  MailInv'
<1>1. /\ UNCHANGED <<mailbox, observed, consent, sync, stopped>>
      /\ watched' \subseteq MailContexts /\ steady' \subseteq watched'
      /\ steady' \subseteq steady /\ swept' \subseteq swept
  BY DEF OpenContext, CloseContext, MailInv, MailTyped
<1>2. MailTyped'
  BY <1>1 DEF MailInv, MailTyped, MailContexts
<1>3. CursorResumable'
  <2>1. mailbox'.cursor = mailbox.cursor
    BY <1>1
  <2> QED
    BY <2>1 DEF MailInv, CursorResumable, Resumes, Keys, AllDone, Messages
<1>4. LeasesApart'
  BY <1>1 DEF MailInv, LeasesApart, Fenced
<1>5. InspectedIsObserved'
  BY <1>1 DEF MailInv, InspectedIsObserved, CursorRead, Messages
<1>6. SweptIsObserved'
  <2>1. /\ Keys(mailbox.cursor)' = Keys(mailbox.cursor)
        /\ \A k : PassedOver(mailbox.cursor, k)' = PassedOver(mailbox.cursor, k)
    BY <1>1 DEF Keys, PassedOver, Messages
  <2> QED
    BY <1>1, <2>1, PassedMail DEF SweptIsObserved, Messages
<1> QED
  BY <1>2, <1>3, <1>4, <1>5, <1>6 DEF MailInv

LEMMA MailInvInit == MailInit => MailInv
<1> SUFFICES ASSUME MailInit PROVE MailInv
  OBVIOUS
<1>1. mailbox.cursor = NoCursor /\ watched = {} /\ steady = {} /\ swept = {}
  BY DEF MailInit
<1>2. \A s \in Syncers : sync[s] = IdleSync
  BY DEF MailInit
<1>3. MailTyped
  <2>1. mailbox \in MailRows
    BY DEF MailInit, MailRows
  <2>2. sync \in [Syncers -> SyncRows]
    BY DEF MailInit, SyncRows, FreeSyncs, IdleSync
  <2> QED
    BY <1>1, <2>1, <2>2 DEF MailTyped
<1>4. CursorResumable
  BY <1>1 DEF CursorResumable
<1>5. LeasesApart /\ InspectedIsObserved
  BY <1>2 DEF LeasesApart, InspectedIsObserved, Fenced, CursorRead, IdleSync
<1>6. SweptIsObserved
  BY <1>1, NoKeys DEF SweptIsObserved
<1> QED
  BY <1>3, <1>4, <1>5, <1>6 DEF MailInv

LEMMA MailInvNext == MailInv /\ [MailNext]_mailVars => MailInv'
<1> SUFFICES ASSUME MailInv, [MailNext]_mailVars PROVE MailInv'
  OBVIOUS
<1>1. CASE \E s \in Syncers : SyncStep(s)
  <2> SUFFICES ASSUME NEW s \in Syncers, SyncStep(s) PROVE MailInv'
    BY <1>1
  <2>1. CASE ScanPlan(s)
    BY <2>1, MailPlan
  <2>2. CASE ListPage(s)
    BY <2>2, MailList
  <2>3. CASE IngestMail(s)
    BY <2>3, MailIngest
  <2>4. CASE Shift(s)
    BY <2>4, MailShift
  <2>5. CASE TurnPage(s)
    BY <2>5, MailTurn
  <2>6. CASE \/ StartSync(s) \/ LeaseSync(s) \/ Refresh(s) \/ RefreshFails(s) \/ FinishSync(s)
             \/ RefuseWindow(s) \/ RequestFails(s) \/ Unleased(s) \/ SyncStops(s)
    BY <2>6, MailSyncSteps
  <2> QED
    BY <2>1, <2>2, <2>3, <2>4, <2>5, <2>6 DEF SyncStep
<1>2. CASE \E c \in MailContexts : OpenContext(c) \/ CloseContext(c)
  BY <1>2, MailContextSteps
<1>3. CASE \/ Configure \/ Connect \/ Callback \/ CloseFlow \/ Disconnect \/ ResetScan
           \/ MailTimePasses \/ ToggleMailStop \/ UNCHANGED mailVars
  BY <1>3, MailOwnerSteps
<1> QED
  BY <1>1, <1>2, <1>3 DEF MailNext

\* Whatever a scan has left behind of an application that waited all along is in
\* email_messages: for every mailbox, batch, limit and number of syncs.
THEOREM MailboxSwept == MailboxSpec => []SweptIsObserved
<1>1. MailInv => SweptIsObserved
  BY DEF MailInv
<1> QED
  BY <1>1, MailInvInit, MailInvNext, PTL DEF MailboxSpec

LEMMA MailboxTyped == MailInv => ScanTypeOK
<1> SUFFICES ASSUME MailInv PROVE ScanTypeOK
  OBVIOUS
<1>1. MailTyped /\ mailbox \in MailRows
  BY DEF MailInv, MailTyped
<1>2. Keys(mailbox.cursor) \subseteq MailContexts
  <2>1. CASE mailbox.cursor = NoCursor
    BY <2>1, NoKeys
  <2>2. CASE mailbox.cursor \in Checkpoints
    BY <2>2, CheckpointFields
  <2> QED
    BY <1>1, <2>1, <2>2, RowFields
<1> QED
  BY <1>1, <1>2, RowFields DEF ScanTypeOK, MailTyped

\* The connection, its checkpoint and its contexts keep their types.
THEOREM MailboxType == MailboxSpec => []ScanTypeOK
  BY MailInvInit, MailInvNext, MailboxTyped, PTL DEF MailboxSpec

-----------------------------------------------------------------------------
(* Types: the components side by side                                      *)

\* Recovery: what RecoveryInv says, and the heartbeat.
RecoveryTypes == RecoveryInv /\ seen \in BOOLEAN

LEMMA RecoveryTyped ==
  /\ RecoveryInit => RecoveryTypes
  /\ RecoveryTypes /\ [RecoveryNext]_recoveryVars => RecoveryTypes'
  /\ RecoveryTypes => RecoveryTypeOK
<1>1. RecoveryInit => RecoveryTypes
  BY RecoveryInitially DEF RecoveryInit, RecoveryTypes
<1>2. ASSUME RecoveryTypes, [RecoveryNext]_recoveryVars PROVE RecoveryTypes'
  <2>1. seen' \in BOOLEAN
    BY <1>2 DEF RecoveryTypes, RecoveryNext, recoveryVars, LeaseWork, EndWork, ToggleStop,
       WorkersGone, StartMigration, EndMigration, StartCapture, CopyDatabase, CheckCopy,
       FinishCapture, CaptureFails, PutArtifact, RegisterDocument, SealFile, CopyDocument,
       RekeyDocument, Extract, RotateSecrets, BlockRestored, PublishRestored, RestoreFails,
       AdoptRestored, CompleteReview
  <2> QED
    BY <1>2, <2>1, RecoveryStep DEF RecoveryTypes
<1>3. RecoveryTypes => RecoveryTypeOK
  BY DEF RecoveryTypes, RecoveryInv, Installation, RecoveryTypeOK
<1> QED
  BY <1>1, <1>2, <1>3

\* Inference: a model is chosen while the route is ready and at no other time, and
\* a reservation that a caller remembers is in the ledger.
InferenceTypes ==
  /\ InferenceInv /\ hour <= MaxHour
  /\ route.model \in Models <=> route.status = "ready"
  /\ \A c \in Runners : runner[c].id = 0 \/ runner[c].id \in ReservationIds

LEMMA InferenceTyped ==
  /\ InferenceInit => InferenceTypes
  /\ InferenceTypes /\ [InferenceNext]_inferenceVars => InferenceTypes'
  /\ InferenceTypes => InferenceTypeOK
<1>1. InferenceInit => InferenceTypes
  BY InferenceInitially, InferenceAssumption DEF InferenceInit, InferenceTypes, IdleRunner
<1>2. ASSUME InferenceTypes, [InferenceNext]_inferenceVars PROVE InferenceTypes'
  <2>1. InferenceInv'
    BY <1>2, InferenceStep DEF InferenceTypes
  <2>2. hour' <= MaxHour
    <3>1. hour \in Nat /\ hour <= MaxHour /\ MaxHour \in Nat
      BY <1>2, InferenceAssumption DEF InferenceTypes, InferenceInv, LedgerTyped
    <3>2. hour' = hour \/ (hour < MaxHour /\ hour' = hour + 1)
      BY <1>2 DEF InferenceNext, inferenceVars, HourPasses, RunnerStep, StartRunner,
         CatalogueRead, ChooseModel, Reserve, NotReserved, MarkSent, NotSent, Post,
         FinishCompleted, FinishFailed, TriagePaused, RunnerStops
    <3> QED
      BY <3>1, <3>2
  <2>3. route'.model \in Models <=> route'.status = "ready"
    <3>1. route \in RouteRow
      BY <1>2 DEF InferenceTypes, InferenceInv, LedgerTyped
    <3>2. \/ route' = route
          \/ \E m \in Models : \E class : route' = Ready(m, class)
          \/ \E class : route' = [Ready("none", class) EXCEPT !.status = "paused"]
          \/ \E until : route' = Unavailable("rate_limited", until)
          \/ \E until : route' = Unavailable("paused", until)
      BY <1>2 DEF InferenceNext, inferenceVars, HourPasses, RunnerStep, StartRunner,
         CatalogueRead, ChooseModel, Reserve, NotReserved, MarkSent, NotSent, Post,
         FinishCompleted, FinishFailed, TriagePaused, RunnerStops
    <3>3. CASE route' = route
      BY <1>2, <3>3 DEF InferenceTypes
    <3>4. ASSUME NEW status, NEW until, route' = Unavailable(status, until), status # "ready"
          PROVE  route'.status # "ready" /\ route'.model \notin Models
      BY <3>1, <3>4, InferenceAssumption DEF RouteRow, Unavailable
    <3>5. ASSUME NEW m, NEW class, route' = Ready(m, class)
          PROVE  route'.status = "ready" /\ route'.model = m
      BY <3>5 DEF Ready
    <3>6. ASSUME NEW class, route' = [Ready("none", class) EXCEPT !.status = "paused"]
          PROVE  route'.status # "ready" /\ route'.model \notin Models
      BY <3>6, InferenceAssumption DEF Ready
    <3> QED
      BY <3>2, <3>3, <3>4, <3>5, <3>6
  <2>4. ASSUME NEW c \in Runners
        PROVE  runner'[c].id = 0 \/ runner'[c].id \in ReservationIds'
    <3>1. runner \in [Runners -> RunnerRow] /\ runner' \in [Runners -> RunnerRow]
      BY <1>2, <2>1 DEF InferenceTypes, InferenceInv, RunnersTyped
    <3>2. ReservationIds \subseteq ReservationIds'
      BY <1>2 DEF InferenceTypes, ReservationIds, InferenceNext, inferenceVars, HourPasses,
         RunnerStep, StartRunner, CatalogueRead, ChooseModel, Reserve, NotReserved,
         MarkSent, NotSent, Post, FinishCompleted, FinishFailed, TriagePaused, RunnerStops
    <3>3. runner'[c].id \in {0, runner[c].id} \/ runner'[c].id \in ReservationIds'
      <4>1. ASSUME NEW d \in Runners, runner' = [runner EXCEPT ![d] = runner'[d]],
                   runner'[d].id \in {0, runner[d].id} \/ runner'[d].id \in ReservationIds'
            PROVE  runner'[c].id \in {0, runner[c].id} \/ runner'[c].id \in ReservationIds'
        BY <3>1, <4>1
      <4>2. ASSUME NEW d \in Runners, NEW pc, At(d, pc)
            PROVE  runner' = [runner EXCEPT ![d] = runner'[d]] /\ runner'[d].id = runner[d].id
        BY <3>1, <4>2 DEF At, RunnerRow
      <4>3. ASSUME NEW d \in Runners, Returned(d)
            PROVE  runner' = [runner EXCEPT ![d] = runner'[d]] /\ runner'[d].id = 0
        BY <3>1, <4>3 DEF Returned, IdleRunner
      <4>4. ASSUME NEW d \in Runners, NEW row, runner' = [runner EXCEPT ![d] = row],
                   row.id \in {0, runner[d].id} \/ row.id \in ReservationIds'
            PROVE  /\ runner' = [runner EXCEPT ![d] = runner'[d]]
                   /\ runner'[d].id \in {0, runner[d].id} \/ runner'[d].id \in ReservationIds'
        BY <3>1, <4>4
      <4>5. ASSUME NEW d \in Runners, StartRunner(d) \/ FinishCompleted(d)
            PROVE  \/ Returned(d)
                   \/ \E row : runner' = [runner EXCEPT ![d] = row] /\ row.id = 0
        <5>1. \A pc, class, left :
                [IdleRunner EXCEPT !.pc = pc, !.class = class, !.left = left].id = 0
          BY DEF IdleRunner
        <5>2. \/ Returned(d)
              \/ \E pc, class, left : runner' = [runner EXCEPT ![d] =
                   [IdleRunner EXCEPT !.pc = pc, !.class = class, !.left = left]]
          <6>1. CASE StartRunner(d)
            <7>1. PICK class \in Classes : \E pc \in After(class) :
                    runner' = [runner EXCEPT ![d] =
                      [IdleRunner EXCEPT !.pc = pc, !.class = class, !.left = ReviewRequests]]
              BY <6>1 DEF StartRunner
            <7> QED
              BY <7>1
          <6>2. CASE FinishCompleted(d)
            <7>1. CASE \E class \in NextLetterStep(runner[d].class) : \E pc \in After(class) :
                    runner' = [runner EXCEPT ![d] =
                      [IdleRunner EXCEPT !.pc = pc, !.class = class, !.left = runner[d].left]]
              BY <7>1
            <7> QED
              BY <6>2, <7>1 DEF FinishCompleted
          <6> QED
            BY <4>5, <6>1, <6>2
        <5>3. ASSUME NEW pc, NEW class, NEW left, runner' = [runner EXCEPT ![d] =
                       [IdleRunner EXCEPT !.pc = pc, !.class = class, !.left = left]]
              PROVE  \E row : runner' = [runner EXCEPT ![d] = row] /\ row.id = 0
          <6> DEFINE new == [IdleRunner EXCEPT !.pc = pc, !.class = class, !.left = left]
          <6>1. new.id = 0 /\ runner' = [runner EXCEPT ![d] = new]
            BY <5>1, <5>3
          <6> HIDE DEF new
          <6> QED
            BY <6>1
        <5> QED
          BY <5>2, <5>3
      <4>10. ASSUME NEW d \in Runners, ChooseModel(d)
             PROVE  \/ Returned(d)
                    \/ \E row : runner' = [runner EXCEPT ![d] = row] /\ row.id = runner[d].id
        <5>1. CASE runner' = [runner EXCEPT ![d].pc = "chosen", ![d].model = route.model]
          <6>1. runner[d] \in RunnerRow
            BY <3>1
          <6>2. [runner[d] EXCEPT !.pc = "chosen", !.model = route.model].id = runner[d].id
            BY <6>1 DEF RunnerRow
          <6>3. runner' = [runner EXCEPT ![d] =
                             [runner[d] EXCEPT !.pc = "chosen", !.model = route.model]]
            BY <3>1, <5>1
          <6> QED
            BY <6>2, <6>3
        <5> QED
          BY <4>10, <5>1 DEF ChooseModel
      <4>11. ASSUME NEW d \in Runners, Reserve(d)
             PROVE  \E row : /\ runner' = [runner EXCEPT ![d] = row]
                            /\ row.id \in ReservationIds'
        <5> DEFINE next == Cardinality(ReservationIds) + 1
        <5>1. next \in ReservationIds'
          BY <4>11 DEF Reserve, ReservationIds
        <5>2. runner' = [runner EXCEPT ![d].pc = "reserved", ![d].id = next]
          BY <4>11 DEF Reserve
        <5> HIDE DEF next
        <5>3. runner[d] \in RunnerRow
          BY <3>1
        <5>4. [runner[d] EXCEPT !.pc = "reserved", !.id = next].id = next
          BY <5>3 DEF RunnerRow
        <5>5. runner' = [runner EXCEPT ![d] = [runner[d] EXCEPT !.pc = "reserved", !.id = next]]
          BY <3>1, <5>2
        <5> QED
          BY <5>1, <5>4, <5>5
      <4>6. ASSUME NEW d \in Runners, MarkSent(d)
            PROVE  /\ runner' = [runner EXCEPT ![d] = runner'[d]]
                   /\ runner'[d].id = runner[d].id
        BY <3>1, <4>6 DEF MarkSent, RunnerRow
      <4>7. CASE UNCHANGED inferenceVars \/ HourPasses
        BY <4>7 DEF inferenceVars, HourPasses
      <4>8. ASSUME NEW d \in Runners, RunnerStep(d)
            PROVE  \/ \E pc : At(d, pc)
                   \/ Returned(d) \/ StartRunner(d) \/ ChooseModel(d) \/ FinishCompleted(d)
                   \/ Reserve(d) \/ MarkSent(d)
        BY <4>8 DEF RunnerStep, CatalogueRead, NotReserved, NotSent, Post, FinishFailed,
                    TriagePaused, RunnerStops
      <4>9. ASSUME NEW d \in Runners, RunnerStep(d)
            PROVE  /\ runner' = [runner EXCEPT ![d] = runner'[d]]
                   /\ runner'[d].id \in {0, runner[d].id} \/ runner'[d].id \in ReservationIds'
        BY <4>2, <4>3, <4>4, <4>5, <4>6, <4>8, <4>9, <4>10, <4>11
      <4> QED
        BY <1>2, <4>1, <4>7, <4>9 DEF InferenceNext
    <3> QED
      BY <1>2, <3>2, <3>3 DEF InferenceTypes
  <2> QED
    BY <2>1, <2>2, <2>3, <2>4 DEF InferenceTypes
<1>3. ASSUME InferenceTypes PROVE InferenceTypeOK
  <2>1. hour \in 0 .. MaxHour
    BY <1>3, InferenceAssumption DEF InferenceTypes, InferenceInv, LedgerTyped
  <2>2. route.status \in {"unconfigured", "ready", "paused", "rate_limited"}
    BY <1>3 DEF InferenceTypes, InferenceInv, LedgerTyped, RouteRow
  <2>3. \A id \in ReservationIds :
          /\ reservations[id].state \in {"reserved", "sent", "completed", "failed", "released"}
          /\ reservations[id].class \in Classes
    BY <1>3 DEF InferenceTypes, InferenceInv, LedgerTyped, Reservation, Spent
  <2>4. wired \subseteq ReservationIds
    BY <1>3 DEF InferenceTypes, InferenceInv, WiredSpent
  <2> QED
    BY <1>3, <2>1, <2>2, <2>3, <2>4 DEF InferenceTypes, InferenceTypeOK
<1> QED
  BY <1>1, <1>2, <1>3

\* Handoffs: a session is leased while it is claimed, is of a form that exists, and is
\* the one that requests, browsers and inspections go on about.
LeaseHeld(row) == row.leaseUntil # 0 <=> row.state = "claimed"

HandoffsTypes ==
  /\ HandoffInv /\ 1 <= clock /\ clock <= MaxTime
  /\ \A s \in SessionIds : LeaseHeld(sessions[s]) /\ sessions[s].form \in DOMAIN forms
  /\ inspections \subseteq {0} \cup SessionIds
  /\ \A b \in browsers : b.id \in SessionIds
  /\ \A call \in calls : call.id \in SessionIds

LEMMA LeasedRows ==
  ASSUME NEW r \in SessionRows, LeaseHeld(r)
  PROVE  /\ LeaseHeld([r EXCEPT !.state = "expired", !.leaseUntil = 0])
         /\ r.state = "rebuilding" => LeaseHeld([r EXCEPT !.state = "completed"])
         /\ \A t \in Nat \ {0} : LeaseHeld([r EXCEPT !.state = "claimed", !.leaseUntil = t])
         /\ LeaseHeld([r EXCEPT !.state = "cancelled", !.leaseUntil = 0, !.generation = @ + 1])
         /\ \A t : LeaseHeld([r EXCEPT !.state = "cancelled", !.generation = @ + 1,
                                    !.leaseUntil = 0, !.completedAt = t])
         /\ \A t : LeaseHeld([r EXCEPT !.state = "rebuilding", !.generation = @ + 1,
                                    !.leaseUntil = 0, !.completedAt = t,
                                    !.continuation = r.generation + 1])
BY DEF LeaseHeld, SessionRows

LEMMA FormStays ==
  ASSUME NEW r \in SessionRows
  PROVE  /\ [r EXCEPT !.state = "expired", !.leaseUntil = 0].form = r.form
         /\ [r EXCEPT !.state = "completed"].form = r.form
         /\ \A t : [r EXCEPT !.state = "claimed", !.leaseUntil = t].form = r.form
         /\ [r EXCEPT !.state = "cancelled", !.leaseUntil = 0, !.generation = @ + 1].form = r.form
         /\ \A t : [r EXCEPT !.state = "cancelled", !.generation = @ + 1,
                             !.leaseUntil = 0, !.completedAt = t].form = r.form
         /\ \A t : [r EXCEPT !.state = "rebuilding", !.generation = @ + 1,
                             !.leaseUntil = 0, !.completedAt = t,
                             !.continuation = r.generation + 1].form = r.form
BY DEF SessionRows

\* The rows of the sessions after a step that makes no new one.
LEMMA SessionRowsFit ==
  ASSUME HandoffsTypes, NEW S \in SUBSET SessionIds,
         sessions' \in [SessionIds -> SessionRows], DOMAIN forms \subseteq DOMAIN forms',
         \A s \in SessionIds \ S : sessions'[s] = sessions[s],
         \A s \in S : LeaseHeld(sessions'[s]) /\ sessions'[s].form = sessions[s].form
  PROVE  \A s \in SessionIds : LeaseHeld(sessions'[s]) /\ sessions'[s].form \in DOMAIN forms'
BY DEF HandoffsTypes

SessionsNumbered == DOMAIN sessions = SessionIds

LEMMA IdsOfSessions == HandoffTypes => SessionsNumbered
  BY Ids DEF SessionsNumbered

LEMMA SessionsFit ==
  ASSUME HandoffsTypes, [HandoffNext]_handoffVars, HandoffInv'
  PROVE  /\ SessionIds \subseteq SessionIds' /\ DOMAIN forms \subseteq DOMAIN forms'
         /\ \A s \in SessionIds' : LeaseHeld(sessions'[s]) /\ sessions'[s].form \in DOMAIN forms'
<1> DEFINE Fit == \A s \in SessionIds' :
              LeaseHeld(sessions'[s]) /\ sessions'[s].form \in DOMAIN forms'
           Fitting == /\ SessionIds \subseteq SessionIds' /\ DOMAIN forms \subseteq DOMAIN forms'
                  /\ Fit
<1>1. HandoffTypes /\ HandoffTypes' /\ sessions \in [SessionIds -> SessionRows]
      /\ Latest \in Nat /\ DOMAIN forms = 1 .. Latest
  BY Ids DEF HandoffsTypes, HandoffInv
<1>2. PICK n \in Nat : SessionIds = 1 .. n /\ Cardinality(SessionIds) = n
  BY <1>1, Ids
<1>3. DOMAIN sessions' = SessionIds'
  <2>1. SessionsNumbered'
    BY <1>1, IdsOfSessions, PTL
  <2> QED
    BY <2>1 DEF SessionsNumbered
<1>4. CASE UNCHANGED <<sessions, forms>>
  <2>1. SessionIds' = SessionIds
    BY <1>4 DEF SessionIds
  <2> QED
    BY <1>4, <2>1 DEF HandoffsTypes
<1>5. ASSUME sessions' \in [SessionIds -> SessionRows], DOMAIN forms \subseteq DOMAIN forms',
             NEW S \in SUBSET SessionIds,
             \A s \in SessionIds \ S : sessions'[s] = sessions[s],
             \A s \in S : LeaseHeld(sessions'[s]) /\ sessions'[s].form = sessions[s].form
      PROVE  Fitting
  BY <1>3, <1>5, SessionRowsFit
<1>6. \A s \in SessionIds : sessions[s] \in SessionRows /\ LeaseHeld(sessions[s])
  BY <1>1 DEF HandoffsTypes
<1>7. ASSUME sessions' = WithExpired, forms' = forms
      PROVE  Fitting
  <2> DEFINE S == {s \in SessionIds : Expired(s)}
  <2>1. \A s \in SessionIds : sessions'[s] = IF s \in S
          THEN [sessions[s] EXCEPT !.state = "expired", !.leaseUntil = 0] ELSE sessions[s]
    BY <1>7 DEF WithExpired
  <2>2. \A s \in S : LeaseHeld(sessions'[s]) /\ sessions'[s].form = sessions[s].form
    BY <1>6, <2>1, LeasedRows, FormStays
  <2>3. sessions' \in [SessionIds -> SessionRows]
    <3>1. \A s \in SessionIds : sessions'[s] \in SessionRows
      BY <1>6, <2>1, SessionUpdates
    <3> QED
      BY <1>7, <3>1 DEF WithExpired
  <2> QED
    BY <1>5, <1>7, <2>1, <2>2, <2>3
<1>8. ASSUME NEW s \in SessionIds, NEW row \in SessionRows, LeaseHeld(row),
             row.form = sessions[s].form, sessions' = [sessions EXCEPT ![s] = row],
             DOMAIN forms \subseteq DOMAIN forms'
      PROVE  Fitting
  <2>1. sessions' \in [SessionIds -> SessionRows] /\ sessions'[s] = row
        /\ \A r \in SessionIds \ {s} : sessions'[r] = sessions[r]
    BY <1>1, <1>8
  <2>2. {s} \in SUBSET SessionIds
        /\ \A r \in {s} : LeaseHeld(sessions'[r]) /\ sessions'[r].form = sessions[r].form
    BY <1>8, <2>1
  <2> QED
    BY <1>5, <1>8, <2>1, <2>2
<1>9. CASE \E p \in DOMAIN forms : CreateIn(p)
  <2>1. PICK p \in DOMAIN forms : CreateIn(p)
    BY <1>9
  <2> DEFINE row == [ state |-> "open", generation |-> 1, leaseUntil |-> 0,
                      expires |-> Earlier(clock + HandoffTtl, forms[p].expires),
                      completedAt |-> 0, form |-> p, continuation |-> 0 ]
  <2>2. LeaseHeld(row) /\ row.form = p
    BY DEF LeaseHeld
  <2> HIDE DEF row
  <2>3. sessions' = [s \in SessionIds \cup {n + 1} |-> IF s \in SessionIds THEN WithExpired[s] ELSE row]
    BY <1>2, <2>1 DEF CreateIn, row
  <2>4. SessionIds' = SessionIds \cup {n + 1} /\ forms' = forms
    BY <1>3, <2>1, <2>3 DEF CreateIn
  <2>5. ASSUME NEW s \in SessionIds
        PROVE  LeaseHeld(sessions'[s]) /\ sessions'[s].form \in DOMAIN forms
    <3>1. sessions'[s] = IF Expired(s)
            THEN [sessions[s] EXCEPT !.state = "expired", !.leaseUntil = 0] ELSE sessions[s]
      BY <2>3 DEF WithExpired
    <3>2. LET r == [sessions[s] EXCEPT !.state = "expired", !.leaseUntil = 0]
          IN  LeaseHeld(r) /\ r.form = sessions[s].form
      BY <1>6, LeasedRows, FormStays
    <3> QED
      BY <3>1, <3>2 DEF HandoffsTypes
  <2>6. ASSUME NEW s, s \in SessionIds \cup {n + 1}, s \notin SessionIds
        PROVE  LeaseHeld(sessions'[s]) /\ sessions'[s].form \in DOMAIN forms
    BY <2>1, <2>2, <2>3, <2>6
  <2> QED
    BY <2>4, <2>5, <2>6
<1>10. CASE SnapshotSessions
  BY <1>7, <1>10 DEF SnapshotSessions
<1>11. CASE \E s \in SessionIds : ClaimHandoff(s)
  <2>1. PICK s \in SessionIds : ClaimHandoff(s)
    BY <1>11
  <2> DEFINE until == Earlier(clock + HandoffLease, sessions[s].expires)
             row == [sessions[s] EXCEPT !.state = "claimed", !.leaseUntil = until]
  <2>2. sessions' = [sessions EXCEPT ![s].state = "claimed", ![s].leaseUntil = until]
    BY <2>1 DEF ClaimHandoff
  <2>3. until \in Nat \ {0}
    <3>1. /\ clock \in Nat /\ sessions[s].expires \in Nat /\ clock < sessions[s].expires
          /\ HandoffLease \in Nat \ {0}
      BY <1>1, <1>6, <2>1, HandoffsAssumption DEF ClaimHandoff, HandoffTypes, SessionRows
    <3> QED
      BY <3>1 DEF Earlier
  <2> HIDE DEF until
  <2>4. row \in SessionRows /\ LeaseHeld(row) /\ row.form = sessions[s].form
    BY <1>6, <2>3, LeasedRows, FormStays, SessionUpdates
  <2>5. sessions' = [sessions EXCEPT ![s] = row] /\ forms' = forms
    BY <1>1, <2>1, <2>2 DEF ClaimHandoff
  <2> HIDE DEF row
  <2> QED
    BY <1>8, <2>4, <2>5
<1>12. CASE \E call \in calls : FailToOpen(call)
  <2>1. PICK call \in calls : FailToOpen(call)
    BY <1>12
  <2> DEFINE s == call.id
             row == [sessions[s] EXCEPT !.state = "cancelled", !.leaseUntil = 0,
                                        !.generation = @ + 1]
  <2>2. s \in SessionIds /\ forms' = forms
    BY <2>1 DEF HandoffsTypes, FailToOpen
  <2>3. row \in SessionRows /\ LeaseHeld(row) /\ row.form = sessions[s].form
    BY <1>6, <2>2, LeasedRows, FormStays, SessionUpdates
  <2>4. sessions' = sessions \/ sessions' = [sessions EXCEPT ![s] = row]
    BY <1>1, <2>1, <2>2 DEF FailToOpen
  <2> HIDE DEF row
  <2> QED
    BY <1>4, <1>8, <2>2, <2>3, <2>4
<1>13. CASE \E call \in calls : CompleteHandoff(call)
  <2>1. PICK call \in calls : CompleteHandoff(call)
    BY <1>13
  <2> DEFINE s == call.id
             row == [sessions[s] EXCEPT
               !.state = "rebuilding", !.generation = @ + 1, !.leaseUntil = 0,
               !.completedAt = clock, !.continuation = sessions[s].generation + 1]
  <2>2. s \in SessionIds
    BY <2>1 DEF HandoffsTypes
  <2>3. row \in SessionRows /\ LeaseHeld(row) /\ row.form = sessions[s].form
    <3>1. clock \in Nat
      BY <1>1 DEF HandoffTypes
    <3> QED
      BY <1>6, <2>2, <3>1, LeasedRows, FormStays, SessionUpdates
  <2>4. \/ sessions' = sessions /\ forms' = forms
        \/ /\ sessions' = [sessions EXCEPT ![s] = row]
           /\ forms' = [forms EXCEPT ![sessions[s].form].resolved = TRUE]
    BY <1>1, <2>1, <2>2 DEF CompleteHandoff
  <2>5. forms' = [forms EXCEPT ![sessions[s].form].resolved = TRUE] => DOMAIN forms' = DOMAIN forms
    BY <1>1
  <2> HIDE DEF row
  <2> QED
    BY <1>4, <1>8, <2>2, <2>3, <2>4, <2>5
<1>14. CASE ResumeIn \/ RebuildForm
  <2>1. CancelActive /\ DOMAIN forms' = DOMAIN forms
    BY <1>14 DEF ResumeIn, RebuildForm, RetireForms
  <2>2. clock \in Nat
    BY <1>1 DEF HandoffTypes
  <2>3. \A s \in SessionIds : sessions'[s] = IF s \in ActiveSessions
          THEN [sessions[s] EXCEPT !.state = "cancelled", !.generation = @ + 1,
                                   !.leaseUntil = 0, !.completedAt = clock]
          ELSE sessions[s]
    BY <2>1 DEF CancelActive
  <2>4. ActiveSessions \in SUBSET SessionIds
    BY DEF ActiveSessions
  <2> DEFINE ended(s) == [sessions[s] EXCEPT !.state = "cancelled", !.generation = @ + 1,
                                             !.leaseUntil = 0, !.completedAt = clock]
  <2>8. \A s \in SessionIds : /\ ended(s) \in SessionRows /\ LeaseHeld(ended(s))
                             /\ ended(s).form = sessions[s].form
    <3> SUFFICES ASSUME NEW s \in SessionIds
                 PROVE  /\ ended(s) \in SessionRows /\ LeaseHeld(ended(s))
                        /\ ended(s).form = sessions[s].form
      OBVIOUS
    <3>1. sessions[s] \in SessionRows /\ LeaseHeld(sessions[s])
      BY <1>6
    <3> QED
      BY <2>2, <3>1, LeasedRows, FormStays, SessionUpdates
  <2> HIDE DEF ended
  <2>5. \A s \in ActiveSessions : LeaseHeld(sessions'[s]) /\ sessions'[s].form = sessions[s].form
    BY <2>3, <2>4, <2>8 DEF ended
  <2>6. sessions' \in [SessionIds -> SessionRows]
    <3>1. \A s \in SessionIds : sessions'[s] \in SessionRows
      BY <1>6, <2>3, <2>8 DEF ended
    <3> QED
      BY <2>1, <3>1 DEF CancelActive
  <2>7. \A s \in SessionIds \ ActiveSessions : sessions'[s] = sessions[s]
    BY <2>3
  <2> QED
    BY <1>5, <2>1, <2>4, <2>5, <2>6, <2>7
<1>15. CASE \E status \in {"ready", "challenge", "needs_input"} : SaveForm(status)
  <2>1. PICK status \in {"ready", "challenge", "needs_input"} : SaveForm(status)
    BY <1>15
  <2> DEFINE s == inspecting
             row == [sessions[s] EXCEPT !.state = "completed"]
  <2>2. DOMAIN forms \subseteq DOMAIN forms'
    BY <1>1, <2>1 DEF SaveForm
  <2>3. /\ sessions' = IF s # 0 THEN [sessions EXCEPT ![s].state = "completed"] ELSE sessions
        /\ s # 0 => sessions[s].state = "rebuilding"
    <3>1. sessions' = IF s # 0 THEN [sessions EXCEPT ![s].state = "completed"] ELSE sessions
      BY <2>1 DEF SaveForm
    <3>2. s # 0 => Rebuilt(s)
      BY <2>1 DEF SaveForm
    <3> QED
      BY <3>1, <3>2 DEF Rebuilt
  <2>4. CASE s \in SessionIds /\ s # 0
    <3>3. /\ sessions[s] \in SessionRows /\ LeaseHeld(sessions[s])
          /\ sessions[s].state = "rebuilding"
      BY <1>6, <2>3, <2>4
    <3>1. row \in SessionRows /\ LeaseHeld(row) /\ row.form = sessions[s].form
      BY <3>3, LeasedRows, FormStays, SessionUpdates
    <3>2. sessions' = [sessions EXCEPT ![s] = row]
      BY <1>1, <2>3, <2>4
    <3> HIDE DEF row
    <3> QED
      BY <1>8, <2>2, <2>4, <3>1, <3>2
  <2>5. CASE ~(s \in SessionIds /\ s # 0)
    <3>1. sessions' = sessions
      BY <1>1, <2>3, <2>5
    <3>2. SessionIds' = SessionIds
      BY <3>1 DEF SessionIds
    <3> QED
      BY <2>2, <3>1, <3>2 DEF HandoffsTypes
  <2> QED
    BY <2>2, <2>4, <2>5
<1>16. Fitting
  <2>1. \/ UNCHANGED <<sessions, forms>>
        \/ \E p \in DOMAIN forms : CreateIn(p)
        \/ SnapshotSessions \/ \E s \in SessionIds : ClaimHandoff(s)
        \/ \E call \in calls : FailToOpen(call)
        \/ \E call \in calls : CompleteHandoff(call)
        \/ ResumeIn \/ RebuildForm
        \/ \E status \in {"ready", "challenge", "needs_input"} : SaveForm(status)
    BY DEF HandoffNext, handoffVars, OpenBrowser, Verify, CloseExpired, HumanRequest, ApiStops,
           SavePacket, StartInspection, BuryInspection, DropInspecting, BeginAttempt, Dispatch,
           PassTime
  <2> QED
    BY <1>4, <1>9, <1>10, <1>11, <1>12, <1>13, <1>14, <1>15, <2>1
<1> QED
  BY <1>16

LEMMA HandoffsTyped ==
  /\ HandoffInit => HandoffsTypes
  /\ HandoffsTypes /\ [HandoffNext]_handoffVars => HandoffsTypes'
  /\ HandoffsTypes => HandoffsTypeOK
<1>1. ASSUME HandoffInit PROVE HandoffsTypes
  <2>1. HandoffInv
    BY <1>1, HandoffStart
  <2>2. SessionIds = {}
    BY <1>1, <2>1, IdsOfSessions DEF HandoffInit, HandoffInv, SessionsNumbered
  <2> QED
    BY <1>1, <2>1, <2>2, HandoffsAssumption DEF HandoffsTypes, HandoffInit
<1>2. ASSUME HandoffsTypes, [HandoffNext]_handoffVars PROVE HandoffsTypes'
  <2>1. HandoffInv'
    BY <1>2, HandoffStep DEF HandoffsTypes
  <2>2. /\ SessionIds \subseteq SessionIds'
        /\ \A s \in SessionIds' : LeaseHeld(sessions'[s]) /\ sessions'[s].form \in DOMAIN forms'
    BY <1>2, <2>1, SessionsFit
  <2>3. 1 <= clock' /\ clock' <= MaxTime
    <3>1. clock \in Nat /\ 1 <= clock /\ clock <= MaxTime /\ MaxTime \in Nat
      BY <1>2, HandoffsAssumption DEF HandoffsTypes, HandoffInv, HandoffTypes
    <3>2. clock' = clock \/ (clock < MaxTime /\ clock' = clock + 1)
      BY <1>2 DEF HandoffNext, handoffVars, CreateIn, SnapshotSessions, ClaimHandoff, OpenBrowser,
         FailToOpen, CompleteHandoff, Verify, CloseExpired, HumanRequest, ApiStops, ResumeIn,
         SavePacket, RebuildForm, StartInspection, BuryInspection, DropInspecting, SaveForm,
         BeginAttempt, Dispatch, PassTime
    <3> QED
      BY <3>1, <3>2
  <2>4. inspections' \subseteq {0} \cup SessionIds'
    <3>1. \/ inspections' \subseteq inspections \cup {0}
          \/ \E call \in calls : inspections' = inspections \cup {call.id}
      BY <1>2 DEF HandoffNext, handoffVars, CreateIn, SnapshotSessions, ClaimHandoff, OpenBrowser,
         FailToOpen, CompleteHandoff, Verify, CloseExpired, HumanRequest, ApiStops, ResumeIn,
         SavePacket, RebuildForm, StartInspection, BuryInspection, DropInspecting, SaveForm,
         BeginAttempt, Dispatch, PassTime
    <3>2. CASE inspections' \subseteq inspections \cup {0}
      BY <1>2, <2>2, <3>2 DEF HandoffsTypes
    <3>3. ASSUME NEW call \in calls, inspections' = inspections \cup {call.id}
          PROVE  inspections' \subseteq {0} \cup SessionIds'
      <4>1. call.id \in SessionIds /\ inspections \subseteq {0} \cup SessionIds
        BY <1>2 DEF HandoffsTypes
      <4> HIDE DEF SessionIds
      <4> QED
        BY <2>2, <3>3, <4>1
    <3> QED
      BY <3>1, <3>2, <3>3
  <2>5. \A call \in calls' : call.id \in SessionIds'
    <3>1. \/ calls' \subseteq calls
          \/ \E b \in browsers : Verify(b)
          \/ \E s \in SessionIds : ClaimHandoff(s)
      BY <1>2 DEF HandoffNext, handoffVars, CreateIn, SnapshotSessions, OpenBrowser,
         FailToOpen, CompleteHandoff, CloseExpired, HumanRequest, ApiStops, ResumeIn,
         SavePacket, RebuildForm, StartInspection, BuryInspection, DropInspecting, SaveForm,
         BeginAttempt, Dispatch, PassTime
    <3>2. ASSUME NEW b \in browsers, Verify(b) PROVE \A call \in calls' : call.id \in SessionIds
      BY <1>2, <3>2 DEF HandoffsTypes, Verify
    <3>3. ASSUME NEW s \in SessionIds, ClaimHandoff(s)
          PROVE  \A call \in calls' : call.id \in SessionIds
      BY <1>2, <3>3 DEF HandoffsTypes, ClaimHandoff
    <3> QED
      BY <1>2, <2>2, <3>1, <3>2, <3>3 DEF HandoffsTypes
  <2>6. \A b \in browsers' : b.id \in SessionIds'
    <3>1. \/ browsers' \subseteq browsers
          \/ \E call \in calls : OpenBrowser(call)
          \/ \E b \in browsers : \E r \in Requests : HumanRequest(b, r)
      BY <1>2 DEF HandoffNext, handoffVars, CreateIn, SnapshotSessions, ClaimHandoff,
         FailToOpen, CompleteHandoff, Verify, CloseExpired, ApiStops, ResumeIn,
         SavePacket, RebuildForm, StartInspection, BuryInspection, DropInspecting, SaveForm,
         BeginAttempt, Dispatch, PassTime
    <3>2. ASSUME NEW call \in calls, OpenBrowser(call)
          PROVE  \A b \in browsers' : b.id \in SessionIds
      BY <1>2, <3>2 DEF HandoffsTypes, OpenBrowser
    <3>3. ASSUME NEW b \in browsers, NEW r \in Requests, HumanRequest(b, r)
          PROVE  \A c \in browsers' : c.id \in SessionIds
      <4>1. b \in [id : Nat, generation : Nat, deadline : Nat, cleared : BOOLEAN, blocked : BOOLEAN]
        BY <1>2 DEF HandoffsTypes, HandoffInv, HandoffTypes
      <4>2. [b EXCEPT !.cleared = TRUE].id = b.id /\ [b EXCEPT !.blocked = TRUE].id = b.id
        BY <4>1
      <4> QED
        BY <1>2, <3>3, <4>2 DEF HandoffsTypes, HumanRequest
    <3> QED
      <4>1. CASE browsers' \subseteq browsers
        BY <1>2, <2>2, <4>1 DEF HandoffsTypes
      <4> QED
        BY <2>2, <3>1, <3>2, <3>3, <4>1
  <2> QED
    BY <2>1, <2>2, <2>3, <2>4, <2>5, <2>6 DEF HandoffsTypes
<1>3. ASSUME HandoffsTypes PROVE HandoffsTypeOK
  <2>1. HandoffTypes /\ DispatchSealed /\ clock \in Nat /\ MaxTime \in Nat
    BY <1>3, HandoffsAssumption DEF HandoffsTypes, HandoffInv, HandoffTypes
  <2>2. \A s \in SessionIds : sessions[s].state \in States
    BY <2>1, Ids DEF SessionRows
  <2>3. clock \in 1 .. MaxTime
    BY <1>3, <2>1 DEF HandoffsTypes
  <2>4. attempt.form \in {0} \cup DOMAIN forms
    BY <2>1 DEF DispatchSealed, NoAttempt
  <2> QED
    BY <1>3, <2>2, <2>3, <2>4 DEF HandoffsTypes, HandoffsTypeOK, LeaseHeld, States
<1> QED
  BY <1>1, <1>2, <1>3

\* Preparation graphs: what has a checkpoint is a node, and a batch has no more
\* requests than it declared.
GraphsTypes ==
  /\ GraphInv /\ LedgerInv /\ BatchInv
  /\ checkpoints \subseteq Contents(Nodes) /\ ledger.requests <= BatchRequests

LEMMA GraphsTyped ==
  /\ GraphInit => GraphsTypes
  /\ GraphsTypes /\ [GraphNext \/ BatchNext]_graphVars => GraphsTypes'
  /\ GraphsTypes => GraphTypeOK
<1>1. ASSUME GraphInit PROVE GraphsTypes
  BY <1>1, GraphInitially, GraphAssumption DEF GraphInit, GraphsTypes
<1>2. ASSUME GraphsTypes, [GraphNext \/ BatchNext]_graphVars PROVE GraphsTypes'
  <2>1. GraphInv' /\ LedgerInv' /\ BatchInv'
    BY <1>2, GraphAndBatchStep DEF GraphsTypes
  <2>2. checkpoints' \subseteq Contents(Nodes)
    <3>1. ASSUME NEW r \in RunIds, Checkpoint(r)
          PROVE  checkpoints' \subseteq Contents(Nodes)
      <4>1. /\ runs[r] \in RunRows /\ Covered(runs[r], graph[r], spent[r])
            /\ graph[r].pc = "completed"
        BY <1>2, <3>1, TheRun DEF GraphsTypes, Checkpoint
      <4>2. runs[r].nodes # << >> /\ runs[r].nodes \in Seq(NodeRows)
        BY <4>1 DEF Covered, RunRows
      <4>3. runs[r].nodes[LastNode(r)] \in NodeRows
        BY <4>2 DEF LastNode
      <4>4. runs[r].nodes[LastNode(r)].kind \in Contents(Nodes)
        BY <4>3 DEF NodeRows
      <4> QED
        BY <1>2, <3>1, <4>4 DEF GraphsTypes, Checkpoint
    <3>2. checkpoints' = checkpoints \/ \E r \in RunIds : Checkpoint(r)
      BY <1>2 DEF GraphNext, BatchNext, graphVars, StartGraph, Ticks, GraphStep, ReserveNode,
         AskNode, AskFails, CompleteNode, FinishGraph, GraphStops, TakeGroup, PassGroup,
         SplitGroup, WallTimeEnds, NotDispatched, Unanswered, Answered
    <3> QED
      BY <1>2, <3>1, <3>2 DEF GraphsTypes
  <2>3. ledger'.requests <= BatchRequests
    <3>1. /\ ledger \in [requests : Nat, tokens : Nat] /\ ledger.requests <= BatchRequests
          /\ BatchRequests \in Nat
      BY <1>2, GraphAssumption DEF GraphsTypes, LedgerInv
    <3>2. \/ ledger' = ledger
          \/ Funded /\ \E tokens : ledger' = [requests |-> ledger.requests + 1, tokens |-> tokens]
      <4>1. CASE GraphNext \/ UNCHANGED graphVars
        BY <4>1 DEF GraphNext, graphVars, batchVars, StartGraph, Ticks, GraphStep,
           ReserveNode, AskNode, AskFails, CompleteNode, Checkpoint, FinishGraph, GraphStops
      <4>2. CASE TakeGroup \/ PassGroup \/ SplitGroup \/ WallTimeEnds \/ NotDispatched
        BY <4>2 DEF TakeGroup, PassGroup, SplitGroup, WallTimeEnds, NotDispatched
      <4>3. CASE Unanswered
        <5>1. \E used \in 0 .. Allowance : \E tokens \in {ledger.tokens + used, BatchTokens} :
                ledger' = [requests |-> ledger.requests + 1, tokens |-> tokens]
          BY <4>3, Zenon DEF Unanswered
        <5>2. Funded
          BY <4>3 DEF Unanswered
        <5> QED
          BY <5>1, <5>2
      <4>4. CASE Answered
        <5>1. PICK used \in 0 .. Allowance :
                ledger' = [requests |-> ledger.requests + 1, tokens |-> ledger.tokens + used]
          BY <4>4 DEF Answered
        <5>2. Funded
          BY <4>4 DEF Answered
        <5> QED
          BY <5>1, <5>2
      <4> QED
        BY <1>2, <4>1, <4>2, <4>3, <4>4 DEF BatchNext
    <3> QED
      BY <3>1, <3>2 DEF Funded
  <2> QED
    BY <2>1, <2>2, <2>3 DEF GraphsTypes
<1>3. ASSUME GraphsTypes PROVE GraphTypeOK
  <2>1. ASSUME NEW r \in RunIds
        PROVE  /\ runs[r].state \in {"running", "completed", "failed"}
               /\ runs[r].tokens \in 0 .. GraphTokens /\ runs[r].requests \in 0 .. GraphRequests
    <3>1. runs[r] \in RunRows /\ Covered(runs[r], graph[r], spent[r])
      BY <1>3, TheRun DEF GraphsTypes
    <3>2. runs[r].tokens <= GraphTokens /\ runs[r].requests <= GraphRequests
      BY <3>1 DEF Covered
    <3>3. GraphTokens \in Nat /\ GraphRequests \in Nat
      BY GraphAssumption
    <3>4. /\ runs[r].state \in {"running", "completed", "failed"}
          /\ runs[r].tokens \in Nat /\ runs[r].requests \in Nat
      BY <3>1 DEF RunRows
    <3> QED
      BY <3>2, <3>3, <3>4
  <2>2. DOMAIN batch.results = Contents(Items)
    BY <1>3 DEF GraphsTypes, BatchInv, Batches, Things
  <2>3. ledger.tokens \in 0 .. BatchTokens /\ ledger.requests \in 0 .. BatchRequests
    BY <1>3, GraphAssumption DEF GraphsTypes, LedgerInv
  <2>4. Len(graph) = Len(runs) /\ Len(spent) = Len(runs)
    BY <1>3 DEF GraphsTypes, GraphInv, GraphTypes
  <2> QED
    BY <1>3, <2>1, <2>2, <2>3, <2>4 DEF GraphsTypes, GraphTypeOK
<1> QED
  BY <1>1, <1>2, <1>3

\* Discovery: counts of a source are of postings that exist, and a scan that was
\* discarded has no pages.
SourceBounded ==
  /\ source.revision \in 1 .. MaxRevision /\ source.failures \in 0 .. BackoffLimit
  /\ source.count <= Cardinality(Postings) /\ source.pending <= Cardinality(Postings)

DiscoveryTypes ==
  /\ DiscoveryInv /\ minute \in 0 .. MaxMinute /\ feed \in Feeds /\ halted \in BOOLEAN
  /\ SourceBounded /\ (~scan.present => scan.reads = << >>)

LEMMA SourceStaysBounded ==
  ASSUME DiscoveryTypes, [DiscoveryNext]_discoveryVars
  PROVE  SourceBounded'
<1>1. /\ SourceTyped /\ SourceBounded /\ source.revision \in Nat /\ source.failures \in Nat
      /\ MaxRevision \in Nat /\ BackoffLimit \in Nat \ {0} /\ IsFiniteSet(Postings)
  <2>1. MaxRevision \in Nat /\ BackoffLimit \in Nat \ {0} /\ IsFiniteSet(Postings)
    BY DiscoveryAssumption
  <2>2. SourceTyped /\ SourceBounded
    BY DEF DiscoveryTypes, DiscoveryInv, DiscoveryTyped
  <2>3. source.revision \in Nat /\ source.failures \in Nat
    BY <2>1, <2>2 DEF SourceBounded
  <2> QED
    BY <2>1, <2>2, <2>3
<1>2. ASSUME source' = source PROVE SourceBounded'
  BY <1>1, <1>2 DEF SourceBounded
<1>3. CASE SaveSource
  <2>1. /\ source'.revision = source.revision + 1 /\ source'.failures = source.failures
        /\ source'.count = source.count /\ source'.pending = source.pending
    BY <1>1, <1>3 DEF SaveSource, Idled, SourceTyped
  <2>2. source.revision < MaxRevision
    BY <1>3 DEF SaveSource
  <2> QED
    BY <1>1, <2>1, <2>2 DEF SourceBounded
<1>4. CASE Schedule
  <2>1. PICK acknowledged \in BOOLEAN :
          source' = [Idled(source) EXCEPT
            !.due = minute, !.health = "served", !.etag = << >>, !.revision = @ + 1,
            !.count = IF acknowledged THEN source.pending ELSE @,
            !.reviewed = @ \/ (acknowledged /\ source.pending = 0)]
    BY <1>4 DEF Schedule
  <2>2. /\ source'.revision = source.revision + 1 /\ source'.pending = source.pending
        /\ source'.failures = source.failures
    BY <1>1, <2>1 DEF Idled, SourceTyped
  <2>3. source'.count = IF acknowledged THEN source.pending ELSE source.count
    BY <1>1, <2>1 DEF Idled, SourceTyped
  <2>4. source.revision < MaxRevision
    BY <1>4 DEF Schedule
  <2> QED
    BY <1>1, <2>2, <2>3, <2>4 DEF SourceBounded
<1>5. ASSUME NEW p \in Pollers, ClaimSource(p) \/ DeferScan(p) PROVE SourceBounded'
  <2>1. /\ source'.revision = source.revision /\ source'.failures = source.failures
        /\ source'.count = source.count /\ source'.pending = source.pending
    BY <1>1, <1>5 DEF ClaimSource, DeferScan, Idled, SourceTyped
  <2> QED
    BY <1>1, <2>1 DEF SourceBounded
<1>6. ASSUME NEW p \in Pollers, FailSource(p) PROVE SourceBounded'
  <2>1. PICK wait :
          source' = [Idled(source) EXCEPT
            !.health = Barred(poll[p].health), !.due = minute + wait,
            !.failures = IF @ < BackoffLimit THEN @ + 1 ELSE @]
    BY <1>6 DEF FailSource
  <2>2. /\ source'.revision = source.revision
        /\ source'.count = source.count /\ source'.pending = source.pending
    BY <1>1, <2>1 DEF Idled, SourceTyped
  <2>3. source'.failures = IF source.failures < BackoffLimit THEN source.failures + 1
                           ELSE source.failures
    BY <1>1, <2>1 DEF Idled, SourceTyped
  <2> QED
    BY <1>1, <2>2, <2>3 DEF SourceBounded
<1>7. /\ DOMAIN Succeeded = DOMAIN source /\ Succeeded.revision = source.revision
      /\ Succeeded.failures = 0 /\ Succeeded.count = source.count
      /\ Succeeded.pending = source.pending
  BY <1>1 DEF Succeeded, Idled, SourceTyped
<1>8. ASSUME NEW p \in Pollers, IngestUnmodified(p) PROVE SourceBounded'
  BY <1>1, <1>7, <1>8 DEF IngestUnmodified, SourceBounded
<1>9. ASSUME NEW p \in Pollers, Ingest(p) PROVE SourceBounded'
  <2> DEFINE etag == IF Dropped(p) \/ connector = "paged" THEN << >> ELSE <<poll[p].reads[1].page>>
  <2>1. source' = [Succeeded EXCEPT
          !.count = IF Dropped(p) THEN @ ELSE Cardinality(Batch(p)),
          !.pending = Cardinality(Batch(p)), !.etag = etag, !.reviewed = FALSE]
    BY <1>9 DEF Ingest
  <2> HIDE DEF etag
  <2>2. /\ source'.revision = source.revision /\ source'.failures = 0
        /\ source'.pending = Cardinality(Batch(p))
    BY <1>1, <1>7, <2>1 DEF SourceTyped
  <2>3. source'.count = IF Dropped(p) THEN source.count ELSE Cardinality(Batch(p))
    BY <1>1, <1>7, <2>1 DEF SourceTyped
  <2>4. Batch(p) \subseteq Postings
    BY <1>9, BatchTyped DEF DiscoveryTypes, Ingest
  <2>5. Cardinality(Batch(p)) <= Cardinality(Postings)
    BY <1>1, <2>4, FS_Subset
  <2> QED
    BY <1>1, <2>2, <2>3, <2>5 DEF SourceBounded
<1>10. \/ source' = source \/ SaveSource \/ Schedule
       \/ \E p \in Pollers : ClaimSource(p) \/ DeferScan(p)
       \/ \E p \in Pollers : FailSource(p)
       \/ \E p \in Pollers : IngestUnmodified(p)
       \/ \E p \in Pollers : Ingest(p)
  BY DEF DiscoveryNext, discoveryVars, FeedChanges, Halt, MinutePasses, PollStep, LoadScan,
     UseCached, Yield, FetchPage, NotModified, FetchFails, SaveScanRead, Drift, GiveUp, PollerStops
<1> QED
  BY <1>2, <1>3, <1>4, <1>5, <1>6, <1>8, <1>9, <1>10

LEMMA DiscoveryTypesHold ==
  /\ DiscoveryInit => DiscoveryTypes
  /\ DiscoveryTypes /\ [DiscoveryNext]_discoveryVars => DiscoveryTypes'
  /\ DiscoveryTypes => DiscoveryTypeOK
<1>1. ASSUME DiscoveryInit PROVE DiscoveryTypes
  <2>1. Cardinality(Postings) \in Nat
    BY DiscoveryAssumption, FS_CardinalityType
  <2>2. SourceBounded
    BY <1>1, <2>1, DiscoveryAssumption DEF DiscoveryInit, SourceBounded
  <2> QED
    <3>1. DiscoveryInv
      BY <1>1, DiscoveryInitially
    <3>2. minute = 0 /\ feed \in Feeds /\ halted = FALSE /\ scan.reads = << >>
      BY <1>1 DEF DiscoveryInit, NoScan
    <3> QED
      <4>1. minute \in 0 .. MaxMinute
        BY <3>2, DiscoveryAssumption
      <4> QED
        BY <2>2, <3>1, <3>2, <4>1 DEF DiscoveryTypes
<1>2. ASSUME DiscoveryTypes, [DiscoveryNext]_discoveryVars PROVE DiscoveryTypes'
  <2>1. DiscoveryInv' /\ SourceBounded'
    BY <1>2, DiscoveryStep, SourceStaysBounded DEF DiscoveryTypes
  <2>2. minute' \in 0 .. MaxMinute
    <3>1. minute' = minute \/ (minute < MaxMinute /\ minute' = minute + 1)
      BY <1>2 DEF DiscoveryNext, discoveryVars, FeedChanges, Halt, SaveSource, Schedule, MinutePasses,
         PollStep, ClaimSource, LoadScan, UseCached, Yield, FetchPage, NotModified, FetchFails,
         SaveScanRead, Drift, DeferScan, FailSource, GiveUp, PollerStops, IngestUnmodified, Ingest
    <3>2. minute \in 0 .. MaxMinute /\ MaxMinute \in Nat
      BY <1>2, DiscoveryAssumption DEF DiscoveryTypes
    <3> QED
      BY <3>1, <3>2
  <2>3. feed' \in Feeds /\ halted' \in BOOLEAN
    <3>1. (feed' = feed \/ feed' \in Feeds) /\ halted' \in {halted, ~halted}
      BY <1>2 DEF DiscoveryNext, discoveryVars, FeedChanges, Halt, SaveSource, Schedule, MinutePasses,
         PollStep, ClaimSource, LoadScan, UseCached, Yield, FetchPage, NotModified, FetchFails,
         SaveScanRead, Drift, DeferScan, FailSource, GiveUp, PollerStops, IngestUnmodified, Ingest
    <3> QED
      BY <1>2, <3>1 DEF DiscoveryTypes
  <2>4. ~scan'.present => scan'.reads = << >>
    <3>1. scan \in ScanRow /\ scan' \in ScanRow
      BY <1>2, <2>1 DEF DiscoveryTypes, DiscoveryInv, DiscoveryTyped
    <3>2. \/ scan' = scan \/ scan' = NoScan
          \/ \E p \in Pollers : LoadScan(p)
          \/ \E p \in Pollers : SaveScanRead(p)
      BY <1>2 DEF DiscoveryNext, discoveryVars, FeedChanges, Halt, SaveSource, Schedule, MinutePasses,
         PollStep, ClaimSource, UseCached, Yield, FetchPage, NotModified, FetchFails,
         Drift, DeferScan, FailSource, GiveUp, PollerStops, IngestUnmodified, Ingest
    <3>3. ASSUME NEW p \in Pollers, LoadScan(p) PROVE scan'.present \/ scan' = scan
      BY <3>3 DEF LoadScan, NoScan
    <3>4. ASSUME NEW p \in Pollers, SaveScanRead(p) PROVE scan'.present
      BY <3>1, <3>4 DEF SaveScanRead, ScanRow
    <3>5. NoScan.reads = << >>
      BY DEF NoScan
    <3> QED
      BY <1>2, <3>2, <3>3, <3>4, <3>5 DEF DiscoveryTypes
  <2> QED
    BY <2>1, <2>2, <2>3, <2>4 DEF DiscoveryTypes
<1>3. ASSUME DiscoveryTypes PROVE DiscoveryTypeOK
  <2>1. /\ DiscoveryTyped /\ SourceTyped /\ SourceBounded /\ scan \in ScanRow
        /\ Cardinality(Postings) \in Nat
    BY <1>3, DiscoveryAssumption, FS_CardinalityType DEF DiscoveryTypes, DiscoveryInv, DiscoveryTyped
  <2>2. source.count \in 0 .. Cardinality(Postings)
    BY <2>1 DEF SourceTyped, SourceBounded
  <2>3. \A x \in Postings : listings[x].state \in {"none", "open", "missing", "closed"}
    BY <2>1 DEF DiscoveryTyped
  <2> QED
    BY <1>3, <2>1, <2>2, <2>3 DEF DiscoveryTypes, DiscoveryTypeOK, SourceTyped, SourceBounded, ScanRow
<1> QED
  BY <1>1, <1>2, <1>3

\* Experiments: packets are numbered as they are saved, and those that generations
\* and assignments name have been.
PacketsNamed ==
  /\ \A g \in GenerationIds : generations[g].packet \in {0} \cup DOMAIN packets
  /\ \A a \in Enrollable : assigned[a].packet \in {0} \cup DOMAIN packets

ExperimentsTypes ==
  /\ TrialInv /\ trialActive \in BOOLEAN /\ merged \in BOOLEAN
  /\ \E n \in Nat : DOMAIN packets = 1 .. n
  /\ PacketsNamed

LEMMA SavedPackets ==
  ASSUME ExperimentsTypes, [ExperimentsNext]_experimentVars
  PROVE  /\ \E n \in Nat : DOMAIN packets' = 1 .. n
         /\ DOMAIN packets \subseteq DOMAIN packets'
<1>1. PICK n \in Nat : DOMAIN packets = 1 .. n
  BY DEF ExperimentsTypes
<1>2. Cardinality(DOMAIN packets) = n
  BY <1>1, FS_Interval
<1>3. \/ DOMAIN packets' = DOMAIN packets
      \/ DOMAIN packets' = 1 .. Cardinality(DOMAIN packets) + 1
  BY DEF ExperimentsNext, experimentVars, DraftStep, CreateGeneration, PrepareManually,
     GenerateByHand, SavedBy, InspectForm, BeginAction, DispatchAction, Assign, LeaseDraft, BeginDraft, ReplayDraft, DraftFails,
     FailGeneration, Publish, QueueInspection, DrafterDies, DraftTaskLost, StopTrial,
     SourcesChange, MergeOrSplit, PacketsWithout
<1> QED
  BY <1>1, <1>2, <1>3

\* What a step leaves of the packets that are named.
NamesKept ==
  /\ \A g \in GenerationIds' :
       \/ g \in GenerationIds /\ generations'[g].packet = generations[g].packet
       \/ generations'[g].packet \in {0} \cup DOMAIN packets'
  /\ \A a \in Enrollable :
       \/ assigned'[a].packet = assigned[a].packet
       \/ assigned'[a].packet \in {0} \cup DOMAIN packets'

LEMMA NamesAreKept ==
  ASSUME ExperimentsTypes, [ExperimentsNext]_experimentVars
  PROVE  NamesKept
<1>1. PICK n \in Nat : generations \in [1 .. n -> Generation]
  BY DEF ExperimentsTypes, TrialInv, TrialTyped, GenerationsTyped
<1>2. /\ GenerationIds = 1 .. n
      /\ \A g \in GenerationIds : generations[g] \in Generation
      /\ Cardinality(GenerationIds) = n
  BY <1>1, FS_Interval DEF GenerationIds
<1>3. PICK m \in Nat : DOMAIN packets = 1 .. m
  BY DEF ExperimentsTypes
<1>4. Cardinality(DOMAIN packets) = m
  BY <1>3, FS_Interval
<1>5. assigned \in [Enrollable -> [packet : Nat, job : Nat]]
      /\ appl \in [Enrollable -> [state : {"ELIGIBLE", "PREPARED", "READY", "INTENT_RECORDED",
                                    "IN_FLIGHT"}, inspection : Nat, submit : Nat]]
  BY DEF ExperimentsTypes, TrialInv, TrialTyped, AssignedTyped, ApplicationsTyped
<1>6. ASSUME NEW a \in Enrollable
      PROVE  \A g \in GenerationIds : Outdated(generations, a)[g].packet = generations[g].packet
  BY <1>2 DEF Outdated, GenerationIds, Generation
<1>7. ASSUME NEW a \in Enrollable, CreateGeneration(a)
      PROVE  NamesKept
  <2> DEFINE retired == [g \in GenerationIds |->
               IF generations[g].app = a /\ generations[g].state = "prepared"
                    /\ ~Valid(generations[g].packet)
               THEN [generations[g] EXCEPT !.state = "failed"] ELSE generations[g]]
             row == [app |-> a, job |-> CanonicalJob(a), state |-> "queued", packet |-> 0,
                     fresh |-> TRUE, current |-> TRUE, task |-> "ready", fence |-> 0,
                     tries |-> 0, draft |-> 0]
  <2>1. /\ generations' = [g \in 1 .. n + 1 |-> IF g < n + 1 THEN retired[g] ELSE row]
        /\ assigned' = assigned
    BY <1>2, <1>7 DEF CreateGeneration
  <2>2. \A g \in GenerationIds : retired[g].packet = generations[g].packet
    BY <1>2 DEF Generation
  <2>3. row.packet = 0
    OBVIOUS
  <2> HIDE DEF retired, row
  <2>4. ASSUME NEW g \in GenerationIds'
        PROVE  \/ g \in GenerationIds /\ generations'[g].packet = generations[g].packet
               \/ generations'[g].packet = 0
    <3>1. g \in 1 .. n + 1
      BY <2>1 DEF GenerationIds
    <3>2. CASE g < n + 1
      BY <1>2, <2>1, <2>2, <3>1, <3>2
    <3>3. CASE ~(g < n + 1)
      BY <2>1, <2>3, <3>1, <3>3
    <3> QED
      BY <3>2, <3>3
  <2> QED
    BY <2>1, <2>4 DEF NamesKept
<1>8. ASSUME NEW a \in Enrollable,
             \/ PrepareManually(a) \/ GenerateByHand(a)
             \/ InspectForm(a) \/ BeginAction(a) \/ DispatchAction(a)
      PROVE  NamesKept
  <2>1. assigned' = assigned /\ generations' \in {generations, Outdated(generations, a)}
    BY <1>8 DEF PrepareManually, GenerateByHand, InspectForm, BeginAction, DispatchAction
  <2>2. GenerationIds' = GenerationIds
    BY <2>1 DEF Outdated, GenerationIds
  <2> QED
    BY <1>6, <2>1, <2>2 DEF NamesKept
<1>9. ASSUME NEW a \in Enrollable, NEW p \in DOMAIN packets, Assign(a, p)
      PROVE  NamesKept
  <2>1. /\ packets' = packets
        /\ assigned' = [assigned EXCEPT ![a] = [packet |-> p, job |-> CanonicalJob(a)]]
    BY <1>9 DEF Assign
  <2>2. \A b \in Enrollable : assigned'[b].packet \in {assigned[b].packet, p}
    BY <1>5, <2>1
  <2>3. \/ generations' = generations
        \/ \E g \in GenerationIds :
             generations' = [Outdated(generations, a) EXCEPT ![g].state = "assigned"]
    BY <1>9 DEF Assign
  <2>4. /\ GenerationIds' = GenerationIds
        /\ \A g \in GenerationIds : generations'[g].packet = generations[g].packet
    <3>1. CASE generations' = generations
      BY <3>1 DEF GenerationIds
    <3>2. ASSUME NEW g \in GenerationIds,
                 generations' = [Outdated(generations, a) EXCEPT ![g].state = "assigned"]
          PROVE  /\ GenerationIds' = GenerationIds
                 /\ \A h \in GenerationIds :
                      generations'[h].packet = Outdated(generations, a)[h].packet
      BY <1>2, <3>2 DEF Outdated, GenerationIds, Generation
    <3> QED
      BY <1>6, <2>3, <3>1, <3>2
  <2> QED
    BY <2>1, <2>2, <2>4 DEF NamesKept
<1>10. ASSUME NEW w \in Drafters, DraftStep(w)
       PROVE  NamesKept
  <2>1. assigned' = assigned
    BY <1>10 DEF DraftStep, LeaseDraft, BeginDraft, ReplayDraft, DraftFails, FailGeneration,
                 Publish, QueueInspection, DrafterDies
  <2>2. DraftersTyped
    BY DEF ExperimentsTypes, TrialInv, TrialTyped
  <2>3. CASE Publish(w)
    <3> DEFINE g == drafting[w].gen
               a == generations[g].app
               p == Cardinality(DOMAIN packets) + 1
    <3>1. /\ g \in GenerationIds
          /\ generations' =
               [Outdated(generations, a) EXCEPT ![g].state = "prepared", ![g].packet = p]
          /\ DOMAIN packets' = 1 .. p
      BY <2>2, <2>3 DEF Publish, HoldsDraft, DraftersTyped
    <3>2. a \in Enrollable /\ p \in DOMAIN packets'
      BY <1>2, <1>4, <3>1 DEF Generation
    <3> HIDE DEF a, p
    <3>3. /\ GenerationIds' = GenerationIds
          /\ \A h \in GenerationIds :
               generations'[h].packet \in {Outdated(generations, a)[h].packet, p}
      BY <1>2, <3>1 DEF Outdated, GenerationIds, Generation
    <3> QED
      BY <1>6, <2>1, <3>2, <3>3 DEF NamesKept
  <2>4. CASE ~Publish(w)
    <3>1. \/ generations' = generations
          \/ \E g \in GenerationIds : \E state : generations' = Ended(g, state)
          \/ \E g \in GenerationIds :
               generations' = [generations EXCEPT ![g].task = "leased", ![g].fence = @ + 1,
                                                  ![g].tries = @ + 1]
          \/ \E g \in GenerationIds :
               generations' = [generations EXCEPT ![g].state = "drafting",
                                                  ![g].draft = drafting[w].fence]
      <4>1. drafting[w].gen \in GenerationIds \cup {0}
        BY <2>2 DEF DraftersTyped
      <4>2. CASE \E g \in GenerationIds : LeaseDraft(w, g)
        BY <4>2 DEF LeaseDraft
      <4>3. CASE BeginDraft(w)
        BY <4>1, <4>3 DEF BeginDraft, Begins
      <4>4. CASE ReplayDraft(w)
        BY <4>1, <4>4 DEF ReplayDraft, Begins
      <4>5. CASE DraftFails(w) \/ QueueInspection(w)
        BY <4>1, <4>5 DEF DraftFails, FailGeneration, QueueInspection, HoldsDraft
      <4>6. CASE DrafterDies(w)
        BY <4>6 DEF DrafterDies
      <4> QED
        BY <1>10, <2>4, <4>2, <4>3, <4>4, <4>5, <4>6 DEF DraftStep
    <3>2. /\ GenerationIds' = GenerationIds
          /\ \A g \in GenerationIds : generations'[g].packet = generations[g].packet
      <4>1. ASSUME NEW g \in GenerationIds, NEW state, generations' = Ended(g, state)
            PROVE  /\ GenerationIds' = GenerationIds
                   /\ \A h \in GenerationIds : generations'[h].packet = generations[h].packet
        BY <1>2, <4>1 DEF Ended, GenerationIds, Generation
      <4>2. CASE generations' = generations
        BY <4>2 DEF GenerationIds
      <4>3. ASSUME NEW g \in GenerationIds,
                   generations' = [generations EXCEPT ![g].task = "leased",
                                                      ![g].fence = @ + 1, ![g].tries = @ + 1]
            PROVE  /\ GenerationIds' = GenerationIds
                   /\ \A h \in GenerationIds : generations'[h].packet = generations[h].packet
        BY <1>2, <4>3 DEF GenerationIds, Generation
      <4>4. ASSUME NEW g \in GenerationIds,
                   generations' = [generations EXCEPT ![g].state = "drafting",
                                                      ![g].draft = drafting[w].fence]
            PROVE  /\ GenerationIds' = GenerationIds
                   /\ \A h \in GenerationIds : generations'[h].packet = generations[h].packet
        BY <1>2, <4>4 DEF GenerationIds, Generation
      <4> QED
        BY <3>1, <4>1, <4>2, <4>3, <4>4
    <3> QED
      BY <2>1, <3>2 DEF NamesKept
  <2> QED
    BY <2>3, <2>4
<1>11. ASSUME NEW g \in GenerationIds, DraftTaskLost(g)
       PROVE  NamesKept
  <2>1. /\ GenerationIds' = GenerationIds /\ assigned' = assigned
        /\ \A h \in GenerationIds : generations'[h].packet = generations[h].packet
    BY <1>2, <1>11 DEF DraftTaskLost, GenerationIds, Generation
  <2> QED
    BY <2>1 DEF NamesKept
<1>12. ASSUME StopTrial \/ SourcesChange \/ MergeOrSplit \/ UNCHANGED experimentVars
       PROVE  NamesKept
  <2>1. /\ GenerationIds' = GenerationIds /\ assigned' = assigned
        /\ \A h \in GenerationIds : generations'[h].packet = generations[h].packet
    BY <1>2, <1>12 DEF StopTrial, SourcesChange, MergeOrSplit, experimentVars, GenerationIds,
                       Generation
  <2> QED
    BY <2>1 DEF NamesKept
<1> QED
  BY <1>7, <1>8, <1>9, <1>10, <1>11, <1>12 DEF ExperimentsNext

LEMMA ExperimentsTyped ==
  /\ ExperimentsInit => ExperimentsTypes
  /\ ExperimentsTypes /\ [ExperimentsNext]_experimentVars => ExperimentsTypes'
  /\ ExperimentsTypes => ExperimentsTypeOK
<1>1. ASSUME ExperimentsInit PROVE ExperimentsTypes
  <2>1. TrialInv
    BY <1>1, TrialInitially
  <2>2. /\ trialActive \in BOOLEAN /\ merged \in BOOLEAN
        /\ packets = << >> /\ generations = << >>
    BY <1>1 DEF ExperimentsInit
  <2>4. DOMAIN packets = 1 .. 0 /\ GenerationIds = {}
    BY <2>2 DEF GenerationIds
  <2>3. \A a \in Enrollable : assigned[a].packet = 0
    BY <1>1 DEF ExperimentsInit, Unassigned
  <2> QED
    BY <2>1, <2>2, <2>3, <2>4 DEF ExperimentsTypes, PacketsNamed
<1>2. ASSUME ExperimentsTypes, [ExperimentsNext]_experimentVars
      PROVE  ExperimentsTypes'
  <2>1. TrialInv'
    BY <1>2, TrialStep DEF ExperimentsTypes
  <2>2. trialActive' \in BOOLEAN /\ merged' \in BOOLEAN
    BY <1>2 DEF ExperimentsTypes, ExperimentsNext, experimentVars, DraftStep, CreateGeneration,
       PrepareManually, GenerateByHand, InspectForm, BeginAction, DispatchAction, Assign,
       LeaseDraft, BeginDraft,
       ReplayDraft, DraftFails, FailGeneration, Publish, QueueInspection, DrafterDies,
       DraftTaskLost, StopTrial, SourcesChange, MergeOrSplit
  <2>3. (\E n \in Nat : DOMAIN packets' = 1 .. n) /\ DOMAIN packets \subseteq DOMAIN packets'
    BY <1>2, SavedPackets
  <2>4. NamesKept
    BY <1>2, NamesAreKept
  <2>5. PacketsNamed'
    BY <1>2, <2>3, <2>4 DEF ExperimentsTypes, PacketsNamed, NamesKept
  <2> QED
    BY <2>1, <2>2, <2>3, <2>5 DEF ExperimentsTypes
<1>3. ASSUME ExperimentsTypes PROVE ExperimentsTypeOK
  <2>1. PICK n \in Nat : DOMAIN packets = 1 .. n
    BY <1>3 DEF ExperimentsTypes
  <2>2. {0} \cup DOMAIN packets = 0 .. Cardinality(DOMAIN packets)
    <3>1. Cardinality(DOMAIN packets) = n
      BY <2>1, FS_Interval
    <3> QED
      BY <2>1, <3>1
  <2>3. \A g \in GenerationIds : generations[g] \in Generation
    BY <1>3 DEF ExperimentsTypes, TrialInv, TrialTyped, GenerationsTyped, GenerationIds
  <2> QED
    BY <1>3, <2>2, <2>3 DEF ExperimentsTypes, PacketsNamed, Generation, ExperimentsTypeOK
<1> QED
  BY <1>1, <1>2, <1>3

\* Forms: no more answers than may be approved, no more passes than are explored.
AnswersFit(answers) == \A q \in Questions : answers[q] \in 0 .. Limits[q]

FormsTypes ==
  FormsInv /\ AnswersFit(approved) /\ AnswersFit(packet) /\ passes \in 0 .. MaxPasses

LEMMA ApprovedFit ==
  ASSUME FormsTypes, [FormsNext]_formVars
  PROVE  /\ AnswersFit(approved)' /\ AnswersFit(packet)' /\ passes' \in 0 .. MaxPasses
<1>1. approved \in Answers /\ passes \in 0 .. MaxPasses /\ MaxPasses \in Nat
  BY FormsAssumption DEF FormsTypes, FormsInv, PortalTyped
<1>2. ASSUME NEW q \in Asked, NEW answer \in 0 .. Limits[q], Approve(q, answer)
      PROVE  /\ AnswersFit(approved') /\ packet' = packet /\ passes' = passes
  <2>1. /\ approved' = [approved EXCEPT ![q] = answer] /\ q \in Questions
        /\ packet' = packet /\ passes' = passes
    BY <1>2 DEF Approve, Asked
  <2>2. \A r \in Questions : approved'[r] = IF r = q THEN answer ELSE approved[r]
    BY <1>1, <2>1 DEF Answers
  <2> QED
    BY <2>1, <2>2 DEF FormsTypes, AnswersFit
<1>3. ASSUME ~\E q \in Asked : \E answer \in 0 .. Limits[q] : Approve(q, answer)
      PROVE  /\ approved' = approved /\ packet' \in {packet, approved}
             /\ passes' = passes \/ (passes < MaxPasses /\ passes' = passes + 1)
  <2>1. ASSUME NEW k \in FieldKeys,
               \/ Overwrite(k) \/ FillMock(k) \/ FillGreenhouse(k) \/ FillHosted(k)
               \/ ReadControl(k)
        PROVE  approved' = approved /\ packet' = packet /\ passes' = passes
    BY <2>1 DEF Overwrite, FillMock, FillGreenhouse, FillHosted, ReadControl
  <2>2. ASSUME NEW own \in BOOLEAN, PageWrites(own)
        PROVE  approved' = approved /\ packet' = packet /\ passes' = passes
    BY <2>2 DEF PageWrites
  <2>3. ASSUME \/ Revoke \/ Draft \/ Reform \/ StartPrepare \/ StartCommit
        PROVE  /\ approved' = approved /\ packet' \in {packet, approved}
               /\ passes' = passes \/ (passes < MaxPasses /\ passes' = passes + 1)
    BY <2>3 DEF Revoke, Draft, Reform, StartPrepare, StartCommit
  <2>4. ASSUME \/ InspectToPrepare \/ Report \/ ImplicitSubmit \/ ReadMock
               \/ ReinspectGreenhouse \/ FinishGreenhouse \/ ReadHosted \/ InspectToCommit \/ Authorize \/ Click \/ ClickBlocked \/ Breaks
               \/ UNCHANGED formVars
        PROVE  approved' = approved /\ packet' = packet /\ passes' = passes
    BY <2>4 DEF InspectToPrepare, Report, ImplicitSubmit, ReadMock, ReinspectGreenhouse,
                FinishGreenhouse, ReadHosted, InspectToCommit, Authorize, Click, ClickBlocked, Breaks, formVars
  <2> QED
    BY <1>3, <2>1, <2>2, <2>3, <2>4 DEF FormsNext
<1> QED
  BY <1>1, <1>2, <1>3 DEF FormsTypes, AnswersFit

LEMMA FormsTyped ==
  /\ FormsInit => FormsTypes
  /\ FormsTypes /\ [FormsNext]_formVars => FormsTypes'
  /\ FormsTypes => FormsTypeOK
<1>1. ASSUME FormsInit PROVE FormsTypes
  <2>1. FormsInv
    BY <1>1, FormsInitially
  <2>2. /\ approved = [q \in Questions |-> 0] /\ packet = approved /\ passes = 0
        /\ \A q \in Questions : Limits[q] \in Nat
        /\ MaxPasses \in Nat
    BY <1>1, FormsAssumption DEF FormsInit
  <2> QED
    BY <2>1, <2>2 DEF FormsTypes, AnswersFit
<1>2. ASSUME FormsTypes, [FormsNext]_formVars
      PROVE  FormsTypes'
  <2>1. FormsInv'
    BY <1>2, FormsStep, FormsStands DEF FormsTypes
  <2> QED
    BY <1>2, <2>1, ApprovedFit DEF FormsTypes
<1>3. ASSUME FormsTypes PROVE FormsTypeOK
  <2>1. PortalTyped /\ PassTyped /\ SentTyped /\ PassShape
    BY <1>3 DEF FormsTypes, FormsInv
  <2>2. /\ pass.kind \in {"idle", "prepare", "commit"}
        /\ pass.at \in {"open", "fill", "read", "done", "permit", "click"}
        /\ pass.late \subseteq FieldKeys
        /\ outcome \in {"none", "unknown", "aborted", "rejected", "confirmed"}
        /\ blocked \in {0, 1}
    BY <2>1 DEF PassTyped, PassType, SentTyped
  <2>3. Len(pass.plans) = Len(pass.snaps) /\ Len(pass.snaps) <= Steps
    BY <2>1 DEF PassShape, Step
  <2>4. \A k \in FieldKeys : page[k] \in {Other, Blank} \cup Nat
    BY <2>1 DEF PassTyped, Shows
  <2>5. blocked \in 0 .. 1
    BY <2>2
  <2> QED
    BY <1>3, <2>1, <2>2, <2>3, <2>4, <2>5 DEF FormsTypes, FormsTypeOK, AnswersFit, PortalTyped
<1> QED
  BY <1>1, <1>2, <1>3

\* What holds of all the components, of which one takes the steps.
ServicesInv ==
  /\ part \in Parts
  /\ HandoffsTypes /\ InferenceTypes /\ GraphsTypes /\ DiscoveryTypes /\ VacancyInv
  /\ MailInv /\ ExperimentsTypes /\ RecoveryTypes /\ FormsTypes /\ CaptureInv

\* A step of the whole is one of the component whose turn it is, and of no other.
LEMMA OneSteps ==
  ASSUME [ServicesNext]_servicesVars
  PROVE  /\ part' = part
         /\ [HandoffNext]_handoffVars /\ [InferenceNext]_inferenceVars
         /\ [GraphNext \/ BatchNext]_graphVars /\ [DiscoveryNext]_discoveryVars
         /\ [IdentitiesNext]_identityVars /\ [MailNext]_mailVars
         /\ [ExperimentsNext]_experimentVars /\ [RecoveryNext]_recoveryVars
         /\ [FormsNext]_formVars /\ [OutcomesNext]_outcomeVars
<1>1. CASE UNCHANGED servicesVars
  BY <1>1 DEF servicesVars
<1>2. CASE ServicesNext
  BY <1>2 DEF ServicesNext, OthersStand
<1> QED
  BY <1>1, <1>2

LEMMA ServicesInitially == ServicesInit => ServicesInv
  BY HandoffsTyped, InferenceTyped, GraphsTyped, DiscoveryTypesHold, VacancyInvInit, MailInvInit,
     ExperimentsTyped, RecoveryTyped, FormsTyped, CaptureInitially DEF ServicesInit, ServicesInv

LEMMA ServicesStep ==
  ASSUME ~DraftsOverlap
  PROVE  ServicesInv /\ [ServicesNext]_servicesVars => ServicesInv'
<1> SUFFICES ASSUME ServicesInv, [ServicesNext]_servicesVars
             PROVE  ServicesInv'
  OBVIOUS
<1>1. part' \in Parts /\ HandoffsTypes' /\ InferenceTypes' /\ GraphsTypes'
  BY OneSteps, HandoffsTyped, InferenceTyped, GraphsTyped DEF ServicesInv
<1>2. DiscoveryTypes' /\ VacancyInv' /\ MailInv' /\ ExperimentsTypes'
  BY OneSteps, DiscoveryTypesHold, VacancyInvNext, MailInvNext, ExperimentsTyped DEF ServicesInv
<1>3. RecoveryTypes' /\ FormsTypes' /\ CaptureInv'
  BY OneSteps, RecoveryTyped, FormsTyped, CaptureStep DEF ServicesInv
<1> QED
  BY <1>1, <1>2, <1>3 DEF ServicesInv

LEMMA ServicesTyped == ServicesInv => ServicesTypeOK
<1> SUFFICES ASSUME ServicesInv
             PROVE  ServicesTypeOK
  OBVIOUS
<1>1. /\ HandoffsTypeOK /\ InferenceTypeOK /\ GraphTypeOK /\ DiscoveryTypeOK /\ IdentitiesTypeOK
      /\ ScanTypeOK /\ ExperimentsTypeOK /\ RecoveryTypeOK /\ FormsTypeOK /\ OutcomesTypeOK
  BY HandoffsTyped, InferenceTyped, GraphsTyped, DiscoveryTypesHold, VacancyTyped, MailboxTyped,
     ExperimentsTyped, RecoveryTyped, FormsTyped, CaptureTyped DEF ServicesInv
<1> QED
  BY <1>1 DEF ServicesInv, Parts, ServicesTypeOK

\* Whichever component takes the steps, its rows, tokens, queues and counters keep
\* their types, and within these the bounds that the code sets on them: no
\* reservation of no caller, no lease without a holder, no checkpoint of no node.
THEOREM ServicesType ==
  ASSUME ~DraftsOverlap
  PROVE  ServicesSpec => []ServicesTypeOK
  BY ServicesInitially, ServicesStep, ServicesTyped, PTL DEF ServicesSpec

\* Side by side with the others, each component keeps what it promises by itself, under
\* what that promise assumes: of the identities, that no draft ends behind what its
\* application was sent with; of the forms, that what a page overwrites after it was read
\* back is posted as it is; of the batches, that a call that failed proves nothing.
THEOREM EachStands ==
  ASSUME ~DraftsOverlap
  PROVE  ServicesSpec =>
           [](/\ SubmittedFormIsCurrent /\ WireWithinQuota /\ WithinDeclaredBudget
              /\ BatchIsolates /\ IngestedIsVerified /\ OnePerVacancy /\ SweptIsObserved
              /\ SentAsAssigned /\ RecoveredIsWhole /\ SentIsPrepared /\ OutcomeIsTrue
              /\ NewestIsCurrent /\ CapturesCorrected)
<1>1. ServicesInv =>
        /\ SubmittedFormIsCurrent /\ WireWithinQuota /\ WithinDeclaredBudget
        /\ BatchIsolates /\ IngestedIsVerified /\ OnePerVacancy /\ SweptIsObserved
        /\ SentAsAssigned /\ RecoveredIsWhole /\ SentIsPrepared /\ OutcomeIsTrue
        /\ NewestIsCurrent /\ CapturesCorrected
  <2> SUFFICES ASSUME ServicesInv
               PROVE  /\ SubmittedFormIsCurrent /\ WireWithinQuota /\ WithinDeclaredBudget
                      /\ BatchIsolates /\ IngestedIsVerified /\ OnePerVacancy
                      /\ SweptIsObserved /\ SentAsAssigned /\ RecoveredIsWhole
                      /\ SentIsPrepared /\ OutcomeIsTrue
                      /\ NewestIsCurrent /\ CapturesCorrected
    OBVIOUS
  <2>1. SubmittedFormIsCurrent
    BY Ids DEF ServicesInv, HandoffsTypes, HandoffInv, DispatchSealed, SubmittedFormIsCurrent
  <2>2. WireWithinQuota
    BY WireIsCounted DEF ServicesInv, InferenceTypes
  <2>3. WithinDeclaredBudget /\ BatchIsolates
    BY InvKeepsBudget, InvIsolates DEF ServicesInv, GraphsTypes, GraphBatchInv
  <2>4. IngestedIsVerified
    BY FreshIsVerified DEF ServicesInv, DiscoveryTypes
  <2>5. OnePerVacancy
    BY VacancyInvOnce DEF ServicesInv
  <2>6. SweptIsObserved
    BY DEF ServicesInv, MailInv
  <2>7. SentAsAssigned
    BY DEF ServicesInv, ExperimentsTypes, TrialInv
  <2>8. RecoveredIsWhole
    BY RecoveryHolds DEF ServicesInv, RecoveryTypes
  <2>9. SentIsPrepared /\ OutcomeIsTrue
    BY DEF ServicesInv, FormsTypes, FormsInv
  <2>10. NewestIsCurrent
    BY DEF ServicesInv, CaptureInv, OutcomesInv
  <2>11. CapturesCorrected
    BY DEF ServicesInv, CaptureInv, Frozen, CapturesCorrected
  <2> QED
    BY <2>1, <2>2, <2>3, <2>4, <2>5, <2>6, <2>7, <2>8, <2>9, <2>10, <2>11
<1> QED
  BY <1>1, ServicesInitially, ServicesStep, PTL DEF ServicesSpec

\* So do their steps: no step of the whole empties a source that nobody reviewed or
\* rewrites the report of a past day.
THEOREM EachMoves ==
  ASSUME ~DraftsOverlap
  PROVE  ServicesSpec => EmptyIsReviewed /\ ReportStands
<1>1. ServicesInv /\ [ServicesNext]_servicesVars
      => [(\E x \in Postings : listings[x].state = "open")
          /\ (\A x \in Postings : listings'[x].state # "open")
            => source.reviewed]_discoveryVars
  BY OneSteps, EmptiedIsReviewed DEF ServicesInv, DiscoveryTypes
<1>2. ServicesInv /\ [ServicesNext]_servicesVars
      => [\A t \in 0 .. MaxDate : t < date => Label(history', t) = Label(history, t)]_outcomeVars
  BY OneSteps, PastStands DEF ServicesInv, CaptureInv
<1> QED
  BY <1>1, <1>2, ServicesInitially, ServicesStep, PTL
     DEF ServicesSpec, EmptyIsReviewed, ReportStands
=============================================================================
