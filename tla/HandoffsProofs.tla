--------------------------- MODULE HandoffsProofs ----------------------------
(***************************************************************************)
(* Proof about Handoffs, for any lifetimes, any number of sessions, forms, *)
(* browsers and requests: what is submitted was inspected after the last   *)
(* time the owner was let into its form.                                   *)
(***************************************************************************)
EXTENDS Handoffs, FiniteSetTheorems, WellFoundedInduction, TLAPS

-----------------------------------------------------------------------------
(* The invariant                                                            *)

States == Active \cup {"completed", "cancelled", "expired"}
SessionRows == [state : States, generation : Nat, leaseUntil : Nat, expires : Nat,
                completedAt : Nat, form : Nat, continuation : Nat]
FormRows == [status : {"ready", "challenge", "needs_input"}, created : Nat, expires : Nat,
             resolved : BOOLEAN, handoff : Nat]

HandoffTypes ==
  /\ clock \in Nat
  /\ \E n \in Nat : sessions \in [1 .. n -> SessionRows]
  /\ \E n \in Nat : forms \in [1 .. n -> FormRows]
  /\ inspections \subseteq Nat /\ inspecting \in Nat \cup {Idle}
  /\ calls \subseteq [does : {"open", "complete"}, id : Nat, generation : Nat, until : Nat]
  /\ browsers \subseteq [id : Nat, generation : Nat, deadline : Nat,
                         cleared : BOOLEAN, blocked : BOOLEAN]
  /\ attempt \in [form : Nat, handoff : Nat, sent : BOOLEAN]

\* Only the newest session can be active, and older ones ended before a newer one
\* did or does: the newest that is over, which is the one begin looks at, speaks
\* for all.
Ordered ==
  \A s \in DOMAIN sessions :
    /\ sessions[s].completedAt <= clock
    /\ \A r \in DOMAIN sessions : s < r =>
         /\ sessions[s].state \notin Active
         /\ sessions[s].completedAt <= sessions[r].expires
         /\ sessions[r].completedAt # 0 => sessions[s].completedAt <= sessions[r].completedAt

\* While a submission is under way its form is newer than what the owner did,
\* and the owner cannot do any more.
DispatchSealed ==
  attempt # NoAttempt =>
    /\ stage = "IN_FLIGHT" /\ attempt.form \in DOMAIN forms
    /\ \A s \in DOMAIN sessions :
         /\ sessions[s].completedAt < forms[attempt.form].created
         /\ sessions[s].state \in Active => sessions[s].expires <= clock

HandoffInv ==
  /\ HandoffTypes /\ Ordered /\ DispatchSealed
  /\ stage = "READY" => DOMAIN forms # {}

LEMMA Counts ==
  ASSUME NEW n \in Nat, NEW S, NEW f \in [1 .. n -> S]
  PROVE  Cardinality(DOMAIN f) = n
<1>1. Cardinality(1 .. n) = n
  BY FS_Interval
<1> QED
  BY <1>1

LEMMA Ids ==
  ASSUME HandoffTypes
  PROVE  /\ \E n \in Nat : SessionIds = 1 .. n /\ Cardinality(SessionIds) = n
                           /\ sessions \in [SessionIds -> SessionRows]
         /\ Latest \in Nat /\ forms \in [1 .. Latest -> FormRows]
         /\ DOMAIN sessions = SessionIds
<1>1. PICK n \in Nat : sessions \in [1 .. n -> SessionRows]
  BY DEF HandoffTypes
<1>2. PICK m \in Nat : forms \in [1 .. m -> FormRows]
  BY DEF HandoffTypes
<1>3. Cardinality(DOMAIN sessions) = n /\ Cardinality(DOMAIN forms) = m
  BY <1>1, <1>2, Counts
<1>4. Cardinality(1 .. n) = n
  BY FS_Interval
<1> QED
  BY <1>1, <1>2, <1>3, <1>4 DEF SessionIds, Latest

LEMMA HandoffStart == ASSUME HandoffInit PROVE HandoffInv
<1>1. sessions \in [1 .. 0 -> SessionRows] /\ forms \in [1 .. 0 -> FormRows]
  BY DEF HandoffInit
<1>2. DOMAIN sessions = {}
  BY DEF HandoffInit
<1> QED
  BY <1>1, <1>2 DEF HandoffInit, HandoffInv, HandoffTypes, Ordered, DispatchSealed, NoAttempt, Idle

\* A step that opens no session and begins no submission: sessions end now or
\* stay, none becomes active, and while a submission is under way its form and
\* the sessions' ends stay.
LEMMA Later ==
  ASSUME HandoffInv, HandoffTypes', attempt' = [attempt EXCEPT !.sent = attempt'.sent],
         attempt = NoAttempt => attempt' = NoAttempt, clock <= clock',
         DOMAIN sessions' = DOMAIN sessions,
         \A s \in DOMAIN sessions :
           /\ sessions'[s].expires = sessions[s].expires
           /\ sessions'[s].state \in Active => sessions[s].state \in Active
           /\ \/ sessions'[s].completedAt = sessions[s].completedAt
              \/ /\ attempt = NoAttempt /\ sessions[s].state \in Active
                 /\ sessions'[s].completedAt = clock,
         attempt # NoAttempt =>
           /\ stage' = stage /\ DOMAIN forms \subseteq DOMAIN forms'
           /\ \A p \in DOMAIN forms : forms'[p].created = forms[p].created,
         stage' = "READY" => DOMAIN forms' # {}
  PROVE  HandoffInv'
<1>1. PICK n \in Nat : sessions \in [1 .. n -> SessionRows]
  BY DEF HandoffInv, HandoffTypes
<1>2. clock \in Nat /\ clock' \in Nat
  BY DEF HandoffInv, HandoffTypes
<1>3. \A s \in 1 .. n : sessions[s].completedAt \in Nat /\ sessions[s].expires \in Nat
  BY <1>1 DEF SessionRows
<1>4. DOMAIN sessions = 1 .. n
  BY <1>1
<1>5. Ordered'
  <2> SUFFICES ASSUME NEW s \in 1 .. n
               PROVE  /\ sessions'[s].completedAt <= clock'
                      /\ \A r \in 1 .. n : s < r =>
                           /\ sessions'[s].state \notin Active
                           /\ sessions'[s].completedAt <= sessions'[r].expires
                           /\ sessions'[r].completedAt # 0 =>
                                sessions'[s].completedAt <= sessions'[r].completedAt
    BY <1>4 DEF Ordered
  <2>1. sessions[s].completedAt <= clock
    BY <1>4 DEF HandoffInv, Ordered
  <2>2. sessions'[s].completedAt <= clock'
    BY <1>2, <1>3, <1>4, <2>1
  <2>3. ASSUME NEW r \in 1 .. n, s < r
        PROVE  /\ sessions'[s].state \notin Active
               /\ sessions'[s].completedAt <= sessions'[r].expires
               /\ sessions'[r].completedAt # 0 =>
                    sessions'[s].completedAt <= sessions'[r].completedAt
    <3>1. /\ sessions[s].state \notin Active
          /\ sessions[s].completedAt <= sessions[r].expires
          /\ sessions[r].completedAt # 0 => sessions[s].completedAt <= sessions[r].completedAt
      BY <1>4, <2>3 DEF HandoffInv, Ordered
    <3>2. sessions'[s].state \notin Active /\ sessions'[s].completedAt = sessions[s].completedAt
      BY <1>4, <3>1
    <3>3. sessions'[r].expires = sessions[r].expires
          /\ (sessions'[r].completedAt = sessions[r].completedAt \/ sessions'[r].completedAt = clock)
      BY <1>4
    <3> QED
      BY <2>1, <3>1, <3>2, <3>3
  <2> QED
    BY <2>2, <2>3
<1>6. DispatchSealed'
  <2> SUFFICES ASSUME attempt' # NoAttempt PROVE DispatchSealed'
    BY DEF DispatchSealed
  <2>1. attempt # NoAttempt /\ attempt'.form = attempt.form
    BY DEF HandoffInv, HandoffTypes
  <2>2. stage' = "IN_FLIGHT" /\ attempt'.form \in DOMAIN forms'
        /\ forms'[attempt'.form].created = forms[attempt.form].created
    BY <2>1 DEF HandoffInv, DispatchSealed
  <2>3. ASSUME NEW s \in DOMAIN sessions'
        PROVE  /\ sessions'[s].completedAt < forms'[attempt'.form].created
               /\ sessions'[s].state \in Active => sessions'[s].expires <= clock'
    <3>1. /\ sessions[s].completedAt < forms[attempt.form].created
          /\ sessions[s].state \in Active => sessions[s].expires <= clock
      BY <2>1, <2>3 DEF HandoffInv, DispatchSealed
    <3>2. /\ sessions'[s].completedAt = sessions[s].completedAt
          /\ sessions'[s].expires = sessions[s].expires
          /\ sessions'[s].state \in Active => sessions[s].state \in Active
      BY <2>1, <2>3
    <3> QED
      BY <1>2, <1>3, <1>4, <2>2, <2>3, <3>1, <3>2
  <2> QED
    BY <2>2, <2>3 DEF DispatchSealed
<1> QED
  BY <1>5, <1>6 DEF HandoffInv

\* A step in memory only.
LEMMA Quiet ==
  ASSUME HandoffInv, HandoffTypes', UNCHANGED <<stage, forms, sessions, attempt>>,
         clock <= clock'
  PROVE  HandoffInv'
<1>1. attempt' = [attempt EXCEPT !.sent = attempt'.sent]
  BY DEF HandoffInv, HandoffTypes
<1>2. stage' = "READY" => DOMAIN forms' # {}
  BY DEF HandoffInv
<1> QED
  BY <1>1, <1>2, Later

-----------------------------------------------------------------------------
(* The steps                                                                *)

LEMMA TimeIsNat == ASSUME HandoffTypes PROVE clock \in Nat /\ clock <= clock
BY DEF HandoffTypes

LEMMA Memory ==
  ASSUME HandoffInv,
         \/ \E call \in calls : OpenBrowser(call)
         \/ \E b \in browsers :
              Verify(b) \/ CloseExpired(b) \/ \E r \in Requests : HumanRequest(b, r)
         \/ ApiStops \/ DropInspecting
         \/ \E s \in inspections : StartInspection(s) \/ BuryInspection(s)
  PROVE  HandoffInv'
<1> USE DEF HandoffInv
<1>1. HandoffTypes
  OBVIOUS
<1>2. ASSUME UNCHANGED <<clock, stage, forms, sessions, attempt>>,
             inspections' \subseteq Nat, inspecting' \in Nat \cup {Idle},
             calls' \subseteq [does : {"open", "complete"}, id : Nat, generation : Nat, until : Nat],
             browsers' \subseteq [id : Nat, generation : Nat, deadline : Nat,
                                  cleared : BOOLEAN, blocked : BOOLEAN]
      PROVE  HandoffInv'
  <2>1. HandoffTypes'
    BY <1>2 DEF HandoffTypes
  <2> HIDE DEF HandoffInv
  <2> QED
    BY <1>1, <1>2, <2>1, Quiet, TimeIsNat
<1> HIDE DEF HandoffInv
<1>3. ASSUME NEW call \in calls, OpenBrowser(call) PROVE HandoffInv'
  <2>1. call.id \in Nat /\ call.generation \in Nat /\ call.until \in Nat
    BY <1>1 DEF HandoffTypes
  <2>2. browsers' \subseteq [id : Nat, generation : Nat, deadline : Nat,
                             cleared : BOOLEAN, blocked : BOOLEAN]
    <3> DEFINE b == [id |-> call.id, generation |-> call.generation, deadline |-> call.until,
                     cleared |-> FALSE, blocked |-> FALSE]
    <3>1. b \in [id : Nat, generation : Nat, deadline : Nat, cleared : BOOLEAN, blocked : BOOLEAN]
      BY <2>1
    <3>2. browsers' = browsers \cup {b}
      BY <1>3 DEF OpenBrowser
    <3>3. browsers \subseteq [id : Nat, generation : Nat, deadline : Nat,
                              cleared : BOOLEAN, blocked : BOOLEAN]
      BY <1>1 DEF HandoffTypes
    <3> HIDE DEF b
    <3> QED
      BY <3>1, <3>2, <3>3
  <2>3. UNCHANGED <<clock, stage, forms, sessions, attempt, inspections, inspecting>>
        /\ calls' \subseteq calls
    BY <1>3 DEF OpenBrowser
  <2>4. inspections \subseteq Nat /\ inspecting \in Nat \cup {Idle}
        /\ calls \subseteq [does : {"open", "complete"}, id : Nat, generation : Nat, until : Nat]
    BY <1>1 DEF HandoffTypes
  <2> QED
    BY <1>2, <2>2, <2>3, <2>4
<1>4. ASSUME NEW b \in browsers, Verify(b) PROVE HandoffInv'
  BY <1>1, <1>2, <1>4 DEF Verify, HandoffTypes
<1>5. ASSUME NEW b \in browsers, CloseExpired(b) PROVE HandoffInv'
  BY <1>1, <1>2, <1>5 DEF CloseExpired, HandoffTypes
<1>6. ASSUME NEW b \in browsers, NEW r \in Requests, HumanRequest(b, r) PROVE HandoffInv'
  <2>1. b \in [id : Nat, generation : Nat, deadline : Nat, cleared : BOOLEAN, blocked : BOOLEAN]
    BY <1>1 DEF HandoffTypes
  <2>2. /\ [b EXCEPT !.cleared = TRUE] \in [id : Nat, generation : Nat, deadline : Nat,
                                            cleared : BOOLEAN, blocked : BOOLEAN]
        /\ [b EXCEPT !.blocked = TRUE] \in [id : Nat, generation : Nat, deadline : Nat,
                                            cleared : BOOLEAN, blocked : BOOLEAN]
    BY <2>1
  <2> QED
    BY <1>1, <1>2, <1>6, <2>2 DEF HumanRequest, HandoffTypes
<1>7. CASE ApiStops
  BY <1>1, <1>2, <1>7 DEF ApiStops, HandoffTypes
<1>8. CASE DropInspecting
  BY <1>1, <1>2, <1>8 DEF DropInspecting, HandoffTypes
<1>9. ASSUME NEW s \in inspections, StartInspection(s) \/ BuryInspection(s) PROVE HandoffInv'
  BY <1>1, <1>2, <1>9 DEF StartInspection, BuryInspection, HandoffTypes
<1> QED
  BY <1>3, <1>4, <1>5, <1>6, <1>7, <1>8, <1>9

\* Rows of sessions under the updates the steps make.
LEMMA SessionUpdates ==
  ASSUME NEW r \in SessionRows
  PROVE  /\ [r EXCEPT !.state = "expired", !.leaseUntil = 0] \in SessionRows
         /\ [r EXCEPT !.state = "completed"] \in SessionRows
         /\ \A t \in Nat : [r EXCEPT !.state = "claimed", !.leaseUntil = t] \in SessionRows
         /\ [r EXCEPT !.state = "cancelled", !.leaseUntil = 0, !.generation = @ + 1] \in SessionRows
         /\ \A t \in Nat : [r EXCEPT !.state = "cancelled", !.generation = @ + 1,
                                     !.leaseUntil = 0, !.completedAt = t] \in SessionRows
         /\ \A t \in Nat : [r EXCEPT !.state = "rebuilding", !.generation = @ + 1,
                                     !.leaseUntil = 0, !.completedAt = t,
                                     !.continuation = r.generation + 1] \in SessionRows
<1>1. r.generation + 1 \in Nat
  BY DEF SessionRows
<1> QED
  BY <1>1 DEF SessionRows, States, Active

\* A step of the sessions, while no submission is under way or none ends.
LEMMA SessionsMove ==
  ASSUME HandoffInv, attempt' = attempt, clock' = clock,
         sessions' \in [SessionIds -> SessionRows],
         \A s \in SessionIds :
           /\ sessions'[s].expires = sessions[s].expires
           /\ sessions'[s].state \in Active => sessions[s].state \in Active
           /\ \/ sessions'[s].completedAt = sessions[s].completedAt
              \/ /\ attempt = NoAttempt /\ sessions[s].state \in Active
                 /\ sessions'[s].completedAt = clock,
         attempt # NoAttempt => stage' = stage,
         \E n \in Nat : Latest <= n /\ forms' \in [1 .. n -> FormRows],
         \A p \in DOMAIN forms : forms'[p].created = forms[p].created,
         stage' = "READY" => stage = "READY" \/ DOMAIN forms' # {},
         inspections' \subseteq Nat, inspecting' \in Nat \cup {Idle},
         calls' \subseteq [does : {"open", "complete"}, id : Nat, generation : Nat, until : Nat],
         browsers' \subseteq browsers
  PROVE  HandoffInv'
<1>1. HandoffTypes
  BY DEF HandoffInv
<1>2. PICK n \in Nat : SessionIds = 1 .. n /\ DOMAIN sessions = 1 .. n
  BY <1>1, Ids
<1>3. Latest \in Nat /\ DOMAIN forms = 1 .. Latest
  BY <1>1, Ids
<1>4. PICK m \in Nat : Latest <= m /\ forms' \in [1 .. m -> FormRows]
  OBVIOUS
<1>5. HandoffTypes'
  BY <1>1, <1>2, <1>4 DEF HandoffTypes
<1>6. DOMAIN forms \subseteq DOMAIN forms'
  BY <1>3, <1>4
<1>7. stage' = "READY" => DOMAIN forms' # {}
  BY <1>6 DEF HandoffInv
<1>8. attempt' = [attempt EXCEPT !.sent = attempt'.sent]
  BY <1>1 DEF HandoffTypes
<1> QED
  BY <1>1, <1>2, <1>5, <1>6, <1>7, <1>8, TimeIsNat, Later

\* The updates of rows, one session at a time or all that are active.
LEMMA OneSession ==
  ASSUME HandoffTypes, NEW s, NEW row, s \in SessionIds => row \in SessionRows,
         NEW new, new = [sessions EXCEPT ![s] = row]
  PROVE  /\ new \in [SessionIds -> SessionRows]
         /\ \A r \in SessionIds : new[r] = IF r = s THEN row ELSE sessions[r]
BY Ids

LEMMA SnapshotKeeps == ASSUME HandoffInv, SnapshotSessions PROVE HandoffInv'
<1>1. HandoffTypes
  BY DEF HandoffInv
<1>2. sessions \in [SessionIds -> SessionRows] /\ Latest \in Nat /\ forms \in [1 .. Latest -> FormRows]
  BY <1>1, Ids
<1>3. \A s \in SessionIds : sessions'[s] = IF Expired(s) THEN
          [sessions[s] EXCEPT !.state = "expired", !.leaseUntil = 0] ELSE sessions[s]
  BY DEF SnapshotSessions, WithExpired
<1>4. sessions' \in [SessionIds -> SessionRows]
  BY <1>2, SessionUpdates DEF SnapshotSessions, WithExpired
<1>5. ASSUME NEW s \in SessionIds
      PROVE  /\ sessions'[s].expires = sessions[s].expires
             /\ sessions'[s].state \in Active => sessions[s].state \in Active
             /\ sessions'[s].completedAt = sessions[s].completedAt
  BY <1>2, <1>3 DEF SessionRows, Active
<1> QED
  BY <1>1, <1>2, <1>4, <1>5, SessionsMove DEF SnapshotSessions, HandoffTypes

LEMMA ClaimKeeps ==
  ASSUME HandoffInv, NEW s \in SessionIds, ClaimHandoff(s)
  PROVE  HandoffInv'
<1>1. HandoffTypes
  BY DEF HandoffInv
<1>2. sessions \in [SessionIds -> SessionRows] /\ Latest \in Nat /\ forms \in [1 .. Latest -> FormRows]
  BY <1>1, Ids
<1> DEFINE until == Earlier(clock + HandoffLease, sessions[s].expires)
           row == [sessions[s] EXCEPT !.state = "claimed", !.leaseUntil = until]
<1>3. until \in Nat
  <2>1. sessions[s].expires \in Nat
    BY <1>2 DEF SessionRows
  <2>2. clock + HandoffLease \in Nat
    BY <1>1, HandoffsAssumption DEF HandoffTypes
  <2> QED
    BY <2>1, <2>2 DEF Earlier
<1> HIDE DEF until
<1>4. row \in SessionRows
  BY <1>2, <1>3, SessionUpdates
<1>5. row.expires = sessions[s].expires /\ row.completedAt = sessions[s].completedAt
      /\ sessions[s].state \in Active
  BY <1>2 DEF SessionRows, ClaimHandoff, Active
<1>6. sessions' = [sessions EXCEPT ![s] = row]
  BY <1>2 DEF ClaimHandoff, until
<1> HIDE DEF row
<1>7. /\ sessions' \in [SessionIds -> SessionRows]
      /\ \A r \in SessionIds : sessions'[r] = IF r = s THEN row ELSE sessions[r]
  BY <1>1, <1>4, <1>6, OneSession
<1>8. calls' \subseteq [does : {"open", "complete"}, id : Nat, generation : Nat, until : Nat]
  <2>1. s \in Nat /\ sessions[s].generation \in Nat
    BY <1>1, <1>2, Ids DEF SessionRows
  <2> QED
    BY <1>1, <1>3, <2>1 DEF ClaimHandoff, HandoffTypes, until
<1>9. ASSUME NEW r \in SessionIds
      PROVE  /\ sessions'[r].expires = sessions[r].expires
             /\ sessions'[r].state \in Active => sessions[r].state \in Active
             /\ sessions'[r].completedAt = sessions[r].completedAt
  BY <1>5, <1>7
<1>10. UNCHANGED <<clock, stage, forms, inspections, inspecting, browsers, attempt>>
  BY DEF ClaimHandoff
<1> QED
  BY <1>1, <1>2, <1>7, <1>8, <1>9, <1>10, SessionsMove DEF HandoffTypes

LEMMA FailToOpenKeeps ==
  ASSUME HandoffInv, NEW call \in calls, FailToOpen(call)
  PROVE  HandoffInv'
<1> DEFINE s == call.id
           row == [sessions[s] EXCEPT !.state = "cancelled", !.leaseUntil = 0,
                                      !.generation = @ + 1]
<1>1. HandoffTypes
  BY DEF HandoffInv
<1>2. sessions \in [SessionIds -> SessionRows] /\ Latest \in Nat /\ forms \in [1 .. Latest -> FormRows]
  BY <1>1, Ids
<1>3. s \in SessionIds => row \in SessionRows /\ row.expires = sessions[s].expires
          /\ row.completedAt = sessions[s].completedAt /\ row.state \notin Active
  <2> HAVE s \in SessionIds
  <2>1. sessions[s] \in SessionRows
    BY <1>2
  <2>2. row \in SessionRows
    BY <2>1, SessionUpdates
  <2> QED
    BY <2>1, <2>2 DEF SessionRows, Active
<1>4. sessions' = sessions \/ sessions' = [sessions EXCEPT ![s] = row]
  BY DEF FailToOpen
<1> HIDE DEF row
<1>5. /\ sessions' \in [SessionIds -> SessionRows]
      /\ \A r \in SessionIds : sessions'[r] = sessions[r] \/ (r = s /\ sessions'[r] = row)
  <2>1. CASE sessions' = sessions
    BY <1>2, <2>1
  <2>2. CASE sessions' = [sessions EXCEPT ![s] = row]
    <3>1. s \in SessionIds => row \in SessionRows
      BY <1>3
    <3>2. /\ sessions' \in [SessionIds -> SessionRows]
          /\ \A r \in SessionIds : sessions'[r] = IF r = s THEN row ELSE sessions[r]
      BY ONLY <1>2, <2>2, <3>1
    <3> QED
      BY <3>2
  <2> QED
    BY <1>4, <2>1, <2>2
<1>6. ASSUME NEW r \in SessionIds
      PROVE  /\ sessions'[r].expires = sessions[r].expires
             /\ sessions'[r].state \in Active => sessions[r].state \in Active
             /\ sessions'[r].completedAt = sessions[r].completedAt
  BY <1>3, <1>5
<1>7. UNCHANGED <<clock, stage, forms, inspections, inspecting, browsers, attempt>>
      /\ calls' \subseteq calls
  BY DEF FailToOpen
<1> QED
  BY <1>1, <1>2, <1>5, <1>6, <1>7, SessionsMove DEF HandoffTypes

LEMMA CompleteKeeps ==
  ASSUME HandoffInv, NEW call \in calls, CompleteHandoff(call)
  PROVE  HandoffInv'
<1> DEFINE s == call.id
           row == [sessions[s] EXCEPT
                     !.state = "rebuilding", !.generation = @ + 1, !.leaseUntil = 0,
                     !.completedAt = clock, !.continuation = sessions[s].generation + 1]
<1>1. HandoffTypes
  BY DEF HandoffInv
<1>2. sessions \in [SessionIds -> SessionRows] /\ Latest \in Nat /\ forms \in [1 .. Latest -> FormRows]
  BY <1>1, Ids
<1>3. /\ UNCHANGED <<clock, stage, inspecting, attempt>>
      /\ calls' \subseteq calls /\ browsers' \subseteq browsers
  BY DEF CompleteHandoff
<1>4. /\ inspections \subseteq Nat /\ inspecting \in Nat \cup {Idle} /\ s \in Nat /\ clock \in Nat
      /\ calls \subseteq [does : {"open", "complete"}, id : Nat, generation : Nat, until : Nat]
  BY <1>1 DEF HandoffTypes
<1>5. CASE UNCHANGED <<sessions, forms, inspections>>
  <2>1. \A r \in SessionIds : /\ sessions'[r].expires = sessions[r].expires
                              /\ sessions'[r].state = sessions[r].state
                              /\ sessions'[r].completedAt = sessions[r].completedAt
    BY <1>5
  <2>2. \A q \in DOMAIN forms : forms'[q].created = forms[q].created
    BY <1>5
  <2> QED
    BY <1>2, <1>3, <1>4, <1>5, <2>1, <2>2, SessionsMove
<1>6. CASE ~UNCHANGED <<sessions, forms, inspections>>
  <2>1. /\ sessions[s].state = "claimed" /\ attempt = NoAttempt
        /\ forms' = [forms EXCEPT ![sessions[s].form].resolved = TRUE]
        /\ inspections' = inspections \cup {s}
    BY <1>6 DEF CompleteHandoff, Holds
  <2>2. sessions' = [sessions EXCEPT ![s] = row]
    <3>1. sessions' = [sessions EXCEPT
            ![s].state = "rebuilding", ![s].generation = @ + 1, ![s].leaseUntil = 0,
            ![s].completedAt = clock, ![s].continuation = sessions[s].generation + 1]
      BY <1>6 DEF CompleteHandoff
    <3> QED
      BY ONLY <1>2, <3>1
  <2>3. s \in SessionIds => row \in SessionRows /\ row.expires = sessions[s].expires
                            /\ row.completedAt = clock
    <3> HAVE s \in SessionIds
    <3>1. sessions[s] \in SessionRows
      BY <1>2
    <3>2. row \in SessionRows
      BY <1>4, <3>1, SessionUpdates
    <3> QED
      BY <3>1, <3>2 DEF SessionRows
  <2> HIDE DEF row
  <2>4. /\ sessions' \in [SessionIds -> SessionRows]
        /\ \A r \in SessionIds : sessions'[r] = IF r = s THEN row ELSE sessions[r]
    BY ONLY <1>2, <2>2, <2>3
  <2>5. ASSUME NEW r \in SessionIds
        PROVE  /\ sessions'[r].expires = sessions[r].expires
               /\ sessions'[r].state \in Active => sessions[r].state \in Active
               /\ \/ sessions'[r].completedAt = sessions[r].completedAt
                  \/ /\ attempt = NoAttempt /\ sessions[r].state \in Active
                     /\ sessions'[r].completedAt = clock
    BY <2>1, <2>3, <2>4 DEF Active
  <2>6. forms' \in [1 .. Latest -> FormRows]
        /\ \A q \in DOMAIN forms : forms'[q].created = forms[q].created
    BY <1>2, <2>1 DEF FormRows
  <2>7. inspections' \subseteq Nat
    BY <1>4, <2>1
  <2>8. \E n \in Nat : Latest <= n /\ forms' \in [1 .. n -> FormRows]
    BY <1>2, <2>6
  <2> QED
    BY <1>2, <1>3, <1>4, <2>4, <2>5, <2>6, <2>7, <2>8, SessionsMove
<1> QED
  BY <1>5, <1>6

\* All sessions end now, and all forms are set aside.
LEMMA CancelKeeps ==
  ASSUME HandoffInv, attempt = NoAttempt, CancelActive, RetireForms, NEW state, Move(state),
         state # "READY", inspections' \subseteq inspections \cup {0},
         UNCHANGED <<clock, browsers, calls, attempt>>
  PROVE  HandoffInv'
<1>1. HandoffTypes
  BY DEF HandoffInv
<1>2. sessions \in [SessionIds -> SessionRows] /\ Latest \in Nat /\ forms \in [1 .. Latest -> FormRows]
  BY <1>1, Ids
<1>3. ASSUME NEW r \in SessionIds
      PROVE  /\ sessions'[r] \in SessionRows
             /\ sessions'[r].expires = sessions[r].expires
             /\ sessions'[r].state \in Active => sessions[r].state \in Active
             /\ \/ sessions'[r].completedAt = sessions[r].completedAt
                \/ sessions[r].state \in Active /\ sessions'[r].completedAt = clock
  <2> DEFINE row == [sessions[r] EXCEPT !.state = "cancelled", !.generation = @ + 1,
                                        !.leaseUntil = 0, !.completedAt = clock]
  <2>1. sessions[r] \in SessionRows /\ clock \in Nat
    BY <1>1, <1>2 DEF HandoffTypes
  <2>2. row \in SessionRows /\ row.expires = sessions[r].expires /\ row.completedAt = clock
    <3>1. row \in SessionRows
      BY <2>1, SessionUpdates
    <3> QED
      BY <2>1, <3>1 DEF SessionRows
  <2>3. sessions'[r] = IF r \in ActiveSessions THEN row ELSE sessions[r]
    BY DEF CancelActive
  <2> HIDE DEF row
  <2> QED
    BY <2>1, <2>2, <2>3 DEF ActiveSessions
<1>4. sessions' \in [SessionIds -> SessionRows]
  <2>1. sessions' = [r \in SessionIds |-> sessions'[r]]
    BY DEF CancelActive
  <2> QED
    BY <1>3, <2>1
<1>5. forms' \in [1 .. Latest -> FormRows]
      /\ \A q \in DOMAIN forms : forms'[q].created = forms[q].created
  BY <1>2 DEF RetireForms, FormRows
<1>6. /\ inspections' \subseteq Nat /\ inspecting' \in Nat \cup {Idle} /\ stage' = state
      /\ calls' \subseteq [does : {"open", "complete"}, id : Nat, generation : Nat, until : Nat]
  BY <1>1 DEF HandoffTypes, Move
<1>7. \E n \in Nat : Latest <= n /\ forms' \in [1 .. n -> FormRows]
  BY <1>2, <1>5
<1> QED
  BY <1>3, <1>4, <1>5, <1>6, <1>7, SessionsMove

LEMMA PacketKeeps == ASSUME HandoffInv, SavePacket PROVE HandoffInv'
<1>1. HandoffTypes
  BY DEF HandoffInv
<1>2. sessions \in [SessionIds -> SessionRows] /\ Latest \in Nat /\ forms \in [1 .. Latest -> FormRows]
  BY <1>1, Ids
<1>3. attempt = NoAttempt
  BY DEF HandoffInv, DispatchSealed, SavePacket
<1>4. /\ UNCHANGED <<clock, forms, sessions, browsers, calls, attempt>> /\ stage' = "PREPARED"
      /\ inspections' \subseteq Nat /\ inspecting' \in Nat \cup {Idle}
      /\ calls \subseteq [does : {"open", "complete"}, id : Nat, generation : Nat, until : Nat]
  BY <1>1 DEF SavePacket, Move, HandoffTypes
<1>5. \A r \in SessionIds : /\ sessions'[r].expires = sessions[r].expires
                            /\ sessions'[r].state = sessions[r].state
                            /\ sessions'[r].completedAt = sessions[r].completedAt
  BY <1>4
<1>6. \A q \in DOMAIN forms : forms'[q].created = forms[q].created
  BY <1>4
<1> QED
  BY <1>2, <1>3, <1>4, <1>5, <1>6, SessionsMove

LEMMA SaveFormKeeps ==
  ASSUME HandoffInv, NEW status \in {"ready", "challenge", "needs_input"}, SaveForm(status)
  PROVE  HandoffInv'
<1> DEFINE s == inspecting
           row == [sessions[s] EXCEPT !.state = "completed"]
           form == [status |-> status, created |-> clock, expires |-> clock + ChallengeTtl,
                    resolved |-> FALSE, handoff |-> s]
<1>1. HandoffTypes
  BY DEF HandoffInv
<1>2. sessions \in [SessionIds -> SessionRows] /\ Latest \in Nat /\ forms \in [1 .. Latest -> FormRows]
  BY <1>1, Ids
<1>3. /\ UNCHANGED <<clock, browsers, calls, attempt>> /\ attempt = NoAttempt
      /\ inspecting # Idle /\ inspecting' = Idle /\ inspections' \subseteq inspections
  BY DEF SaveForm
<1>4. /\ s \in Nat /\ clock \in Nat /\ inspections \subseteq Nat
      /\ calls \subseteq [does : {"open", "complete"}, id : Nat, generation : Nat, until : Nat]
  BY <1>1, <1>3 DEF HandoffTypes
<1>5. form \in FormRows
  <2>1. clock + ChallengeTtl \in Nat
    BY <1>4, HandoffsAssumption
  <2> QED
    BY <1>4, <2>1 DEF FormRows
<1>6. /\ forms' = [p \in 1 .. Latest + 1 |-> IF p \in DOMAIN forms THEN forms[p] ELSE form]
  BY DEF SaveForm
<1> HIDE DEF form
<1>7. /\ forms' \in [1 .. Latest + 1 -> FormRows] /\ DOMAIN forms' # {}
      /\ \A q \in DOMAIN forms : forms'[q].created = forms[q].created
  <2>1. 1 \in 1 .. Latest + 1
    BY <1>2
  <2>2. DOMAIN forms = 1 .. Latest /\ \A q \in 1 .. Latest : forms[q] \in FormRows
    BY <1>2
  <2>3. DOMAIN forms' = 1 .. Latest + 1
    BY <1>6
  <2>4. \A q \in 1 .. Latest : q \in 1 .. Latest + 1 /\ forms'[q] = forms[q]
    BY <1>2, <1>6, <2>2
  <2>5. forms' \in [1 .. Latest + 1 -> FormRows]
    BY <1>5, <1>6, <2>2
  <2> QED
    BY <2>1, <2>2, <2>3, <2>4, <2>5
<1>8. /\ sessions' \in [SessionIds -> SessionRows]
      /\ \A r \in SessionIds : /\ sessions'[r].expires = sessions[r].expires
                               /\ sessions'[r].state \in Active => sessions[r].state \in Active
                               /\ sessions'[r].completedAt = sessions[r].completedAt
  <2>1. CASE s = 0
    BY <1>2, <2>1 DEF SaveForm
  <2>2. CASE s # 0
    <3>1. sessions' = [sessions EXCEPT ![s] = row]
      BY <1>2, <2>2 DEF SaveForm
    <3>2. s \in SessionIds => row \in SessionRows /\ row.expires = sessions[s].expires
                              /\ row.completedAt = sessions[s].completedAt
                              /\ row.state \notin Active
      <4> HAVE s \in SessionIds
      <4>1. sessions[s] \in SessionRows
        BY <1>2
      <4>2. row \in SessionRows
        BY <4>1, SessionUpdates
      <4> QED
        BY <4>1, <4>2 DEF SessionRows, Active
    <3> HIDE DEF row
    <3>3. /\ sessions' \in [SessionIds -> SessionRows]
          /\ \A r \in SessionIds : sessions'[r] = IF r = s THEN row ELSE sessions[r]
      BY ONLY <1>2, <3>1, <3>2
    <3> QED
      BY <3>2, <3>3
  <2> QED
    BY <2>1, <2>2
<1>9. Latest + 1 \in Nat /\ Latest <= Latest + 1
  BY <1>2
<1> QED
  BY <1>3, <1>4, <1>7, <1>8, <1>9, SessionsMove

LEMMA CreateKeeps ==
  ASSUME HandoffInv, NEW p \in DOMAIN forms, CreateIn(p)
  PROVE  HandoffInv'
<1>1. HandoffTypes /\ clock \in Nat
  BY DEF HandoffInv, HandoffTypes
<1>2. PICK n \in Nat : /\ SessionIds = 1 .. n /\ Cardinality(SessionIds) = n
                       /\ sessions \in [1 .. n -> SessionRows] /\ DOMAIN sessions = 1 .. n
  BY <1>1, Ids
<1>3. forms[p] \in FormRows
  BY <1>1, Ids
<1> DEFINE until == Earlier(clock + HandoffTtl, forms[p].expires)
           row == [ state |-> "open", generation |-> 1, leaseUntil |-> 0, expires |-> until,
                    completedAt |-> 0, form |-> p, continuation |-> 0 ]
<1>4. until \in Nat /\ clock <= until
  <2>1. forms[p].expires \in Nat /\ clock < forms[p].expires
    BY <1>3 DEF CreateIn, FormRows
  <2>2. clock + HandoffTtl \in Nat /\ clock <= clock + HandoffTtl
    BY <1>1, HandoffsAssumption
  <2> QED
    BY <1>1, <2>1, <2>2 DEF Earlier
<1>5. row \in SessionRows
  <2>1. p \in Nat
    BY <1>1, Ids
  <2> HIDE DEF until
  <2> QED
    BY <1>4, <2>1 DEF SessionRows, States, Active
<1>6. sessions' = [s \in 1 .. n \cup {n + 1} |-> IF s \in 1 .. n THEN WithExpired[s] ELSE row]
  BY <1>2 DEF CreateIn
<1>7. row.expires = until /\ row.completedAt = 0
  OBVIOUS
<1> HIDE DEF row, until
<1>8. 1 .. n \cup {n + 1} = 1 .. n + 1 /\ n + 1 \notin 1 .. n
  BY <1>2
<1>9. ASSUME NEW s \in 1 .. n
      PROVE  /\ sessions'[s] \in SessionRows /\ sessions'[s].state \notin Active
             /\ sessions'[s].expires = sessions[s].expires
             /\ sessions'[s].completedAt = sessions[s].completedAt
  <2> DEFINE over == [sessions[s] EXCEPT !.state = "expired", !.leaseUntil = 0]
  <2>1. over \in SessionRows /\ over.expires = sessions[s].expires
        /\ over.completedAt = sessions[s].completedAt /\ over.state \notin Active
    <3>1. sessions[s] \in SessionRows
      BY <1>2
    <3>2. over \in SessionRows
      BY <3>1, SessionUpdates
    <3> QED
      BY <3>1, <3>2 DEF SessionRows, Active
  <2>2. sessions'[s] = IF Expired(s) THEN over ELSE sessions[s]
    BY <1>2, <1>6 DEF WithExpired
  <2>3. sessions[s].state \in Active => Expired(s)
    BY <1>2 DEF CreateIn, ActiveSessions
  <2> HIDE DEF over
  <2> QED
    BY <1>2, <2>1, <2>2, <2>3
<1>10. sessions'[n + 1] = row /\ DOMAIN sessions' = 1 .. n + 1
  BY <1>6, <1>8
<1>11. sessions' \in [1 .. n + 1 -> SessionRows]
  BY <1>5, <1>6, <1>8, <1>9, <1>10
<1>12. UNCHANGED <<clock, stage, forms, inspections, inspecting, browsers, calls, attempt>>
  BY DEF CreateIn
<1>13. HandoffTypes'
  <2>1. n + 1 \in Nat
    BY <1>2
  <2>2. \E m \in Nat : sessions' \in [1 .. m -> SessionRows]
    BY <1>11, <2>1
  <2> QED
    BY <1>1, <1>12, <2>2 DEF HandoffTypes
<1>14. \A s \in 1 .. n : /\ sessions[s].completedAt \in Nat /\ sessions[s].completedAt <= clock
                         /\ \A r \in 1 .. n : s < r =>
                              /\ sessions[s].completedAt <= sessions[r].expires
                              /\ sessions[r].completedAt # 0 =>
                                   sessions[s].completedAt <= sessions[r].completedAt
  BY <1>2 DEF HandoffInv, Ordered, SessionRows
<1>15. Ordered'
  <2> SUFFICES ASSUME NEW s \in 1 .. n + 1
               PROVE  /\ sessions'[s].completedAt <= clock
                      /\ \A r \in 1 .. n + 1 : s < r =>
                           /\ sessions'[s].state \notin Active
                           /\ sessions'[s].completedAt <= sessions'[r].expires
                           /\ sessions'[r].completedAt # 0 =>
                                sessions'[s].completedAt <= sessions'[r].completedAt
    BY <1>10, <1>12 DEF Ordered
  <2>1. CASE s = n + 1
    BY <1>1, <1>2, <1>7, <1>10, <2>1
  <2>2. CASE s \in 1 .. n
    <3>1. sessions'[s].completedAt <= clock
      BY <1>9, <1>14, <2>2
    <3>2. ASSUME NEW r \in 1 .. n, s < r
          PROVE  /\ sessions'[s].completedAt <= sessions'[r].expires
                 /\ sessions'[r].completedAt # 0 =>
                      sessions'[s].completedAt <= sessions'[r].completedAt
      BY <1>9, <1>14, <2>2, <3>2
    <3>3. sessions'[s].completedAt <= until
      BY <1>1, <1>4, <1>9, <1>14, <2>2
    <3> QED
      BY <1>7, <1>8, <1>9, <1>10, <2>2, <3>1, <3>2, <3>3
  <2> QED
    BY <1>8, <2>1, <2>2
<1>16. attempt = NoAttempt /\ stage # "READY"
  BY DEF HandoffInv, DispatchSealed, CreateIn
<1> QED
  BY <1>12, <1>13, <1>15, <1>16 DEF HandoffInv, DispatchSealed

\* A set of sessions has a newest one.
LEMMA Newest ==
  ASSUME NEW n \in Nat, NEW S, S \subseteq 1 .. n, S # {}
  PROVE  \E r \in S : \A q \in S : q <= r
<1> DEFINE Less == {p \in Nat \X Nat : p[1] < p[2]}
           T == {k \in Nat : n - k \in S}
<1>1. IsWellFoundedOn(Less, Nat)
  BY NatLessThanWellFounded DEF OpToRel
<1>2. T \subseteq Nat /\ T # {}
  <2>1. PICK s \in S : TRUE
    OBVIOUS
  <2>2. n - s \in Nat /\ n - (n - s) = s
    OBVIOUS
  <2> QED
    BY <2>1, <2>2
<1>3. PICK x \in T : \A y \in T : ~(<<y, x>> \in Less)
  BY <1>1, <1>2, WFMin
<1>4. ASSUME NEW q \in S PROVE q <= n - x
  <2>1. n - q \in T
    OBVIOUS
  <2>2. ~(n - q < x)
    BY <1>3, <2>1
  <2> QED
    BY <2>2
<1> QED
  BY <1>3, <1>4

\* begin looks at the newest session that is over; those before it ended
\* earlier, and those after it never ended at all.
LEMMA BeginKeeps == ASSUME HandoffInv, BeginAttempt PROVE HandoffInv'
<1>1. HandoffTypes /\ clock \in Nat
  BY DEF HandoffInv, HandoffTypes
<1>2. PICK n \in Nat : /\ SessionIds = 1 .. n /\ sessions \in [1 .. n -> SessionRows]
                       /\ DOMAIN sessions = 1 .. n
  BY <1>1, Ids
<1>3. Latest \in Nat /\ forms \in [1 .. Latest -> FormRows] /\ Latest \in DOMAIN forms
  <2>1. Latest \in Nat /\ forms \in [1 .. Latest -> FormRows]
    BY <1>1, Ids
  <2>2. DOMAIN forms # {}
    BY DEF HandoffInv, BeginAttempt
  <2> QED
    BY <2>1, <2>2
<1>4. forms[Latest].created \in Nat /\ forms[Latest].handoff \in Nat
  BY <1>3 DEF FormRows
<1>5. /\ attempt' = [form |-> Latest, handoff |-> forms[Latest].handoff, sent |-> FALSE]
      /\ stage' = "IN_FLIGHT" /\ inspecting' = Idle
      /\ UNCHANGED <<clock, forms, sessions, inspections, browsers, calls>>
  BY DEF BeginAttempt, Move
<1>6. HandoffTypes'
  BY <1>1, <1>3, <1>4, <1>5 DEF HandoffTypes
<1>7. Ordered'
  BY <1>5 DEF HandoffInv, Ordered
<1>8. ASSUME NEW s \in 1 .. n
      PROVE  /\ sessions[s].completedAt < forms[Latest].created
             /\ sessions[s].state \in Active => sessions[s].expires <= clock
  <2> DEFINE over == {r \in SessionIds : Settled(r)}
             last == CHOOSE r \in over : \A q \in over : q <= r
  <2>1. Boundary < forms[Latest].created
    BY DEF BeginAttempt
  <2>2. \A r \in 1 .. n : sessions[r].completedAt \in Nat /\ sessions[r].expires \in Nat
    BY <1>2 DEF SessionRows
  <2>3. sessions[s].completedAt < forms[Latest].created
    <3>1. CASE s \notin over
      <4>1. sessions[s].completedAt = 0
        BY <1>2, <3>1 DEF Settled
      <4>2. Boundary \in Nat
        <5>1. CASE over = {}
          BY <5>1 DEF Boundary
        <5>2. CASE over # {}
          <6>1. last \in over
            <7>1. over \subseteq 1 .. n
              BY <1>2
            <7>2. \E r \in over : \A q \in over : q <= r
              BY <5>2, <7>1, <1>2, Newest
            <7> QED
              BY <7>2
          <6>2. last \in 1 .. n
            BY <1>2, <6>1
          <6> HIDE DEF over, last
          <6> QED
            BY <2>2, <6>2, <5>2 DEF Boundary, over, last
        <5> QED
          BY <5>1, <5>2
      <4> QED
        BY <1>4, <2>1, <4>1, <4>2
    <3>2. CASE s \in over
      <4>1. over \subseteq 1 .. n
        BY <1>2
      <4>2. \E r \in over : \A q \in over : q <= r
        BY <1>2, <3>2, <4>1, Newest
      <4>3. last \in over /\ s <= last /\ last \in 1 .. n
        BY <3>2, <4>1, <4>2
      <4>4. Boundary = IF sessions[last].completedAt # 0 THEN sessions[last].completedAt
                       ELSE sessions[last].expires
        BY <3>2 DEF Boundary
      <4>5. sessions[last].completedAt = 0 \/ sessions[last].completedAt # 0
        OBVIOUS
      <4> HIDE DEF over, last
      <4>6. s < last =>
              /\ sessions[s].completedAt <= sessions[last].expires
              /\ sessions[last].completedAt # 0 =>
                   sessions[s].completedAt <= sessions[last].completedAt
        BY <1>2, <4>3 DEF HandoffInv, Ordered
      <4>7. sessions[s].completedAt <= Boundary
        BY <2>2, <4>3, <4>4, <4>6
      <4>8. Boundary \in Nat
        BY <2>2, <4>3, <4>4
      <4> QED
        BY <1>4, <2>1, <2>2, <4>7, <4>8
    <3> QED
      BY <3>1, <3>2
  <2>4. sessions[s].state \in Active => sessions[s].expires <= clock
    BY <1>2 DEF BeginAttempt, ActiveSessions, Expired
  <2> QED
    BY <2>3, <2>4
<1>9. DispatchSealed'
  <2>1. attempt'.form = Latest
    BY <1>5
  <2> QED
    BY <1>2, <1>3, <1>5, <1>8, <2>1 DEF DispatchSealed
<1> QED
  BY <1>5, <1>6, <1>7, <1>9 DEF HandoffInv

LEMMA DispatchKeeps == ASSUME HandoffInv, Dispatch PROVE HandoffInv'
<1>1. HandoffTypes
  BY DEF HandoffInv
<1>2. UNCHANGED <<clock, stage, forms, sessions, inspections, inspecting, browsers, calls>>
      /\ attempt' = [attempt EXCEPT !.sent = TRUE] /\ attempt # NoAttempt
  BY DEF Dispatch
<1>3. HandoffTypes' /\ attempt'.sent = TRUE
  BY <1>1, <1>2 DEF HandoffTypes
<1>4. stage' = "READY" => DOMAIN forms' # {}
  BY <1>2 DEF HandoffInv
<1> QED
  BY <1>1, <1>2, <1>3, <1>4, TimeIsNat, Later

LEMMA TimeKeeps == ASSUME HandoffInv, PassTime PROVE HandoffInv'
<1>1. clock' \in Nat /\ clock <= clock'
  BY DEF HandoffInv, HandoffTypes, PassTime
<1>2. HandoffTypes'
  BY <1>1 DEF HandoffInv, HandoffTypes, PassTime
<1> QED
  BY <1>1, <1>2, Quiet DEF PassTime

-----------------------------------------------------------------------------
(* The theorem                                                              *)

LEMMA HandoffStep == ASSUME HandoffInv, [HandoffNext]_handoffVars PROVE HandoffInv'
<1>1. CASE ResumeIn
  BY <1>1, CancelKeeps DEF ResumeIn
<1>2. CASE RebuildForm
  BY <1>2, CancelKeeps DEF RebuildForm
<1>3. CASE UNCHANGED handoffVars
  BY <1>3 DEF handoffVars, HandoffInv, HandoffTypes, Ordered, DispatchSealed
<1> QED
  BY <1>1, <1>2, <1>3, Memory, SnapshotKeeps, ClaimKeeps, FailToOpenKeeps, CompleteKeeps,
     PacketKeeps, SaveFormKeeps, CreateKeeps, BeginKeeps, DispatchKeeps, TimeKeeps
     DEF HandoffNext

\* A form inspected before the owner dealt with its challenge is never what is
\* submitted, and no session that still lives is left beside a submission.
THEOREM CurrentFormSubmitted == HandoffSpec => []SubmittedFormIsCurrent
<1>1. HandoffInv => SubmittedFormIsCurrent
  BY Ids DEF HandoffInv, DispatchSealed, SubmittedFormIsCurrent
<1> QED
  BY <1>1, HandoffStart, HandoffStep, PTL DEF HandoffSpec
=============================================================================
