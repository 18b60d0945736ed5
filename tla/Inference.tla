------------------------------ MODULE Inference ------------------------------
(***************************************************************************)
(* The ledger and the route of the free inference quota, in                *)
(* packages/persistence/src/matching-repository.ts, and the gateways that  *)
(* spend it: triage (packages/inference/src/gateway.ts, run by the worker  *)
(* and by the API), letters (packages/documents/src/letter-gateway.ts) and *)
(* nodes (packages/inference/src/node-gateway.ts).  The configuration is   *)
(* private with a key, under the default strict-zdr-v1 revision.  What is  *)
(* proposed, and the assessment or letter made of it, is not modelled.     *)
(*                                                                         *)
(* A day has DayLength readings of the clock.  A reservation is good for   *)
(* ReservationTerm, a backoff lasts Backoff.                               *)
(***************************************************************************)
EXTENDS Integers, FiniteSets

CONSTANTS
  Runners, KindOf,          \* triage, letter or node
  Models,
  ClassLimit,               \* allocationLimits
  DailyLimit, Protected,    \* Protected: the share of unallocated_reserve
  DayLength, ReservationTerm, Backoff,
  ReviewRequests,           \* requests of one draft with its critique
  MaxHour, MaxReservations  \* bounds

Classes == DOMAIN ClassLimit

\* nodeAllocation and the letter's steps name no class that may spend the reserve.
ASSUME InferenceAssumption ==
  /\ KindOf \in [Runners -> {"triage", "letter", "node"}]
  /\ ClassLimit \in [Classes -> Nat]
  /\ {"semantic_triage", "packet_drafting", "independent_critique", "repairs"} \subseteq Classes
  /\ "unallocated_reserve" \notin Classes /\ IsFiniteSet(Classes)
  /\ "none" \notin Models
  /\ DailyLimit \in Nat /\ Protected \in 0 .. DailyLimit
  /\ {DayLength, ReservationTerm, ReviewRequests} \subseteq Nat \ {0}
  /\ {Backoff, MaxHour, MaxReservations} \subseteq Nat

VARIABLES
  hour,          \* the clock
  route,         \* inference_state
  reservations,  \* inference_reservations, oldest first
  runner,        \* what each caller is doing, in memory
  wired          \* reservations whose request has been sent (history)

inferenceVars == <<hour, route, reservations, runner, wired>>

IdleRunner == [pc |-> "idle", class |-> "none", model |-> "none", id |-> 0, left |-> 0]
ReservationIds == DOMAIN reservations
Day(t) == t \div DayLength
OfToday(id) == Day(reservations[id].made) = Day(hour)
Stale(id) == reservations[id].made + ReservationTerm <= hour

At(c, pc) == runner' = [runner EXCEPT ![c].pc = pc]
Returned(c) == runner' = [runner EXCEPT ![c] = IdleRunner]

-----------------------------------------------------------------------------
(* The route                                                                *)

\* route: the recorded one is kept while it is rate limited, and may be, until
\* its catalogue is six hours old, while it is for the same class.
BackedOff == route.status = "rate_limited" /\ hour < route.backoff
MayHold(class) == route.status \in {"ready", "paused"} /\ route.class = class
After(class) ==
  IF BackedOff THEN {"routed"} ELSE {"catalogue"} \cup (IF MayHold(class) THEN {"routed"} ELSE {})

Ready(m, class) ==
  [status |-> "ready", model |-> m, class |-> class, backoff |-> 0]

\* setUnavailable keeps the catalogue but not what it was chosen for.
Unavailable(status, until) ==
  [route EXCEPT !.status = status, !.model = "none", !.class = "none", !.backoff = until]

\* run and assessNow, draft and its review, a node of the preparation graph.
StartRunner(c) ==
  /\ runner[c].pc = "idle"
  /\ \E class \in Classes :
       /\ KindOf[c] = "triage" => class = "semantic_triage"
       /\ KindOf[c] = "letter" => class = "packet_drafting"
       /\ \E pc \in After(class) :
            runner' = [runner EXCEPT ![c] =
              [IdleRunner EXCEPT !.pc = pc, !.class = class, !.left = ReviewRequests]]
  /\ UNCHANGED <<hour, route, reservations, wired>>

\* The catalogue comes back: selectMeasuredRoute finds an eligible model in it or
\* none; or asking for it is refused or fails.
CatalogueRead(c) ==
  LET class == runner[c].class IN
  /\ runner[c].pc = "catalogue"
  /\ \/ \E m \in Models : route' = Ready(m, class)
     \/ route' = [Ready("none", class) EXCEPT !.status = "paused"]
     \/ route' = Unavailable("rate_limited", hour + Backoff)
     \/ route' = Unavailable("paused", 0)
  /\ At(c, "routed")
  /\ UNCHANGED <<hour, reservations, wired>>

\* The route is read again; without one the work is put off.
ChooseModel(c) ==
  /\ runner[c].pc = "routed"
  /\ IF route.status = "ready"
     THEN runner' = [runner EXCEPT ![c].pc = "chosen", ![c].model = route.model]
     ELSE Returned(c)
  /\ UNCHANGED <<hour, route, reservations, wired>>

-----------------------------------------------------------------------------
(* The ledger                                                               *)

\* Those of today that are stale are released first.
Held(class) ==
  {id \in ReservationIds :
    /\ OfToday(id) /\ reservations[id].class = class
    /\ reservations[id].state # "released"
    /\ ~(reservations[id].state = "reserved" /\ Stale(id))}

WithinQuota(class) ==
  LET count == Cardinality(UNION {Held(k) : k \in Classes}) IN
  /\ count < DailyLimit - (IF class = "unallocated_reserve" THEN 0 ELSE Protected)
  /\ Cardinality(Held(class)) <
       (IF class = "unallocated_reserve" THEN Protected ELSE ClassLimit[class])

RouteOpen == route.status = "ready" /\ route.backoff <= hour

Released(id) ==
  IF OfToday(id) /\ reservations[id].state = "reserved" /\ Stale(id)
  THEN [reservations[id] EXCEPT !.state = "released"] ELSE reservations[id]

Reserve(c) ==
  LET next == Cardinality(ReservationIds) + 1
      class == runner[c].class IN
  /\ runner[c].pc = "chosen"
  /\ WithinQuota(class) /\ RouteOpen
  /\ next <= MaxReservations
  /\ reservations' = [id \in ReservationIds \cup {next} |->
       IF id = next THEN [ state |-> "reserved", made |-> hour, class |-> class ]
       ELSE Released(id)]
  /\ runner' = [runner EXCEPT ![c].pc = "reserved", ![c].id = next]
  /\ UNCHANGED <<hour, route, wired>>

\* Refused: the transaction is rolled back.  Triage takes an unusable route, and
\* not an exhausted quota, for its own failure.
NotReserved(c) ==
  /\ runner[c].pc = "chosen"
  /\ ~(WithinQuota(runner[c].class) /\ RouteOpen)
  /\ IF WithinQuota(runner[c].class) /\ KindOf[c] = "triage"
     THEN At(c, IF route.status = "ready" THEN "limited" ELSE "failed")
     ELSE Returned(c)
  /\ UNCHANGED <<hour, route, reservations, wired>>

\* markSent, before the request is sent.
MarkSent(c) ==
  LET id == runner[c].id IN
  /\ runner[c].pc = "reserved"
  /\ reservations[id].state = "reserved" /\ ~Stale(id)
  /\ reservations' = [reservations EXCEPT ![id].state = "sent"]
  /\ runner' = [runner EXCEPT ![c].pc = "sent", ![c].left = @ - 1]
  /\ UNCHANGED <<hour, route, wired>>

\* The reservation is stale, or the draft was aborted: release, which leaves
\* what is no longer reserved alone.
NotSent(c) ==
  LET id == runner[c].id IN
  /\ runner[c].pc = "reserved"
  /\ KindOf[c] = "triage" => Stale(id) \/ reservations[id].state # "reserved"
  /\ reservations' = [reservations EXCEPT ![id].state = IF @ = "reserved" THEN "released" ELSE @]
  /\ Returned(c)
  /\ UNCHANGED <<hour, route, wired>>

\* complete: once the catalogue has shown again that the route is free.
Post(c) ==
  /\ runner[c].pc = "sent"
  /\ wired' = wired \cup {runner[c].id}
  /\ At(c, "posted")
  /\ UNCHANGED <<hour, route, reservations>>

\* Faulty: what failed is given back.
FailedRefunded == "released"

\* finish, of a request that failed.
FailedState == "failed"

\* Steps of a draft: an independent critique, and a repair of what it found.
NextLetterStep(class) ==
  CASE class = "packet_drafting" -> {"independent_critique"}
    [] class = "independent_critique" -> {"repairs"}
    [] OTHER -> {}

\* The answer is used: the next step of a draft needs a request left, and a
\* route for its own class.
FinishCompleted(c) ==
  /\ runner[c].pc = "posted"
  /\ reservations' = [reservations EXCEPT ![runner[c].id].state = "completed"]
  /\ \/ Returned(c)
     \/ /\ KindOf[c] = "letter" /\ runner[c].left > 0
        /\ \E class \in NextLetterStep(runner[c].class) : \E pc \in After(class) :
             runner' = [runner EXCEPT ![c] =
               [IdleRunner EXCEPT !.pc = pc, !.class = class, !.left = runner[c].left]]
  /\ UNCHANGED <<hour, route, wired>>

\* No answer, one that proves nothing, or a 429, which the same transaction
\* records for the route.
FinishFailed(c) ==
  /\ runner[c].pc \in {"sent", "posted"}
  /\ reservations' = [reservations EXCEPT ![runner[c].id].state = FailedState]
  /\ \E limited \in BOOLEAN :
       /\ route' = IF limited THEN Unavailable("rate_limited", hour + Backoff) ELSE route
       /\ IF KindOf[c] = "triage" THEN At(c, IF limited THEN "limited" ELSE "failed")
          ELSE Returned(c)
  /\ UNCHANGED <<hour, wired>>

\* The catch block of assess, in a transaction of its own.
TriagePaused(c) ==
  /\ runner[c].pc \in {"limited", "failed"}
  /\ route' = IF runner[c].pc = "limited" THEN Unavailable("rate_limited", hour + Backoff)
              ELSE Unavailable("paused", 0)
  /\ Returned(c)
  /\ UNCHANGED <<hour, reservations, wired>>

RunnerStops(c) ==
  /\ runner[c].pc # "idle" /\ Returned(c)
  /\ UNCHANGED <<hour, route, reservations, wired>>

HourPasses ==
  /\ hour < MaxHour /\ hour' = hour + 1
  /\ UNCHANGED <<route, reservations, runner, wired>>

-----------------------------------------------------------------------------
InferenceInit ==
  /\ hour = 0
  /\ route = [status |-> "unconfigured", model |-> "none", class |-> "none",
              backoff |-> 0]
  /\ reservations = << >> /\ wired = {}
  /\ runner = [c \in Runners |-> IdleRunner]

RunnerStep(c) ==
  \/ StartRunner(c) \/ CatalogueRead(c) \/ ChooseModel(c)
  \/ Reserve(c) \/ NotReserved(c) \/ MarkSent(c) \/ NotSent(c) \/ Post(c)
  \/ FinishCompleted(c) \/ FinishFailed(c) \/ TriagePaused(c) \/ RunnerStops(c)

InferenceNext == HourPasses \/ \E c \in Runners : RunnerStep(c)

InferenceSpec == InferenceInit /\ [][InferenceNext]_inferenceVars

-----------------------------------------------------------------------------
(* Properties                                                               *)

InferenceTypeOK ==
  /\ hour \in 0 .. MaxHour
  /\ route.status \in {"unconfigured", "ready", "paused", "rate_limited"}
  /\ route.model \in Models <=> route.status = "ready"
  /\ \A id \in ReservationIds :
       /\ reservations[id].state \in {"reserved", "sent", "completed", "failed", "released"}
       /\ reservations[id].class \in Classes
  /\ \A c \in Runners : runner[c].id \in {0} \cup ReservationIds
  /\ wired \subseteq ReservationIds

\* However callers of several processes interleave, die or come late to a
\* reservation that has been released, the requests sent against the
\* reservations of one day stay within that day's quota, the share nothing may
\* spend and the allocation of each class.
WireWithinQuota ==
  \A d \in 0 .. Day(MaxHour) :
    LET today == {id \in wired : Day(reservations[id].made) = d} IN
    /\ Cardinality(today) <= DailyLimit - Protected
    /\ \A class \in Classes :
         Cardinality({id \in today : reservations[id].class = class}) <= ClassLimit[class]

=============================================================================
