--------------------------- MODULE ServicesProofs ----------------------------
(***************************************************************************)
(* What is proved of components that share no state with the submission    *)
(* protocol, each for every value of its constants.                        *)
(***************************************************************************)
EXTENDS Inference, Recovery, Discovery, Experiments, Forms, PreparationGraph,
        SequenceTheorems, FiniteSetTheorems, WellFoundedInduction, TLAPS

\* A set of natural numbers has a least one.
LEMMA LeastNumber ==
  ASSUME NEW T \in SUBSET Nat, T # {}
  PROVE  \E m \in T : \A n \in T : m <= n
<1> DEFINE Less == {p \in Nat \X Nat : p[1] < p[2]}
<1>1. IsWellFoundedOn(Less, Nat)
  BY NatLessThanWellFounded DEF OpToRel
<1>2. PICK m \in T : \A n \in T : ~(<<n, m>> \in Less)
  BY <1>1, WFMin
<1>3. \A n \in T : ~(n < m)
  BY <1>2
<1> QED
  BY <1>3

-----------------------------------------------------------------------------
(* Inference: the quota of a day                                            *)

Spent == {"sent", "completed", "failed"}
Reservation == [state : Spent \cup {"reserved", "released"}, made : Nat, class : Classes]
RunnerRow ==
  [pc : {"idle", "catalogue", "routed", "chosen", "reserved", "sent", "posted", "limited",
         "failed"},
   class : Classes \cup {"none"}, model : Models \cup {"none"}, id : Nat, left : Int]
RouteRow ==
  [status : {"unconfigured", "ready", "paused", "rate_limited"},
   model : Models \cup {"none"}, class : Classes \cup {"none"}, backoff : Nat]

\* Reservations are numbered as they are made.
LedgerTyped ==
  /\ hour \in Nat /\ route \in RouteRow
  /\ IsFiniteSet(ReservationIds) /\ ReservationIds = 1 .. Cardinality(ReservationIds)
  /\ reservations \in [ReservationIds -> Reservation]

\* A runner that sent its request has a reservation that is spent for good, as has
\* every request on the wire: only what was not sent is ever released.
RunnersTyped ==
  /\ runner \in [Runners -> RunnerRow]
  /\ \A c \in Runners :
       /\ runner[c].pc # "idle" => runner[c].class \in Classes
       /\ runner[c].pc \in {"reserved", "sent", "posted"} => runner[c].id \in ReservationIds
       /\ runner[c].pc \in {"sent", "posted"} => reservations[runner[c].id].state \in Spent

WiredSpent ==
  \A id \in wired : id \in ReservationIds /\ reservations[id].state \in Spent

\* What a day's quota has been taken by.
CountedOn(d) ==
  {id \in ReservationIds : Day(reservations[id].made) = d /\ reservations[id].state # "released"}
CountedFor(d, class) == {id \in CountedOn(d) : reservations[id].class = class}

QuotaKept ==
  \A d \in Nat :
    /\ Cardinality(CountedOn(d)) <= DailyLimit - Protected
    /\ \A class \in Classes : Cardinality(CountedFor(d, class)) <= ClassLimit[class]

InferenceInv == LedgerTyped /\ RunnersTyped /\ WiredSpent /\ QuotaKept

LEMMA CountedFinite ==
  ASSUME LedgerTyped, NEW d
  PROVE  /\ IsFiniteSet(CountedOn(d)) /\ Cardinality(CountedOn(d)) \in Nat
         /\ \A class \in Classes : /\ IsFiniteSet(CountedFor(d, class))
                                   /\ Cardinality(CountedFor(d, class)) \in Nat
<1>1. CountedOn(d) \in SUBSET ReservationIds
      /\ \A class \in Classes : CountedFor(d, class) \in SUBSET ReservationIds
  BY DEF CountedOn, CountedFor
<1> QED
  BY <1>1, FS_Subset, FS_CardinalityType DEF LedgerTyped

\* Quotas are kept by whatever takes nothing more from them.
LEMMA QuotaShrinks ==
  ASSUME LedgerTyped, QuotaKept, LedgerTyped',
         \A id \in ReservationIds' :
           /\ id \in ReservationIds
           /\ reservations'[id].made = reservations[id].made
           /\ reservations'[id].class = reservations[id].class
           /\ reservations[id].state = "released" => reservations'[id].state = "released"
  PROVE  QuotaKept'
<1> SUFFICES ASSUME NEW d \in Nat
             PROVE  /\ Cardinality(CountedOn(d)') <= DailyLimit - Protected
                    /\ \A class \in Classes :
                         Cardinality(CountedFor(d, class)') <= ClassLimit[class]
  BY DEF QuotaKept
<1>1. CountedOn(d)' \in SUBSET CountedOn(d)
      /\ \A class \in Classes : CountedFor(d, class)' \in SUBSET CountedFor(d, class)
  BY DEF CountedOn, CountedFor, Day
<1>2. /\ IsFiniteSet(CountedOn(d)) /\ \A class \in Classes : IsFiniteSet(CountedFor(d, class))
  BY CountedFinite
<1>3. /\ Cardinality(CountedOn(d)') <= Cardinality(CountedOn(d))
      /\ \A class \in Classes :
           Cardinality(CountedFor(d, class)') <= Cardinality(CountedFor(d, class))
  BY <1>1, <1>2, FS_Subset
<1>4. /\ Cardinality(CountedOn(d)) \in Nat /\ Cardinality(CountedOn(d)') \in Nat
      /\ \A class \in Classes : /\ Cardinality(CountedFor(d, class)) \in Nat
                                /\ Cardinality(CountedFor(d, class)') \in Nat
                                /\ ClassLimit[class] \in Nat
  <2>1. ASSUME NEW class \in Classes
        PROVE  /\ Cardinality(CountedFor(d, class)) \in Nat
               /\ Cardinality(CountedFor(d, class)') \in Nat
    BY <1>1, <1>2, FS_Subset, FS_CardinalityType
  <2>2. Cardinality(CountedOn(d)) \in Nat /\ Cardinality(CountedOn(d)') \in Nat
    BY <1>1, <1>2, FS_Subset, FS_CardinalityType
  <2> QED
    BY <2>1, <2>2, InferenceAssumption
<1>5. DailyLimit - Protected \in Nat
  BY InferenceAssumption
<1> QED
  BY <1>3, <1>4, <1>5 DEF QuotaKept

\* A new reservation finds the quota of its day, and that of its class, not spent:
\* what still counts, stale ones aside, is Held, and no other day is touched.
LEMMA QuotaReserved ==
  ASSUME InferenceInv, LedgerTyped', NEW c \in Runners, Reserve(c)
  PROVE  QuotaKept'
<1> DEFINE next == Cardinality(ReservationIds) + 1
           class == runner[c].class
           today == UNION {Held(k) : k \in Classes}
<1>1. LedgerTyped /\ RunnersTyped /\ QuotaKept
  BY DEF InferenceInv
<1>2. class \in Classes /\ class # "unallocated_reserve" /\ hour' = hour
  BY <1>1, InferenceAssumption DEF Reserve, RunnersTyped
<1>3. /\ Cardinality(today) < DailyLimit - Protected
      /\ Cardinality(Held(class)) < ClassLimit[class]
  BY <1>2 DEF Reserve, WithinQuota
<1>4. /\ reservations' = [id \in ReservationIds \cup {next} |->
                            IF id = next
                            THEN [state |-> "reserved", made |-> hour, class |-> class]
                            ELSE Released(id)]
      /\ ReservationIds' = ReservationIds \cup {next}
  <2>1. reservations' = [id \in ReservationIds \cup {next} |->
                           IF id = next
                           THEN [state |-> "reserved", made |-> hour, class |-> class]
                           ELSE Released(id)]
    BY DEF Reserve
  <2> QED
    BY <2>1 DEF ReservationIds
<1>5. next \notin ReservationIds
  BY <1>1, FS_CardinalityType DEF LedgerTyped
<1> HIDE DEF next, class
<1>6. /\ reservations'[next] = [state |-> "reserved", made |-> hour, class |-> class]
      /\ \A id \in ReservationIds : reservations'[id] = Released(id)
  BY <1>4, <1>5
<1>7. \A id \in ReservationIds :
        /\ reservations'[id].made = reservations[id].made
        /\ reservations'[id].class = reservations[id].class /\ reservations[id].class \in Classes
        /\ reservations[id].state = "released" => reservations'[id].state = "released"
        /\ OfToday(id) /\ reservations'[id].state # "released" =>
             id \in Held(reservations[id].class)
  BY <1>1, <1>6 DEF Released, Held, LedgerTyped, Reservation
<1> SUFFICES ASSUME NEW d \in Nat
             PROVE  /\ Cardinality(CountedOn(d)') <= DailyLimit - Protected
                    /\ \A k \in Classes : Cardinality(CountedFor(d, k)') <= ClassLimit[k]
  BY DEF QuotaKept
<1>8. /\ IsFiniteSet(today) /\ IsFiniteSet(Held(class))
      /\ Cardinality(today) \in Nat /\ Cardinality(Held(class)) \in Nat
  <2>1. today \in SUBSET ReservationIds /\ Held(class) \in SUBSET ReservationIds
    BY DEF Held
  <2> QED
    BY <1>1, <2>1, FS_Subset, FS_CardinalityType DEF LedgerTyped
<1>9. /\ IsFiniteSet(today \cup {next}) /\ Cardinality(today \cup {next}) <= DailyLimit - Protected
      /\ IsFiniteSet(Held(class) \cup {next})
      /\ Cardinality(Held(class) \cup {next}) <= ClassLimit[class]
  <2>1. today \in SUBSET ReservationIds /\ Held(class) \in SUBSET ReservationIds
    BY DEF Held
  <2>2. next \notin today /\ next \notin Held(class)
    BY <1>5, <2>1
  <2>3. DailyLimit - Protected \in Nat /\ ClassLimit[class] \in Nat
    BY <1>2, InferenceAssumption
  <2> HIDE DEF today
  <2>4. /\ IsFiniteSet(today \cup {next})
        /\ Cardinality(today \cup {next}) = Cardinality(today) + 1
    BY <1>8, <2>2, FS_AddElement
  <2>5. /\ IsFiniteSet(Held(class) \cup {next})
        /\ Cardinality(Held(class) \cup {next}) = Cardinality(Held(class)) + 1
    BY <1>8, <2>2, FS_AddElement
  <2> QED
    BY <1>3, <1>8, <2>3, <2>4, <2>5
<1>10. /\ Cardinality(CountedOn(d)) <= DailyLimit - Protected
       /\ \A k \in Classes : Cardinality(CountedFor(d, k)) <= ClassLimit[k]
  BY <1>1 DEF QuotaKept
<1>11. /\ IsFiniteSet(CountedOn(d)) /\ \A k \in Classes : IsFiniteSet(CountedFor(d, k))
  BY <1>1, CountedFinite
<1>12. /\ IsFiniteSet(CountedOn(d)') /\ Cardinality(CountedOn(d)') \in Nat
       /\ Cardinality(CountedOn(d)) \in Nat
  <2>1. CountedOn(d)' \in SUBSET ReservationIds'
    BY DEF CountedOn
  <2>2. IsFiniteSet(ReservationIds')
    BY DEF LedgerTyped
  <2> QED
    BY <1>11, <2>1, <2>2, FS_Subset, FS_CardinalityType
<1>13. CountedOn(d)' \subseteq IF d = Day(hour) THEN today \cup {next} ELSE CountedOn(d)
  BY <1>2, <1>4, <1>6, <1>7 DEF CountedOn, Day, OfToday
<1>14. ASSUME NEW k \in Classes
       PROVE  CountedFor(d, k)' \subseteq IF d = Day(hour) /\ k = class THEN Held(class) \cup {next}
                                          ELSE CountedFor(d, k)
  BY <1>2, <1>4, <1>6, <1>7 DEF CountedOn, CountedFor, Day, OfToday
<1>15. Cardinality(CountedOn(d)') <= DailyLimit - Protected
  <2>1. DailyLimit - Protected \in Nat
    BY InferenceAssumption
  <2> HIDE DEF today
  <2> QED
    BY <1>9, <1>10, <1>11, <1>12, <1>13, <2>1, FS_Subset, FS_CardinalityType
<1>16. ASSUME NEW k \in Classes
       PROVE  Cardinality(CountedFor(d, k)') <= ClassLimit[k]
  <2>1. ClassLimit[k] \in Nat /\ ClassLimit[class] \in Nat
    BY <1>2, InferenceAssumption
  <2>2. IsFiniteSet(CountedFor(d, k)) /\ IsFiniteSet(Held(class) \cup {next})
    BY <1>9, <1>11
  <2>3. CASE d = Day(hour) /\ k = class
    <3>1. CountedFor(d, k)' \in SUBSET (Held(class) \cup {next})
      BY <1>14, <2>3
    <3>2. Cardinality(CountedFor(d, k)') <= Cardinality(Held(class) \cup {next})
          /\ IsFiniteSet(CountedFor(d, k)')
      BY <2>2, <3>1, FS_Subset
    <3> QED
      BY <1>9, <2>1, <2>2, <2>3, <3>2, FS_CardinalityType
  <2>4. CASE ~(d = Day(hour) /\ k = class)
    <3>1. CountedFor(d, k)' \in SUBSET CountedFor(d, k)
      BY <1>14, <2>4
    <3>2. Cardinality(CountedFor(d, k)') <= Cardinality(CountedFor(d, k))
          /\ IsFiniteSet(CountedFor(d, k)')
      BY <2>2, <3>1, FS_Subset
    <3> QED
      BY <1>10, <2>1, <2>2, <3>2, FS_CardinalityType
  <2> QED
    BY <2>3, <2>4
<1> QED
  BY <1>15, <1>16

LEMMA InferenceInitially == InferenceInit => InferenceInv
<1> SUFFICES ASSUME InferenceInit
             PROVE  InferenceInv
  OBVIOUS
<1>1. ReservationIds = {} /\ wired = {} /\ reservations = << >>
  BY DEF InferenceInit, ReservationIds
<1>2. Cardinality({}) = 0 /\ IsFiniteSet({})
  BY FS_EmptySet
<1>3. LedgerTyped
  BY <1>1, <1>2 DEF LedgerTyped, InferenceInit, RouteRow
<1>4. RunnersTyped /\ WiredSpent
  BY <1>1 DEF RunnersTyped, WiredSpent, InferenceInit, IdleRunner, RunnerRow
<1>5. QuotaKept
  <2>1. \A d : CountedOn(d) = {} /\ \A class \in Classes : CountedFor(d, class) = {}
    BY <1>1 DEF CountedOn, CountedFor
  <2> QED
    BY <1>2, <2>1, InferenceAssumption DEF QuotaKept
<1> QED
  BY <1>3, <1>4, <1>5 DEF InferenceInv

\* A row that changes its state, and is released only if it was not spent.
LEMMA LedgerRow ==
  ASSUME InferenceInv, NEW id \in ReservationIds, NEW state \in Spent \cup {"reserved", "released"},
         reservations' = [reservations EXCEPT ![id].state = state], UNCHANGED hour,
         route' \in RouteRow, state # "released" => reservations[id].state # "released",
         reservations[id].state \in Spent => state \in Spent
  PROVE  /\ LedgerTyped' /\ QuotaKept' /\ ReservationIds' = ReservationIds
         /\ reservations'[id].state = state
         /\ \A other \in ReservationIds :
              reservations[other].state \in Spent => reservations'[other].state \in Spent
<1>1. LedgerTyped /\ QuotaKept
  BY DEF InferenceInv
<1>2. ReservationIds' = ReservationIds
  BY <1>1 DEF LedgerTyped, ReservationIds
<1>3. \A other \in ReservationIds :
        /\ reservations'[other] \in Reservation
        /\ reservations'[other].made = reservations[other].made
        /\ reservations'[other].class = reservations[other].class
        /\ reservations'[other].state = IF other = id THEN state ELSE reservations[other].state
  BY <1>1 DEF LedgerTyped, Reservation
<1>4. LedgerTyped'
  <2>1. reservations' \in [ReservationIds -> Reservation]
    BY <1>1, <1>3 DEF LedgerTyped
  <2> QED
    BY <1>1, <1>2, <2>1 DEF LedgerTyped
<1>5. QuotaKept'
  BY <1>1, <1>2, <1>3, <1>4, QuotaShrinks
<1> QED
  BY <1>2, <1>3, <1>4, <1>5

\* A step that leaves the ledger alone.
LEMMA LedgerStands ==
  ASSUME InferenceInv, UNCHANGED <<reservations, wired>>, hour' \in Nat, route' \in RouteRow,
         NEW c \in Runners, NEW row \in RunnerRow,
         runner' = runner \/ runner' = [runner EXCEPT ![c] = row],
         row.pc # "idle" => row.class \in Classes,
         row.pc \notin {"reserved", "sent", "posted"}
  PROVE  InferenceInv'
<1>1. LedgerTyped /\ RunnersTyped /\ WiredSpent /\ QuotaKept
  BY DEF InferenceInv
<1>2. ReservationIds' = ReservationIds
  BY DEF ReservationIds
<1>3. LedgerTyped' /\ WiredSpent'
  BY <1>1, <1>2 DEF LedgerTyped, WiredSpent
<1>4. RunnersTyped'
  BY <1>1, <1>2 DEF RunnersTyped
<1>5. QuotaKept'
  BY <1>1, <1>2, <1>3, QuotaShrinks
<1> QED
  BY <1>3, <1>4, <1>5 DEF InferenceInv

LEMMA RouteSteps ==
  ASSUME InferenceInv, NEW c \in Runners,
         StartRunner(c) \/ CatalogueRead(c) \/ ChooseModel(c) \/ NotReserved(c)
           \/ TriagePaused(c) \/ RunnerStops(c)
  PROVE  InferenceInv'
<1> DEFINE row == runner[c]
<1>1. /\ row \in RunnerRow /\ runner \in [Runners -> RunnerRow]
      /\ row.pc # "idle" => row.class \in Classes
  BY DEF InferenceInv, RunnersTyped
<1>2. /\ hour \in Nat /\ hour + Backoff \in Nat /\ route \in RouteRow
      /\ ReviewRequests \in Int
  BY InferenceAssumption DEF InferenceInv, LedgerTyped
<1>3. IdleRunner \in RunnerRow /\ IdleRunner.pc = "idle"
  BY DEF IdleRunner, RunnerRow
<1>4. \A pc \in {"routed", "limited", "failed", "catalogue", "chosen"},
         model \in Models \cup {"none"} :
        /\ [row EXCEPT !.pc = pc] \in RunnerRow /\ [row EXCEPT !.pc = pc].pc = pc
        /\ [row EXCEPT !.pc = pc].class = row.class
        /\ [row EXCEPT !.pc = pc, !.model = model] \in RunnerRow
        /\ [row EXCEPT !.pc = pc, !.model = model].pc = pc
        /\ [row EXCEPT !.pc = pc, !.model = model].class = row.class
  BY <1>1 DEF RunnerRow
<1>5. \A status \in {"paused", "rate_limited"}, until \in Nat : Unavailable(status, until) \in RouteRow
  BY <1>2 DEF Unavailable, RouteRow
<1>6. CASE StartRunner(c)
  <2>1. PICK class \in Classes, pc \in {"routed", "catalogue"} :
          runner' = [runner EXCEPT ![c] =
            [IdleRunner EXCEPT !.pc = pc, !.class = class, !.left = ReviewRequests]]
    BY <1>6 DEF StartRunner, After
  <2> DEFINE new == [IdleRunner EXCEPT !.pc = pc, !.class = class, !.left = ReviewRequests]
  <2>3. new \in RunnerRow /\ new.pc = pc /\ new.class = class
    BY <1>2 DEF IdleRunner, RunnerRow
  <2> HIDE DEF new
  <2>4. UNCHANGED <<hour, route, reservations, wired>>
    BY <1>6 DEF StartRunner
  <2> QED
    BY <1>2, <2>1, <2>3, <2>4, LedgerStands DEF new
<1>7. CASE CatalogueRead(c)
  <2>1. row.class \in Classes /\ UNCHANGED <<hour, reservations, wired>>
    BY <1>1, <1>7 DEF CatalogueRead
  <2>2. route' \in RouteRow
    <3>1. \A m \in Models : Ready(m, row.class) \in RouteRow
      BY <2>1 DEF Ready, RouteRow
    <3>2. [Ready("none", row.class) EXCEPT !.status = "paused"] \in RouteRow
      BY <2>1 DEF Ready, RouteRow
    <3> QED
      BY <1>2, <1>5, <1>7, <3>1, <3>2 DEF CatalogueRead
  <2>3. runner' = [runner EXCEPT ![c] = [row EXCEPT !.pc = "routed"]]
    BY <1>7 DEF CatalogueRead, At
  <2> QED
    BY <1>2, <1>4, <2>1, <2>2, <2>3, LedgerStands
<1>8. CASE ChooseModel(c)
  <2>1. row.class \in Classes /\ UNCHANGED <<hour, reservations, wired, route>>
    BY <1>1, <1>8 DEF ChooseModel
  <2>2. \/ runner' = [runner EXCEPT ![c] = [row EXCEPT !.pc = "chosen", !.model = route.model]]
        \/ runner' = [runner EXCEPT ![c] = IdleRunner]
    BY <1>8 DEF ChooseModel, Returned
  <2>3. route.model \in Models \cup {"none"}
    BY <1>2 DEF RouteRow
  <2>4. ASSUME NEW new \in RunnerRow, runner' = [runner EXCEPT ![c] = new],
               (new.class = row.class /\ new.pc = "chosen") \/ new.pc = "idle"
        PROVE  InferenceInv'
    BY <1>2, <2>1, <2>4, LedgerStands
  <2> HIDE DEF row
  <2> QED
    BY <1>3, <1>4, <2>2, <2>3, <2>4
<1>9. CASE NotReserved(c)
  <2>1. row.class \in Classes /\ UNCHANGED <<hour, reservations, wired, route>>
    BY <1>1, <1>9 DEF NotReserved
  <2>2. \/ runner' = [runner EXCEPT ![c] = [row EXCEPT !.pc = "limited"]]
        \/ runner' = [runner EXCEPT ![c] = [row EXCEPT !.pc = "failed"]]
        \/ runner' = [runner EXCEPT ![c] = IdleRunner]
    BY <1>9 DEF NotReserved, Returned, At
  <2>3. ASSUME NEW new \in RunnerRow, runner' = [runner EXCEPT ![c] = new],
               (new.class = row.class /\ new.pc \in {"limited", "failed"}) \/ new.pc = "idle"
        PROVE  InferenceInv'
    BY <1>2, <2>1, <2>3, LedgerStands
  <2> HIDE DEF row
  <2> QED
    BY <1>3, <1>4, <2>2, <2>3
<1>10. CASE TriagePaused(c) \/ RunnerStops(c)
  <2>1. UNCHANGED <<hour, reservations, wired>> /\ runner' = [runner EXCEPT ![c] = IdleRunner]
    BY <1>10 DEF TriagePaused, RunnerStops, Returned
  <2>2. route' \in RouteRow
    BY <1>2, <1>5, <1>10 DEF TriagePaused, RunnerStops
  <2> QED
    BY <1>2, <1>3, <2>1, <2>2, LedgerStands
<1> QED
  BY <1>6, <1>7, <1>8, <1>9, <1>10

LEMMA ReserveStep ==
  ASSUME InferenceInv, NEW c \in Runners, Reserve(c)
  PROVE  InferenceInv'
<1> DEFINE next == Cardinality(ReservationIds) + 1
           class == runner[c].class
           row == [runner[c] EXCEPT !.pc = "reserved", !.id = next]
<1>1. LedgerTyped /\ RunnersTyped /\ WiredSpent
  BY DEF InferenceInv
<1>2. class \in Classes /\ UNCHANGED <<hour, route, wired>> /\ hour \in Nat
  BY <1>1 DEF Reserve, RunnersTyped, LedgerTyped
<1>3. Cardinality(ReservationIds) \in Nat /\ next \in Nat /\ next \notin ReservationIds
  BY <1>1, FS_CardinalityType DEF LedgerTyped
<1>4. reservations' = [id \in ReservationIds \cup {next} |->
                         IF id = next
                         THEN [state |-> "reserved", made |-> hour, class |-> class]
                         ELSE Released(id)]
  BY DEF Reserve
<1>5. runner' = [runner EXCEPT ![c] = row]
  BY DEF Reserve
<1>6. row \in RunnerRow /\ row.pc = "reserved" /\ row.id = next /\ row.class = class
  BY <1>1, <1>3 DEF RunnersTyped, RunnerRow
<1> HIDE DEF next, class, row
<1>7. ReservationIds' = ReservationIds \cup {next}
  BY <1>4 DEF ReservationIds
<1>8. \A id \in ReservationIds :
        /\ Released(id) \in Reservation
        /\ reservations'[id] = Released(id)
        /\ reservations[id].state \in Spent => reservations'[id].state \in Spent
  BY <1>1, <1>3, <1>4 DEF LedgerTyped, Released, Reservation, Spent
<1>9. LedgerTyped'
  <2>1. reservations' \in [ReservationIds' -> Reservation]
    BY <1>2, <1>4, <1>7, <1>8 DEF Reservation
  <2>2. ReservationIds' = 1 .. next
    BY <1>1, <1>3, <1>7 DEF LedgerTyped, next
  <2>3. IsFiniteSet(1 .. next) /\ Cardinality(1 .. next) = next
    BY <1>3, FS_Interval
  <2> QED
    BY <1>1, <1>2, <2>1, <2>2, <2>3 DEF LedgerTyped
<1>10. RunnersTyped'
  BY <1>1, <1>2, <1>5, <1>6, <1>7, <1>8 DEF RunnersTyped
<1>11. WiredSpent'
  BY <1>1, <1>2, <1>7, <1>8 DEF WiredSpent
<1> QED
  BY <1>9, <1>10, <1>11, QuotaReserved DEF InferenceInv

\* A runner that has reserved: it sends, gives up, or learns what came of it.
LEMMA LedgerSteps ==
  ASSUME InferenceInv, NEW c \in Runners,
         MarkSent(c) \/ NotSent(c) \/ Post(c) \/ FinishCompleted(c) \/ FinishFailed(c)
  PROVE  InferenceInv'
<1> DEFINE row == runner[c]
           id == runner[c].id
<1>1. LedgerTyped /\ RunnersTyped /\ WiredSpent /\ QuotaKept
  BY DEF InferenceInv
<1>2. /\ row \in RunnerRow /\ runner \in [Runners -> RunnerRow] /\ row.class \in Classes
      /\ id \in ReservationIds /\ row.pc \in {"reserved", "sent", "posted"}
      /\ row.pc \in {"sent", "posted"} => reservations[id].state \in Spent
      /\ reservations[id].state \in Spent \cup {"reserved", "released"}
  <2>1. row.pc \in {"reserved", "sent", "posted"}
    BY DEF MarkSent, NotSent, Post, FinishCompleted, FinishFailed
  <2>2. id \in ReservationIds
    BY <1>1, <2>1 DEF RunnersTyped
  <2> QED
    BY <1>1, <2>1, <2>2 DEF RunnersTyped, LedgerTyped, Reservation
<1>3. route \in RouteRow /\ hour \in Nat
  BY <1>1 DEF LedgerTyped
<1>4. IdleRunner \in RunnerRow /\ IdleRunner.pc = "idle"
  BY DEF IdleRunner, RunnerRow
<1> HIDE DEF row, id
\* The ledger's part and the runner's, put together.
<1>5. ASSUME NEW state \in Spent \cup {"reserved", "released"}, NEW new \in RunnerRow,
             reservations' = [reservations EXCEPT ![id].state = state],
             runner' = [runner EXCEPT ![c] = new], UNCHANGED <<hour, wired>>,
             route' \in RouteRow, state # "released" => reservations[id].state # "released",
             reservations[id].state \in Spent => state \in Spent,
             new.pc # "idle" => new.class \in Classes,
             new.pc \in {"reserved", "sent", "posted"} => new.id = id,
             new.pc \in {"sent", "posted"} => state \in Spent
      PROVE  InferenceInv'
  <2>1. /\ LedgerTyped' /\ QuotaKept' /\ ReservationIds' = ReservationIds
        /\ reservations'[id].state = state
        /\ \A other \in ReservationIds :
             reservations[other].state \in Spent => reservations'[other].state \in Spent
    BY <1>2, <1>5, LedgerRow
  <2>2. RunnersTyped'
    BY <1>1, <1>2, <1>5, <2>1 DEF RunnersTyped
  <2>3. WiredSpent'
    BY <1>1, <1>5, <2>1 DEF WiredSpent
  <2> QED
    BY <2>1, <2>2, <2>3 DEF InferenceInv
<1>6. CASE MarkSent(c)
  <2> DEFINE new == [row EXCEPT !.pc = "sent", !.left = @ - 1]
  <2>1. /\ reservations[id].state = "reserved" /\ UNCHANGED <<hour, wired, route>>
        /\ reservations' = [reservations EXCEPT ![id].state = "sent"]
        /\ runner' = [runner EXCEPT ![c] = new]
    BY <1>2, <1>6 DEF MarkSent, row, id
  <2>2. new \in RunnerRow /\ new.pc = "sent" /\ new.class = row.class /\ new.id = id
    <3>1. row.left - 1 \in Int
      BY <1>2 DEF RunnerRow
    <3>2. new = [row EXCEPT !.pc = "sent", !.left = row.left - 1]
      OBVIOUS
    <3>3. row.id = id
      BY DEF row, id
    <3> QED
      BY <1>2, <3>1, <3>2, <3>3 DEF RunnerRow
  <2> HIDE DEF new
  <2>3. "sent" \in Spent /\ "reserved" \notin Spent
    BY DEF Spent
  <2> QED
    BY <1>2, <1>3, <1>5, <2>1, <2>2, <2>3
<1>7. CASE NotSent(c)
  <2> DEFINE state == IF reservations[id].state = "reserved" THEN "released"
                      ELSE reservations[id].state
  <2>1. /\ UNCHANGED <<hour, wired, route>>
        /\ reservations' = [reservations EXCEPT ![id].state = state]
        /\ runner' = [runner EXCEPT ![c] = IdleRunner]
    BY <1>7 DEF NotSent, Returned, id
  <2>2. "reserved" \notin Spent
    BY DEF Spent
  <2>3. /\ state \in Spent \cup {"reserved", "released"}
        /\ state # "released" => reservations[id].state # "released"
        /\ reservations[id].state \in Spent => state \in Spent
    BY <1>2, <2>2
  <2> HIDE DEF state
  <2> QED
    BY <1>3, <1>4, <1>5, <2>1, <2>3
<1>8. CASE FinishCompleted(c)
  <2>1. /\ UNCHANGED <<hour, wired, route>>
        /\ reservations' = [reservations EXCEPT ![id].state = "completed"]
        /\ reservations[id].state \in Spent
    BY <1>2, <1>8 DEF FinishCompleted, id, row
  <2>2. "completed" \in Spent /\ "released" \notin Spent
    BY DEF Spent
  <2>3. PICK new \in RunnerRow : /\ runner' = [runner EXCEPT ![c] = new]
                                 /\ new.pc # "idle" => new.class \in Classes
                                 /\ new.pc \notin {"reserved", "sent", "posted"}
    <3>1. CASE Returned(c)
      BY <1>4, <3>1 DEF Returned
    <3>2. CASE ~Returned(c)
      <4>1. PICK class \in NextLetterStep(row.class), pc \in {"routed", "catalogue"} :
              runner' = [runner EXCEPT ![c] =
                [IdleRunner EXCEPT !.pc = pc, !.class = class, !.left = row.left]]
        BY <1>8, <3>2 DEF FinishCompleted, After, row
      <4>2. class \in Classes
        BY <4>1, InferenceAssumption DEF NextLetterStep
      <4>3. [IdleRunner EXCEPT !.pc = pc, !.class = class, !.left = row.left] \in RunnerRow
        BY <1>2, <4>2 DEF RunnerRow, IdleRunner
      <4> QED
        BY <4>1, <4>2, <4>3 DEF IdleRunner
    <3> QED
      BY <3>1, <3>2
  <2> QED
    BY <1>3, <1>5, <2>1, <2>2, <2>3
<1>9. CASE FinishFailed(c)
  <2>1. /\ UNCHANGED <<hour, wired>>
        /\ reservations' = [reservations EXCEPT ![id].state = "failed"]
        /\ reservations[id].state \in Spent
    BY <1>2, <1>9 DEF FinishFailed, FailedState, id, row
  <2>2. "failed" \in Spent /\ "released" \notin Spent
    BY DEF Spent
  <2>3. route' \in RouteRow
    <3>1. hour + Backoff \in Nat
      BY <1>3, InferenceAssumption
    <3>2. Unavailable("rate_limited", hour + Backoff) \in RouteRow
      BY <1>3, <3>1 DEF Unavailable, RouteRow
    <3> QED
      BY <1>3, <1>9, <3>2 DEF FinishFailed
  <2>4. PICK new \in RunnerRow : /\ runner' = [runner EXCEPT ![c] = new]
                                 /\ new.pc # "idle" => new.class \in Classes
                                 /\ new.pc \notin {"reserved", "sent", "posted"}
    <3>1. \/ runner' = [runner EXCEPT ![c] = IdleRunner]
          \/ runner' = [runner EXCEPT ![c] = [row EXCEPT !.pc = "limited"]]
          \/ runner' = [runner EXCEPT ![c] = [row EXCEPT !.pc = "failed"]]
      BY <1>9 DEF FinishFailed, At, Returned, row
    <3>2. \A pc \in {"limited", "failed"} :
            /\ [row EXCEPT !.pc = pc] \in RunnerRow /\ [row EXCEPT !.pc = pc].pc = pc
            /\ [row EXCEPT !.pc = pc].class = row.class
      BY <1>2 DEF RunnerRow
    <3> QED
      BY <1>2, <1>4, <3>1, <3>2
  <2> QED
    BY <1>5, <2>1, <2>2, <2>3, <2>4
<1>10. CASE Post(c)
  <2> DEFINE new == [row EXCEPT !.pc = "posted"]
  <2>1. /\ UNCHANGED <<hour, route, reservations>> /\ runner' = [runner EXCEPT ![c] = new]
        /\ wired' = wired \cup {id} /\ reservations[id].state \in Spent
    BY <1>2, <1>10 DEF Post, At, id, row
  <2>2. new \in RunnerRow /\ new.pc = "posted" /\ new.class = row.class /\ new.id = id
    BY <1>2 DEF RunnerRow, id, row
  <2> HIDE DEF new
  <2>3. ReservationIds' = ReservationIds
    BY <2>1 DEF ReservationIds
  <2>4. LedgerTyped' /\ WiredSpent'
    BY <1>1, <1>2, <2>1, <2>3 DEF LedgerTyped, WiredSpent
  <2>5. RunnersTyped'
    BY <1>1, <1>2, <2>1, <2>2, <2>3 DEF RunnersTyped
  <2>6. QuotaKept'
    BY <1>1, <2>1, <2>3, <2>4, QuotaShrinks
  <2> QED
    BY <2>4, <2>5, <2>6 DEF InferenceInv
<1> QED
  BY <1>6, <1>7, <1>8, <1>9, <1>10

LEMMA InferenceStep ==
  ASSUME InferenceInv, [InferenceNext]_inferenceVars
  PROVE  InferenceInv'
<1>1. ASSUME UNCHANGED <<route, reservations, runner, wired>>, hour' \in Nat
      PROVE  InferenceInv'
  <2>1. ReservationIds' = ReservationIds
    BY <1>1 DEF ReservationIds
  <2>2. LedgerTyped' /\ RunnersTyped' /\ WiredSpent'
    BY <1>1, <2>1 DEF InferenceInv, LedgerTyped, RunnersTyped, WiredSpent
  <2>3. QuotaKept'
    BY <1>1, <2>1, <2>2, QuotaShrinks DEF InferenceInv
  <2> QED
    BY <2>2, <2>3 DEF InferenceInv
<1>2. CASE HourPasses \/ UNCHANGED inferenceVars
  <2>1. hour \in Nat
    BY DEF InferenceInv, LedgerTyped
  <2> QED
    BY <1>1, <1>2, <2>1 DEF HourPasses, inferenceVars
<1>3. CASE \E c \in Runners : RunnerStep(c)
  BY <1>3, RouteSteps, ReserveStep, LedgerSteps DEF RunnerStep
<1> QED
  BY <1>2, <1>3 DEF InferenceNext

LEMMA WireIsCounted == InferenceInv => WireWithinQuota
<1> SUFFICES ASSUME InferenceInv, NEW d \in 0 .. Day(MaxHour)
             PROVE  LET today == {id \in wired : Day(reservations[id].made) = d} IN
                    /\ Cardinality(today) <= DailyLimit - Protected
                    /\ \A class \in Classes :
                         Cardinality({id \in today : reservations[id].class = class})
                           <= ClassLimit[class]
  BY DEF WireWithinQuota
<1> DEFINE today == {id \in wired : Day(reservations[id].made) = d}
           ofClass(class) == {id \in today : reservations[id].class = class}
<1>1. /\ today \in SUBSET CountedOn(d)
      /\ \A class \in Classes : ofClass(class) \in SUBSET CountedFor(d, class)
  BY DEF InferenceInv, WiredSpent, Spent, CountedOn, CountedFor
<1>2. d \in Nat /\ DailyLimit - Protected \in Nat /\ \A class \in Classes : ClassLimit[class] \in Nat
  BY InferenceAssumption
<1>3. /\ Cardinality(CountedOn(d)) <= DailyLimit - Protected
      /\ \A class \in Classes : Cardinality(CountedFor(d, class)) <= ClassLimit[class]
  BY <1>2 DEF InferenceInv, QuotaKept
<1>4. /\ IsFiniteSet(CountedOn(d)) /\ Cardinality(CountedOn(d)) \in Nat
      /\ \A class \in Classes : /\ IsFiniteSet(CountedFor(d, class))
                                /\ Cardinality(CountedFor(d, class)) \in Nat
  BY CountedFinite DEF InferenceInv
<1> HIDE DEF today, ofClass
<1>5. Cardinality(today) <= DailyLimit - Protected
  BY <1>1, <1>2, <1>3, <1>4, FS_Subset, FS_CardinalityType
<1>6. ASSUME NEW class \in Classes
      PROVE  Cardinality(ofClass(class)) <= ClassLimit[class]
  BY <1>1, <1>2, <1>3, <1>4, FS_Subset, FS_CardinalityType
<1> QED
  BY <1>5, <1>6 DEF today, ofClass

\* For any runners, models and limits, what is sent against the reservations of one day
\* stays within the day's quota, the share kept back, and each class's allocation.
THEOREM QuotaOnTheWire == InferenceSpec => []WireWithinQuota
<1>1. InferenceSpec => []InferenceInv
  BY InferenceInitially, InferenceStep, PTL DEF InferenceSpec
<1> QED
  BY <1>1, WireIsCounted, PTL

-----------------------------------------------------------------------------
(* Recovery: archives and restored directories                              *)

Installation ==
  [stopped : BOOLEAN, busy : BOOLEAN, blocked : BOOLEAN, rows : SUBSET Documents,
   key : VaultKeys]

\* Documents of a copy, each sealed under one of the keys.
Copies(keys) == UNION {[S -> keys] : S \in SUBSET Documents}

\* As long as no write has been committed, what was copied is what is installed: the
\* checks of one are checks of the other.
CaptureSound ==
  \/ capture \in {NoStaging, [at |-> "copy"]}
  \/ \E db \in Installation :
       capture = [at |-> "copied", db |-> db] /\ (~committed => db = installed)
  \/ \E db \in Installation : \E docs \in Copies({db.key}) :
       /\ capture = [at |-> "documents", db |-> db, docs |-> docs]
       /\ db.stopped /\ ~db.busy

ArchiveSound ==
  \/ archive = NoStaging
  \/ \E db \in Installation : \E docs \in Copies({db.key}) :
       /\ archive = [at |-> "archive", db |-> db, docs |-> docs]
       /\ DOMAIN docs = db.rows /\ db.stopped /\ ~db.busy

\* Documents are sealed under the new key one after the other, the secrets last.
RestoringSound ==
  \/ restoring = NoStaging
  \/ \E db \in Installation, key \in VaultKeys : \E docs \in Copies({db.key, key}) :
       /\ restoring = [at |-> "rekey", db |-> db, docs |-> docs, key |-> key]
       /\ DOMAIN docs = db.rows
  \/ \E at \in {"ready", "blocked"}, db \in Installation : \E docs \in Copies({db.key}) :
       /\ restoring = [at |-> at, db |-> db, docs |-> docs, key |-> db.key]
       /\ DOMAIN docs = db.rows /\ (at = "blocked" => db.blocked)

RestoredSound ==
  \/ restored = NoStaging
  \/ \E db \in Installation : \E docs \in Copies({db.key}) :
       /\ restored = [at |-> "data", db |-> db, docs |-> docs]
       /\ DOMAIN docs = db.rows /\ db.blocked

RecoveryInv ==
  /\ installed \in Installation /\ files \in [Documents -> VaultKeys \cup {"none", "plain"}]
  /\ committed \in BOOLEAN
  /\ CaptureSound /\ ArchiveSound /\ RestoringSound /\ RestoredSound

LEMMA RecoveryInitially == RecoveryInit => RecoveryInv
<1> SUFFICES ASSUME RecoveryInit
             PROVE  RecoveryInv
  OBVIOUS
<1>1. installed \in Installation
  BY RecoveryAssumption DEF RecoveryInit, Installation, VaultKeys
<1>2. files \in [Documents -> VaultKeys \cup {"none", "plain"}]
  BY DEF RecoveryInit
<1> QED
  BY <1>1, <1>2 DEF RecoveryInit, RecoveryInv, CaptureSound, ArchiveSound, RestoringSound,
                    RestoredSound

LEMMA RecoveryHolds == RecoveryInv => RecoveredIsWhole
<1> SUFFICES ASSUME RecoveryInv
             PROVE  RecoveredIsWhole
  OBVIOUS
<1>1. \A keys, docs : docs \in Copies(keys) => \A d \in DOMAIN docs : docs[d] \in keys
  BY DEF Copies
<1>2. ~NotStaged(archive) => /\ archive.db.stopped /\ ~archive.db.busy
                             /\ Whole(archive.db, archive.docs)
  <2> SUFFICES ASSUME archive # NoStaging
               PROVE  /\ archive.db.stopped /\ ~archive.db.busy
                      /\ Whole(archive.db, archive.docs)
    BY DEF NotStaged
  <2>1. PICK db \in Installation : \E docs \in Copies({db.key}) :
          /\ archive = [at |-> "archive", db |-> db, docs |-> docs]
          /\ DOMAIN docs = db.rows /\ db.stopped /\ ~db.busy
    BY DEF RecoveryInv, ArchiveSound
  <2>2. PICK docs \in Copies({db.key}) :
          /\ archive = [at |-> "archive", db |-> db, docs |-> docs]
          /\ DOMAIN docs = db.rows /\ db.stopped /\ ~db.busy
    BY <2>1
  <2>3. archive.db = db /\ archive.docs = docs
    BY <2>2
  <2> QED
    BY <1>1, <2>2, <2>3 DEF Whole, Opens
<1>3. ~NotStaged(restored) => restored.db.blocked /\ Whole(restored.db, restored.docs)
  <2> SUFFICES ASSUME restored # NoStaging
               PROVE  restored.db.blocked /\ Whole(restored.db, restored.docs)
    BY DEF NotStaged
  <2>1. PICK db \in Installation : \E docs \in Copies({db.key}) :
          /\ restored = [at |-> "data", db |-> db, docs |-> docs]
          /\ DOMAIN docs = db.rows /\ db.blocked
    BY DEF RecoveryInv, RestoredSound
  <2>2. PICK docs \in Copies({db.key}) :
          /\ restored = [at |-> "data", db |-> db, docs |-> docs]
          /\ DOMAIN docs = db.rows /\ db.blocked
    BY <2>1
  <2>3. restored.db = db /\ restored.docs = docs
    BY <2>2
  <2> QED
    BY <1>1, <2>2, <2>3 DEF Whole, Opens
<1> QED
  BY <1>2, <1>3 DEF RecoveredIsWhole

\* Steps of the running installation: whatever they write is committed.
LEMMA InstalledSteps ==
  ASSUME RecoveryInv, installed' \in Installation, committed' \in BOOLEAN,
         files' \in [Documents -> VaultKeys \cup {"none", "plain"}],
         UNCHANGED <<capture, archive, restoring, restored>>,
         (installed' = installed /\ (committed => committed')) \/ committed'
  PROVE  RecoveryInv'
  BY DEF RecoveryInv, CaptureSound, ArchiveSound, RestoringSound, RestoredSound

LEMMA RunningSteps ==
  ASSUME RecoveryInv,
         \/ LeaseWork \/ EndWork \/ ToggleStop \/ WorkersGone \/ StartMigration \/ EndMigration
         \/ \E d \in Documents : PutArtifact(d) \/ RegisterDocument(d) \/ SealFile(d)
         \/ CompleteReview
  PROVE  RecoveryInv'
<1>1. /\ installed \in Installation /\ installed.key \in VaultKeys /\ committed \in BOOLEAN
      /\ files \in [Documents -> VaultKeys \cup {"none", "plain"}]
  BY DEF RecoveryInv, Installation
<1>2. UNCHANGED <<capture, archive, restoring, restored>>
  BY DEF LeaseWork, EndWork, ToggleStop, WorkersGone, StartMigration, EndMigration,
     PutArtifact, RegisterDocument, SealFile, CompleteReview
<1>3. CASE LeaseWork \/ EndWork \/ ToggleStop \/ StartMigration \/ CompleteReview
  <2>1. /\ [installed EXCEPT !.busy = TRUE] \in Installation
        /\ [installed EXCEPT !.busy = FALSE] \in Installation
        /\ [installed EXCEPT !.stopped = TRUE] \in Installation
        /\ [installed EXCEPT !.stopped = ~@] \in Installation
        /\ [installed EXCEPT !.blocked = FALSE] \in Installation
    BY <1>1 DEF Installation
  <2>2. installed' \in Installation /\ committed' = TRUE /\ files' = files
    BY <1>3, <2>1 DEF LeaseWork, EndWork, ToggleStop, StartMigration, CompleteReview, Commit
  <2> QED
    BY <1>1, <1>2, <2>2, InstalledSteps
<1>4. CASE WorkersGone
  BY <1>1, <1>2, <1>4, InstalledSteps DEF WorkersGone
<1>5. CASE EndMigration
  <2>1. installed' = installed /\ files' = files /\ committed' = (committed \/ migration.left = {})
    BY <1>5 DEF EndMigration
  <2>2. committed' \in BOOLEAN /\ (committed => committed')
    BY <1>1, <2>1
  <2> QED
    BY <1>1, <1>2, <2>1, <2>2, InstalledSteps
<1>6. ASSUME NEW d \in Documents, PutArtifact(d) \/ SealFile(d)
      PROVE  RecoveryInv'
  <2>1. installed' = installed /\ committed' = committed
    BY <1>6 DEF PutArtifact, SealFile
  <2>2. files' \in [Documents -> VaultKeys \cup {"none", "plain"}]
    BY <1>1, <1>6 DEF PutArtifact, SealFile
  <2> QED
    BY <1>1, <1>2, <2>1, <2>2, InstalledSteps
<1>7. ASSUME NEW d \in Documents, RegisterDocument(d)
      PROVE  RecoveryInv'
  <2>1. [installed EXCEPT !.rows = @ \cup {d}] \in Installation
    BY <1>1 DEF Installation
  <2>2. installed' \in Installation /\ committed' = TRUE /\ files' = files
    BY <1>7, <2>1 DEF RegisterDocument, Commit
  <2> QED
    BY <1>1, <1>2, <2>2, InstalledSteps
<1> QED
  BY <1>3, <1>4, <1>5, <1>6, <1>7

\* A capture: the checks of what is installed hold of the copy, if nothing was written.
LEMMA CaptureSteps ==
  ASSUME RecoveryInv,
         \/ StartCapture \/ CopyDatabase \/ CheckCopy \/ FinishCapture \/ CaptureFails
         \/ \E d \in Documents : CopyDocument(d)
  PROVE  RecoveryInv'
<1>1. /\ installed \in Installation /\ files \in [Documents -> VaultKeys \cup {"none", "plain"}]
      /\ CaptureSound /\ ArchiveSound /\ RestoringSound /\ RestoredSound
  BY DEF RecoveryInv
<1>2. UNCHANGED <<installed, files, restoring, restored>> /\ committed' \in BOOLEAN
  BY DEF StartCapture, CopyDatabase, CheckCopy, CopyDocument, FinishCapture, CaptureFails,
         RecoveryInv
<1>3. RestoringSound' /\ RestoredSound'
  BY <1>1, <1>2 DEF RestoringSound, RestoredSound
<1>4. ASSUME CaptureSound', ArchiveSound'
      PROVE  RecoveryInv'
  BY <1>1, <1>2, <1>3, <1>4 DEF RecoveryInv
<1>5. CASE StartCapture \/ CopyDatabase \/ CaptureFails
  <2>1. ArchiveSound'
    BY <1>1, <1>5 DEF ArchiveSound, StartCapture, CopyDatabase, CaptureFails
  <2>2. CaptureSound'
    BY <1>1, <1>2, <1>5 DEF CaptureSound, StartCapture, CopyDatabase, CaptureFails
  <2> QED
    BY <1>4, <2>1, <2>2
<1>6. CASE CheckCopy
  <2>1. /\ capture.at = "copied" /\ ~committed /\ installed.stopped /\ ~installed.busy
        /\ capture' = [at |-> "documents", db |-> capture.db, docs |-> [x \in {} |-> "none"]]
        /\ archive' = archive
    BY <1>6 DEF CheckCopy, CopyChecked, Quiescent
  <2>2. capture.db = installed
    <3>1. capture \notin {NoStaging, [at |-> "copy"]}
      BY <2>1 DEF NoStaging
    <3>2. \A db, docs : capture # [at |-> "documents", db |-> db, docs |-> docs]
      BY <2>1
    <3>3. PICK db \in Installation :
            capture = [at |-> "copied", db |-> db] /\ (~committed => db = installed)
      BY <1>1, <3>1, <3>2 DEF CaptureSound
    <3> QED
      BY <2>1, <3>3
  <2>3. [x \in {} |-> "none"] \in Copies({installed.key})
    BY DEF Copies
  <2>4. CaptureSound'
    BY <1>1, <2>1, <2>2, <2>3 DEF CaptureSound
  <2> QED
    BY <1>1, <1>4, <2>1, <2>4 DEF ArchiveSound
<1>7. ASSUME capture.at = "documents"
      PROVE  \E db \in Installation : \E docs \in Copies({db.key}) :
               /\ capture = [at |-> "documents", db |-> db, docs |-> docs]
               /\ db.stopped /\ ~db.busy
  BY <1>1, <1>7 DEF CaptureSound, NoStaging
<1>8. ASSUME NEW d \in Documents, CopyDocument(d)
      PROVE  RecoveryInv'
  <2>1. PICK db \in Installation : \E docs \in Copies({db.key}) :
               /\ capture = [at |-> "documents", db |-> db, docs |-> docs]
               /\ db.stopped /\ ~db.busy
    BY <1>7, <1>8 DEF CopyDocument
  <2>2. PICK docs \in Copies({db.key}) :
               /\ capture = [at |-> "documents", db |-> db, docs |-> docs]
               /\ db.stopped /\ ~db.busy
    BY <2>1
  <2> DEFINE more == [x \in DOMAIN docs \cup {d} |-> IF x = d THEN files[d] ELSE docs[x]]
  <2>3. /\ capture' = [at |-> "documents", db |-> db, docs |-> more]
        /\ files[d] = db.key /\ archive' = archive
    BY <1>8, <2>2 DEF CopyDocument, Opens
  <2>4. more \in Copies({db.key})
    BY <2>3 DEF Copies
  <2> HIDE DEF more
  <2>5. CaptureSound'
    BY <2>2, <2>3, <2>4 DEF CaptureSound
  <2> QED
    BY <1>1, <1>4, <2>3, <2>5 DEF ArchiveSound
<1>9. CASE FinishCapture
  <2>1. PICK db \in Installation : \E docs \in Copies({db.key}) :
               /\ capture = [at |-> "documents", db |-> db, docs |-> docs]
               /\ db.stopped /\ ~db.busy
    BY <1>7, <1>9 DEF FinishCapture
  <2>2. PICK docs \in Copies({db.key}) :
               /\ capture = [at |-> "documents", db |-> db, docs |-> docs]
               /\ db.stopped /\ ~db.busy
    BY <2>1
  <2>3. /\ archive' = [at |-> "archive", db |-> db, docs |-> docs] /\ DOMAIN docs = db.rows
        /\ capture' = NoStaging
    BY <1>9, <2>2 DEF FinishCapture
  <2>4. ArchiveSound' /\ CaptureSound'
    BY <2>2, <2>3 DEF ArchiveSound, CaptureSound
  <2> QED
    BY <1>4, <2>4
<1> QED
  BY <1>5, <1>6, <1>8, <1>9

LEMMA RestoreSteps ==
  ASSUME RecoveryInv,
         \/ \E key \in VaultKeys : Extract(key)
         \/ \E d \in Documents : RekeyDocument(d)
         \/ RotateSecrets \/ BlockRestored \/ PublishRestored \/ RestoreFails \/ AdoptRestored
  PROVE  RecoveryInv'
<1>1. /\ installed \in Installation /\ files \in [Documents -> VaultKeys \cup {"none", "plain"}]
      /\ CaptureSound /\ ArchiveSound /\ RestoringSound /\ RestoredSound
  BY DEF RecoveryInv
<1>2. UNCHANGED <<capture, archive>>
  BY DEF Extract, RekeyDocument, RotateSecrets, BlockRestored, PublishRestored, RestoreFails,
         AdoptRestored
<1>3. ArchiveSound'
  BY <1>1, <1>2 DEF ArchiveSound
<1>4. ASSUME UNCHANGED <<installed, files, committed>>, RestoringSound', RestoredSound'
      PROVE  RecoveryInv'
  <2>1. CaptureSound'
    BY <1>1, <1>2, <1>4 DEF CaptureSound
  <2> QED
    BY <1>1, <1>3, <1>4, <2>1 DEF RecoveryInv
<1>5. ASSUME UNCHANGED <<installed, files, committed, restored>>, RestoringSound'
      PROVE  RecoveryInv'
  BY <1>1, <1>4, <1>5 DEF RestoredSound
<1>6. ASSUME NEW replacement \in VaultKeys, Extract(replacement)
      PROVE  RecoveryInv'
  <2>1. PICK db \in Installation : \E docs \in Copies({db.key}) :
          /\ archive = [at |-> "archive", db |-> db, docs |-> docs]
          /\ DOMAIN docs = db.rows
    BY <1>1, <1>6 DEF ArchiveSound, Extract, NotStaged
  <2>2. PICK docs \in Copies({db.key}) :
          /\ archive = [at |-> "archive", db |-> db, docs |-> docs]
          /\ DOMAIN docs = db.rows
    BY <2>1
  <2>3. /\ restoring' = [at |-> IF replacement = db.key THEN "ready" ELSE "rekey", db |-> db,
                         docs |-> docs, key |-> replacement]
        /\ UNCHANGED <<installed, files, committed, restored>>
    BY <1>6, <2>2 DEF Extract
  <2>4. docs \in Copies({db.key, replacement})
    BY <2>2 DEF Copies
  <2>5. CASE replacement = db.key
    BY <1>5, <2>2, <2>3, <2>5 DEF RestoringSound
  <2>6. CASE replacement # db.key
    BY <1>5, <2>2, <2>3, <2>4, <2>6 DEF RestoringSound
  <2> QED
    BY <2>5, <2>6
<1>7. ASSUME restoring.at = "rekey"
      PROVE  \E db \in Installation, key \in VaultKeys : \E docs \in Copies({db.key, key}) :
               /\ restoring = [at |-> "rekey", db |-> db, docs |-> docs, key |-> key]
               /\ DOMAIN docs = db.rows
  <2>1. restoring # NoStaging
    BY <1>7 DEF NoStaging
  <2>2. \A at \in {"ready", "blocked"} : \A db, docs, key :
          restoring # [at |-> at, db |-> db, docs |-> docs, key |-> key]
    BY <1>7
  <2> QED
    BY <1>1, <2>1, <2>2 DEF RestoringSound
<1>8. ASSUME NEW d \in Documents, RekeyDocument(d)
      PROVE  RecoveryInv'
  <2>1. PICK db \in Installation, key \in VaultKeys : \E docs \in Copies({db.key, key}) :
          /\ restoring = [at |-> "rekey", db |-> db, docs |-> docs, key |-> key]
          /\ DOMAIN docs = db.rows
    BY <1>7, <1>8 DEF RekeyDocument
  <2>2. PICK docs \in Copies({db.key, key}) :
          /\ restoring = [at |-> "rekey", db |-> db, docs |-> docs, key |-> key]
          /\ DOMAIN docs = db.rows
    BY <2>1
  <2> DEFINE resealed == [docs EXCEPT ![d] = key]
  <2>3. /\ restoring' = [at |-> "rekey", db |-> db, docs |-> resealed, key |-> key]
        /\ UNCHANGED <<installed, files, committed, restored>>
    BY <1>8, <2>2 DEF RekeyDocument
  <2>4. resealed \in Copies({db.key, key}) /\ DOMAIN resealed = db.rows
    BY <2>2 DEF Copies
  <2> HIDE DEF resealed
  <2> QED
    BY <1>5, <2>3, <2>4 DEF RestoringSound
<1>9. CASE RotateSecrets
  <2>1. PICK db \in Installation, key \in VaultKeys : \E docs \in Copies({db.key, key}) :
          /\ restoring = [at |-> "rekey", db |-> db, docs |-> docs, key |-> key]
          /\ DOMAIN docs = db.rows
    BY <1>7, <1>9 DEF RotateSecrets, DocumentsRekeyed
  <2>2. PICK docs \in Copies({db.key, key}) :
          /\ restoring = [at |-> "rekey", db |-> db, docs |-> docs, key |-> key]
          /\ DOMAIN docs = db.rows
    BY <2>1
  <2> DEFINE rotated == [db EXCEPT !.key = key]
  <2>3. /\ restoring' = [at |-> "ready", db |-> rotated, docs |-> docs, key |-> key]
        /\ UNCHANGED <<installed, files, committed, restored>>
        /\ \A x \in DOMAIN docs : docs[x] = key
    BY <1>9, <2>2 DEF RotateSecrets, DocumentsRekeyed, Opens
  <2>4. rotated \in Installation /\ rotated.key = key /\ rotated.rows = db.rows
    BY <2>1 DEF Installation
  <2>5. docs \in Copies({rotated.key})
    BY <2>2, <2>3, <2>4 DEF Copies
  <2> HIDE DEF rotated
  <2> QED
    BY <1>5, <2>2, <2>3, <2>4, <2>5 DEF RestoringSound
<1>10. ASSUME NEW at \in {"ready", "blocked"}, restoring.at = at
       PROVE  \E db \in Installation : \E docs \in Copies({db.key}) :
                /\ restoring = [at |-> at, db |-> db, docs |-> docs, key |-> db.key]
                /\ DOMAIN docs = db.rows /\ (at = "blocked" => db.blocked)
  <2>1. restoring # NoStaging
    BY <1>10 DEF NoStaging
  <2>2. \A db, docs, key : /\ restoring # [at |-> "rekey", db |-> db, docs |-> docs, key |-> key]
                           /\ \A other : restoring = [at |-> other, db |-> db, docs |-> docs,
                                                      key |-> key] => other = at
    BY <1>10
  <2> QED
    BY <1>1, <2>1, <2>2 DEF RestoringSound
<1>11. CASE BlockRestored
  <2>1. PICK db \in Installation : \E docs \in Copies({db.key}) :
          /\ restoring = [at |-> "ready", db |-> db, docs |-> docs, key |-> db.key]
          /\ DOMAIN docs = db.rows
    BY <1>10, <1>11 DEF BlockRestored
  <2>2. PICK docs \in Copies({db.key}) :
          /\ restoring = [at |-> "ready", db |-> db, docs |-> docs, key |-> db.key]
          /\ DOMAIN docs = db.rows
    BY <2>1
  <2> DEFINE barred == [db EXCEPT !.blocked = TRUE, !.busy = FALSE]
  <2>3. /\ restoring' = [at |-> "blocked", db |-> barred, docs |-> docs, key |-> db.key]
        /\ UNCHANGED <<installed, files, committed, restored>>
    BY <1>11, <2>2 DEF BlockRestored
  <2>4. /\ barred \in Installation /\ barred.key = db.key /\ barred.rows = db.rows
        /\ barred.blocked
    BY <2>1 DEF Installation
  <2> HIDE DEF barred
  <2>5. \E base \in Installation : \E copies \in Copies({base.key}) :
          /\ restoring' = [at |-> "blocked", db |-> base, docs |-> copies, key |-> base.key]
          /\ DOMAIN copies = base.rows /\ base.blocked
    BY <2>2, <2>3, <2>4
  <2> QED
    BY <1>5, <2>3, <2>5 DEF RestoringSound
<1>12. CASE PublishRestored
  <2>1. PICK db \in Installation : \E docs \in Copies({db.key}) :
          /\ restoring = [at |-> "blocked", db |-> db, docs |-> docs, key |-> db.key]
          /\ DOMAIN docs = db.rows /\ db.blocked
    BY <1>10, <1>12 DEF PublishRestored
  <2>2. PICK docs \in Copies({db.key}) :
          /\ restoring = [at |-> "blocked", db |-> db, docs |-> docs, key |-> db.key]
          /\ DOMAIN docs = db.rows /\ db.blocked
    BY <2>1
  <2>3. /\ restored' = [at |-> "data", db |-> db, docs |-> docs] /\ restoring' = NoStaging
        /\ UNCHANGED <<installed, files, committed>>
    BY <1>12, <2>2 DEF PublishRestored
  <2> QED
    BY <1>4, <2>2, <2>3 DEF RestoringSound, RestoredSound
<1>13. CASE RestoreFails
  BY <1>5, <1>13 DEF RestoreFails, RestoringSound
<1>14. CASE AdoptRestored
  <2>1. PICK db \in Installation : \E docs \in Copies({db.key}) :
          restored = [at |-> "data", db |-> db, docs |-> docs]
    BY <1>1, <1>14 DEF AdoptRestored, RestoredSound, NotStaged
  <2>2. PICK docs \in Copies({db.key}) : restored = [at |-> "data", db |-> db, docs |-> docs]
    BY <2>1
  <2>3. /\ installed' = db /\ committed' = TRUE /\ restored' = NoStaging /\ capture = NoStaging
        /\ files' = [x \in Documents |-> IF x \in DOMAIN docs THEN docs[x] ELSE "none"]
        /\ restoring' = restoring
    BY <1>14, <2>2 DEF AdoptRestored, NotStaged
  <2>4. files' \in [Documents -> VaultKeys \cup {"none", "plain"}]
    <3>1. db.key \in VaultKeys
      BY <2>1 DEF Installation
    <3> QED
      BY <2>2, <2>3, <3>1 DEF Copies
  <2>5. CaptureSound' /\ RestoringSound' /\ RestoredSound'
    BY <1>1, <1>2, <2>3 DEF CaptureSound, RestoringSound, RestoredSound
  <2> QED
    BY <1>3, <2>1, <2>3, <2>4, <2>5 DEF RecoveryInv
<1> QED
  BY <1>6, <1>8, <1>9, <1>11, <1>12, <1>13, <1>14

LEMMA RecoveryStep == ASSUME RecoveryInv, [RecoveryNext]_recoveryVars PROVE RecoveryInv'
<1>1. ASSUME UNCHANGED recoveryVars
      PROVE  RecoveryInv'
  BY <1>1 DEF recoveryVars, RecoveryInv, CaptureSound, ArchiveSound, RestoringSound, RestoredSound
<1> QED
  BY <1>1, RunningSteps, CaptureSteps, RestoreSteps DEF RecoveryNext

\* For any documents, whatever runs, fails or is killed: an archive is of an installation
\* that was stopped and idle, and has every document its database names; a restored
\* directory is quarantined, with everything under one key.
THEOREM RecoveryIsWhole == RecoverySpec => []RecoveredIsWhole
  BY RecoveryInitially, RecoveryStep, RecoveryHolds, PTL DEF RecoverySpec

-----------------------------------------------------------------------------
(* Discovery: the slices of a scan, and a source that empties              *)

Reading ==
  [page : Seq(Postings), verified : Int, revision : Int, revalidated : BOOLEAN]

PollerRow ==
  [pc : {"idle", "claimed", "reading", "checking", "confirming", "saving", "drifted",
         "yielding", "unmodified", "failing"},
   revision : Int, reads : Seq(Reading), at : Nat \ {0}, actual : Nat, cached : SUBSET (Nat \ {0}),
   health : {"none", "rate_limited", "forbidden", "unavailable", "parser_failed",
             "quality_warning"}]

ScanRow == [present : BOOLEAN, revision : Int, expires : Int, reads : Seq(Reading)]

SourceTyped ==
  /\ DOMAIN source = {"revision", "holder", "until", "due", "attempt", "health", "etag",
                      "count", "pending", "failures", "reviewed"}
  /\ source.holder \in Pollers \cup {"none"} /\ source.until \in Int /\ source.revision \in Int
  /\ source.count \in Nat /\ source.pending \in Nat /\ source.reviewed \in BOOLEAN

DiscoveryTyped ==
  /\ minute \in Int /\ feed \in Seq(Postings) /\ SourceTyped /\ scan \in ScanRow
  /\ poll \in [Pollers -> PollerRow]
  /\ listings \in [Postings -> [state : {"none", "open", "missing", "closed"}, since : Int,
                                missed : BOOLEAN]]

\* The pages a poll has done with.
Through(row) == IF row.pc \in {"checking", "confirming", "saving"} THEN row.at ELSE row.at - 1

\* What a poll read was read under the revision it claimed, by it or before it.
RowSound(row) ==
  /\ \A n \in 1 .. Len(row.reads) : row.reads[n].revision = row.revision
  /\ Through(row) <= Len(row.reads) /\ 1 \notin row.cached
  /\ row.pc = "claimed" => row.at = 1

\* Of its own pages, one that holds the lease read none before it began.
RowFresh(row) ==
  /\ row.revision = source.revision
  /\ \A n \in 1 .. Through(row) :
       n \in row.cached \/ row.reads[n].verified >= source.until - SourceLease

ScanSound == \A n \in 1 .. Len(scan.reads) : scan.reads[n].revision = scan.revision
PollsSound == \A p \in Pollers : RowSound(poll[p])
LeaseFresh ==
  \A p \in Pollers : source.holder = p =>
    /\ source.until - SourceLease <= minute
    /\ poll[p].pc # "idle" => RowFresh(poll[p])

\* A source of which a listing is open had postings, or its owner knows better.
OpenIsCounted ==
  (\E x \in Postings : listings[x].state = "open") => source.count > 0 \/ source.reviewed

DiscoveryInv ==
  DiscoveryTyped /\ ScanSound /\ PollsSound /\ LeaseFresh /\ OpenIsCounted

LEMMA NoPollSound == NoPoll \in PollerRow /\ RowSound(NoPoll) /\ NoPoll.pc = "idle"
  BY DEF NoPoll, PollerRow, RowSound, Through

LEMMA NoScanSound ==
  NoScan \in ScanRow /\ \A n \in 1 .. Len(NoScan.reads) : NoScan.reads[n].revision = NoScan.revision
  BY DEF NoScan, ScanRow

LEMMA DiscoveryInitially == DiscoveryInit => DiscoveryInv
<1> SUFFICES ASSUME DiscoveryInit
             PROVE  DiscoveryInv
  OBVIOUS
<1>1. DiscoveryTyped
  <2>1. SourceTyped
    BY DEF DiscoveryInit, SourceTyped
  <2>2. listings \in [Postings -> [state : {"none", "open", "missing", "closed"}, since : Int,
                                   missed : BOOLEAN]]
    BY DEF DiscoveryInit, Listing
  <2>3. scan \in ScanRow /\ poll \in [Pollers -> PollerRow] /\ minute \in Int
    BY NoScanSound, NoPollSound DEF DiscoveryInit
  <2>4. feed \in Seq(Postings)
    BY DiscoveryAssumption DEF DiscoveryInit
  <2> QED
    BY <2>1, <2>2, <2>3, <2>4 DEF DiscoveryTyped
<1>2. ScanSound /\ PollsSound
  BY NoScanSound, NoPollSound DEF DiscoveryInit, ScanSound, PollsSound
<1>3. LeaseFresh
  BY DiscoveryAssumption DEF DiscoveryInit, LeaseFresh
<1>4. OpenIsCounted
  BY DEF DiscoveryInit, OpenIsCounted, Listing
<1> QED
  BY <1>1, <1>2, <1>3, <1>4 DEF DiscoveryInv

\* A poll that goes on, the source's row and its listings being left alone.
LEMMA PollMoves ==
  ASSUME DiscoveryInv, NEW p \in Pollers, NEW row \in PollerRow, RowSound(row),
         poll' = [poll EXCEPT ![p] = row],
         scan' \in ScanRow, \A n \in 1 .. Len(scan'.reads) : scan'.reads[n].revision = scan'.revision,
         source.holder = p /\ row.pc # "idle" => RowFresh(row),
         UNCHANGED <<minute, feed, source, listings>>
  PROVE  DiscoveryInv'
<1>1. DiscoveryTyped'
  BY DEF DiscoveryInv, DiscoveryTyped, SourceTyped
<1>2. /\ poll'[p] = row
      /\ \A q \in Pollers : q # p => poll'[q] = poll[q]
  BY DEF DiscoveryInv, DiscoveryTyped
<1>3. ScanSound'
  BY DEF ScanSound
<1>4. PollsSound'
  <2>1. ASSUME NEW q \in Pollers
        PROVE  RowSound(poll'[q])
    BY <1>2 DEF DiscoveryInv, PollsSound
  <2> QED
    BY <2>1 DEF PollsSound, RowSound, Through
<1>5. LeaseFresh'
  <2>1. ASSUME NEW q \in Pollers, source.holder = q
        PROVE  /\ source.until - SourceLease <= minute
               /\ poll'[q].pc # "idle" => RowFresh(poll'[q])
    BY <1>2, <2>1 DEF DiscoveryInv, LeaseFresh
  <2> QED
    BY <2>1 DEF LeaseFresh, RowFresh, Through
<1>6. OpenIsCounted'
  BY DEF DiscoveryInv, OpenIsCounted
<1> QED
  BY <1>1, <1>3, <1>4, <1>5, <1>6 DEF DiscoveryInv

\* The lease is given back, whatever else is written, and a poll may end.
LEMMA LeaseGoes ==
  ASSUME DiscoveryInv, SourceTyped', source'.holder = "none",
         poll' = poll \/ \E p \in Pollers : poll' = [poll EXCEPT ![p] = NoPoll],
         scan' = scan \/ scan' = NoScan,
         listings' \in [Postings -> [state : {"none", "open", "missing", "closed"},
                                     since : Int, missed : BOOLEAN]],
         OpenIsCounted', UNCHANGED <<minute, feed>>
  PROVE  DiscoveryInv'
<1>1. poll' \in [Pollers -> PollerRow] /\ \A q \in Pollers : poll'[q] = poll[q] \/ poll'[q] = NoPoll
  BY NoPollSound DEF DiscoveryInv, DiscoveryTyped
<1>2. DiscoveryTyped'
  BY <1>1, NoScanSound DEF DiscoveryInv, DiscoveryTyped
<1>3. ScanSound'
  BY NoScanSound DEF DiscoveryInv, ScanSound
<1>4. PollsSound'
  <2>1. ASSUME NEW q \in Pollers
        PROVE  RowSound(poll'[q])
    BY <1>1, NoPollSound DEF DiscoveryInv, PollsSound
  <2> QED
    BY <2>1 DEF PollsSound, RowSound, Through
<1>5. LeaseFresh'
  BY DiscoveryAssumption DEF LeaseFresh
<1> QED
  BY <1>2, <1>3, <1>4, <1>5 DEF DiscoveryInv

LEMMA PageTyped ==
  ASSUME DiscoveryTyped, NEW n \in Nat \ {0}
  PROVE  Page(n) \in Seq(Postings)
<1>1. feed \in Seq(Postings) /\ PageSize \in Nat \ {0}
  BY DiscoveryAssumption DEF DiscoveryTyped
<1>2. CASE connector = "tagged"
  BY <1>1, <1>2 DEF Page
<1>3. CASE connector # "tagged"
  <2> DEFINE first == (n - 1) * PageSize + 1
             last == IF n * PageSize < Len(feed) THEN n * PageSize ELSE Len(feed)
  <2>1. first \in Int /\ first >= 1
    BY <1>1
  <2>2. last \in Int /\ last <= Len(feed)
    BY <1>1
  <2>3. Page(n) = SubSeq(feed, first, last)
    BY <1>3 DEF Page
  <2> HIDE DEF first, last
  <2>4. \A i \in first .. last : feed[i] \in Postings
    BY <1>1, <2>1, <2>2
  <2> QED
    BY <2>1, <2>2, <2>3, <2>4, SubSeqProperties
<1> QED
  BY <1>2, <1>3

\* What a poll's row and the source's say, of a poll that holds the lease.
LEMMA PollKnown ==
  ASSUME DiscoveryInv, NEW p \in Pollers
  PROVE  /\ poll[p] \in PollerRow /\ RowSound(poll[p])
         /\ source.holder = p => /\ source.until - SourceLease <= minute
                                 /\ poll[p].pc # "idle" => RowFresh(poll[p])
         /\ minute \in Int /\ source.until \in Int /\ source.revision \in Int
         /\ scan \in ScanRow /\ \A n \in 1 .. Len(scan.reads) : scan.reads[n].revision = scan.revision
  BY DEF DiscoveryInv, DiscoveryTyped, SourceTyped, PollsSound, LeaseFresh, ScanSound

\* A poll that turns elsewhere, with nothing more read or passed over.
LEMMA PollTurns ==
  ASSUME DiscoveryInv, NEW p \in Pollers, NEW row \in PollerRow, poll[p].pc # "idle",
         row.pc # "claimed", row.revision = poll[p].revision, row.reads = poll[p].reads,
         row.cached = poll[p].cached, Through(row) <= Through(poll[p]),
         poll' = [poll EXCEPT ![p] = row],
         scan' = scan \/ scan' = NoScan,
         UNCHANGED <<minute, feed, source, listings>>
  PROVE  DiscoveryInv'
<1>1. /\ poll[p] \in PollerRow /\ RowSound(poll[p])
      /\ source.holder = p => RowFresh(poll[p])
  BY PollKnown
<1>2. Through(row) \in Int /\ Through(poll[p]) \in Int
  BY <1>1 DEF Through, PollerRow
<1>3. \A n \in 1 .. Through(row) : n \in 1 .. Through(poll[p])
  BY <1>2
<1>4. RowSound(row)
  <2>1. Through(row) <= Len(row.reads)
    BY <1>1, <1>2 DEF RowSound, PollerRow
  <2> QED
    BY <1>1, <2>1 DEF RowSound
<1>5. source.holder = p => RowFresh(row)
  BY <1>1, <1>3 DEF RowFresh
<1>6. /\ scan' \in ScanRow
      /\ \A n \in 1 .. Len(scan'.reads) : scan'.reads[n].revision = scan'.revision
  BY PollKnown, NoScanSound
<1> QED
  BY <1>4, <1>5, <1>6, PollMoves

LEMMA PollEnds ==
  ASSUME DiscoveryInv, NEW p \in Pollers, Quits(p),
         UNCHANGED <<minute, feed, source, scan, listings>>
  PROVE  DiscoveryInv'
<1>1. /\ scan \in ScanRow
      /\ \A n \in 1 .. Len(scan.reads) : scan.reads[n].revision = scan.revision
  BY PollKnown
<1>2. poll' = [poll EXCEPT ![p] = NoPoll]
  BY DEF Quits
<1> QED
  BY <1>1, <1>2, NoPollSound, PollMoves

\* A page is done with, read by this poll or left by one before it.
LEMMA PageTaken ==
  ASSUME DiscoveryInv, NEW p \in Pollers, source.holder = p, poll[p].pc # "idle",
         NEW reads \in Seq(Reading), NEW cached \in SUBSET (Nat \ {0}), 1 \notin cached,
         poll[p].at <= Len(reads),
         \A n \in 1 .. Len(reads) : reads[n].revision = poll[p].revision,
         \A n \in 1 .. poll[p].at : n \in cached \/ reads[n].verified >= source.until - SourceLease,
         Turned(p, reads, cached),
         scan' \in ScanRow, \A n \in 1 .. Len(scan'.reads) : scan'.reads[n].revision = scan'.revision,
         UNCHANGED <<minute, feed, source, listings>>
  PROVE  DiscoveryInv'
<1> DEFINE row == poll[p]
           now == [row EXCEPT !.reads = reads, !.cached = cached]
           failing == [now EXCEPT !.pc = "failing", !.health = "parser_failed"]
           checking == [now EXCEPT !.pc = "checking"]
           reading == [now EXCEPT !.pc = "reading", !.at = row.at + 1]
<1>1. row \in PollerRow /\ row.revision = source.revision
  BY PollKnown DEF RowFresh
<1>2. /\ now \in PollerRow /\ now.at = row.at /\ now.revision = row.revision
      /\ now.reads = reads /\ now.cached = cached
  <2> HIDE DEF row
  <2> QED
    BY <1>1 DEF PollerRow
<1> HIDE DEF row, now
<1>3. /\ failing \in PollerRow /\ checking \in PollerRow /\ reading \in PollerRow
      /\ failing.pc = "failing" /\ checking.pc = "checking" /\ reading.pc = "reading"
      /\ failing.at = row.at /\ checking.at = row.at /\ reading.at = row.at + 1
  <2>1. failing \in PollerRow /\ failing.pc = "failing" /\ failing.at = row.at
    BY <1>2 DEF PollerRow
  <2>2. checking \in PollerRow /\ checking.pc = "checking" /\ checking.at = row.at
    BY <1>2 DEF PollerRow
  <2>3. row.at \in Nat \ {0}
    BY <1>1 DEF PollerRow
  <2>4. reading \in PollerRow /\ reading.pc = "reading" /\ reading.at = row.at + 1
    <3> DEFINE mid == [now EXCEPT !.pc = "reading"]
    <3>1. mid \in PollerRow /\ mid.pc = "reading"
      BY <1>2 DEF PollerRow
    <3>2. reading = [mid EXCEPT !.at = row.at + 1]
      OBVIOUS
    <3>3. row.at + 1 \in Nat \ {0}
      BY <2>3
    <3> HIDE DEF mid, reading
    <3> QED
      BY <3>1, <3>2, <3>3 DEF PollerRow
  <2> QED
    BY <2>1, <2>2, <2>4
<1>4. ASSUME NEW new \in {failing, checking, reading}
      PROVE  new.revision = row.revision /\ new.reads = reads /\ new.cached = cached
  BY <1>2 DEF PollerRow
<1>5. \E new \in {failing, checking, reading} : poll' = [poll EXCEPT ![p] = new]
  <2>1. \/ poll' = [poll EXCEPT ![p] = failing]
        \/ poll' = [poll EXCEPT ![p] = checking]
        \/ poll' = [poll EXCEPT ![p] = reading]
    BY <1>2 DEF Turned, row, now
  <2> QED
    BY <2>1
<1>6. PICK new \in {failing, checking, reading} : poll' = [poll EXCEPT ![p] = new]
  BY <1>5
<1>7. /\ new \in PollerRow /\ new.pc # "claimed"
      /\ Through(new) <= row.at /\ Through(new) \in Int
  <2>1. row.at \in Nat
    BY <1>1 DEF PollerRow
  <2> HIDE DEF failing, checking, reading
  <2> QED
    BY <1>3, <2>1 DEF Through
<1>8. new.revision = row.revision /\ new.reads = reads /\ new.cached = cached
  BY <1>4
<1> HIDE DEF failing, checking, reading
<1>9. row.at \in Nat /\ Len(reads) \in Nat /\ row.at <= Len(reads)
  BY <1>1 DEF PollerRow, row
<1>10. RowSound(new) /\ RowFresh(new)
  <2>1. Through(new) <= Len(reads)
    BY <1>7, <1>9
  <2>2. \A n \in 1 .. Through(new) : n \in 1 .. row.at
    BY <1>7, <1>9
  <2> QED
    BY <1>1, <1>7, <1>8, <2>1, <2>2 DEF RowSound, RowFresh, row
<1> QED
  BY <1>6, <1>7, <1>10, PollMoves

-----------------------------------------------------------------------------
LEMMA ClaimSourceStep ==
  ASSUME DiscoveryInv, NEW p \in Pollers, ClaimSource(p)
  PROVE  DiscoveryInv'
<1> DEFINE row == [NoPoll EXCEPT !.pc = "claimed", !.revision = source.revision]
<1>1. /\ SourceTyped /\ minute \in Int /\ SourceLease \in Nat /\ "none" \notin Pollers
      /\ poll \in [Pollers -> PollerRow]
  BY DiscoveryAssumption DEF DiscoveryInv, DiscoveryTyped
<1>2. /\ source'.holder = p /\ source'.until = minute + SourceLease
      /\ source'.revision = source.revision /\ source'.count = source.count
      /\ source'.reviewed = source.reviewed
  BY <1>1 DEF ClaimSource, SourceTyped
<1>3. SourceTyped'
  BY <1>1 DEF ClaimSource, SourceTyped
<1>4. row \in PollerRow /\ row.pc = "claimed" /\ row.at = 1 /\ row.reads = << >>
      /\ row.cached = {} /\ row.revision = source.revision
  <2>1. source.revision \in Int
    BY <1>1 DEF SourceTyped
  <2> DEFINE mid == [NoPoll EXCEPT !.pc = "claimed"]
  <2>2. /\ mid \in PollerRow /\ mid.pc = "claimed" /\ mid.at = 1
        /\ mid.reads = << >> /\ mid.cached = {}
    <3>1. /\ NoPoll \in PollerRow /\ NoPoll.at = 1
          /\ NoPoll.reads = << >> /\ NoPoll.cached = {}
      BY NoPollSound DEF NoPoll
    <3> QED
      BY <3>1 DEF PollerRow
  <2>3. row = [mid EXCEPT !.revision = source.revision]
    OBVIOUS
  <2> HIDE DEF row, mid
  <2> QED
    BY <2>1, <2>2, <2>3 DEF PollerRow
<1>5. RowSound(row) /\ Through(row) = 0
  BY <1>4 DEF RowSound, Through
<1>6. poll' = [poll EXCEPT ![p] = row]
  BY DEF ClaimSource
<1> HIDE DEF row
<1>7. poll'[p] = row /\ \A q \in Pollers : q # p => poll'[q] = poll[q]
  BY <1>1, <1>6
<1>8. DiscoveryTyped'
  <2>1. UNCHANGED <<minute, feed, scan, listings>>
    BY DEF ClaimSource
  <2> QED
    BY <1>3, <1>4, <1>6, <2>1 DEF DiscoveryInv, DiscoveryTyped
<1>9. ScanSound'
  BY DEF ClaimSource, DiscoveryInv, ScanSound
<1>10. PollsSound'
  <2>1. ASSUME NEW q \in Pollers
        PROVE  RowSound(poll'[q])
    BY <1>5, <1>7 DEF DiscoveryInv, PollsSound
  <2> QED
    BY <2>1 DEF PollsSound, RowSound, Through
<1>11. LeaseFresh'
  <2>1. ASSUME NEW q \in Pollers, source'.holder = q
        PROVE  /\ source'.until - SourceLease <= minute'
               /\ poll'[q].pc # "idle" =>
                    /\ poll'[q].revision = source'.revision
                    /\ Through(poll'[q]) = 0
    <3>1. q = p /\ minute' = minute
      BY <1>2, <2>1 DEF ClaimSource
    <3> QED
      BY <1>1, <1>2, <1>4, <1>5, <1>7, <3>1
  <2> QED
    BY <2>1 DEF LeaseFresh, RowFresh, Through
<1>12. OpenIsCounted'
  BY <1>2 DEF ClaimSource, DiscoveryInv, OpenIsCounted
<1> QED
  BY <1>8, <1>9, <1>10, <1>11, <1>12 DEF DiscoveryInv

LEMMA LoadScanStep ==
  ASSUME DiscoveryInv, NEW p \in Pollers, LoadScan(p)
  PROVE  DiscoveryInv'
<1> DEFINE row == [poll[p] EXCEPT !.pc = "reading", !.reads = scan'.reads]
           fresh == [NoScan EXCEPT !.present = TRUE, !.revision = poll[p].revision,
                                   !.expires = minute + ScanTerm]
<1>1. /\ poll[p] \in PollerRow /\ RowSound(poll[p]) /\ poll[p].pc = "claimed"
      /\ source.holder = p => RowFresh(poll[p])
      /\ minute \in Int /\ ScanTerm \in Int /\ scan \in ScanRow
      /\ \A n \in 1 .. Len(scan.reads) : scan.reads[n].revision = scan.revision
  BY PollKnown, DiscoveryAssumption DEF LoadScan
<1>2. fresh \in ScanRow /\ fresh.reads = << >> /\ fresh.revision = poll[p].revision
  <2>1. poll[p].revision \in Int /\ minute + ScanTerm \in Int
    BY <1>1 DEF PollerRow
  <2> DEFINE one == [NoScan EXCEPT !.present = TRUE]
             two == [one EXCEPT !.revision = poll[p].revision]
  <2>2. one \in ScanRow /\ one.reads = << >>
    <3>1. NoScan \in ScanRow /\ NoScan.reads = << >>
      BY NoScanSound DEF NoScan
    <3> QED
      BY <3>1 DEF ScanRow
  <2>3. fresh = [two EXCEPT !.expires = minute + ScanTerm]
    OBVIOUS
  <2> HIDE DEF fresh, one
  <2>4. two \in ScanRow /\ two.reads = << >> /\ two.revision = poll[p].revision
    BY <2>1, <2>2 DEF ScanRow
  <2> HIDE DEF two
  <2> QED
    BY <2>1, <2>3, <2>4 DEF ScanRow
<1>3. /\ scan' \in ScanRow /\ scan'.revision = poll[p].revision
      /\ \A n \in 1 .. Len(scan'.reads) : scan'.reads[n].revision = scan'.revision
  <2>1. (scan' = scan /\ scan.revision = poll[p].revision) \/ scan' = fresh
    BY DEF LoadScan, Resumable
  <2> HIDE DEF fresh
  <2> QED
    BY <1>1, <1>2, <2>1
<1>4. /\ row \in PollerRow /\ row.pc = "reading" /\ row.reads = scan'.reads /\ row.at = 1
      /\ row.cached = poll[p].cached /\ row.revision = poll[p].revision
  BY <1>1, <1>3 DEF PollerRow, ScanRow, RowSound
<1>5. poll' = [poll EXCEPT ![p] = row] /\ UNCHANGED <<minute, feed, source, listings>>
  <2>1. poll' = [poll EXCEPT ![p].pc = "reading", ![p].reads = scan'.reads]
    BY DEF LoadScan
  <2>2. poll \in [Pollers -> PollerRow]
    BY DEF DiscoveryInv, DiscoveryTyped
  <2>3. poll' = [poll EXCEPT ![p] = row]
    BY <2>1, <2>2
  <2> QED
    BY <2>3 DEF LoadScan
<1> HIDE DEF row, fresh
<1>6. Through(row) = 0 /\ Len(row.reads) \in Nat
  BY <1>4 DEF Through, PollerRow
<1>7. RowSound(row)
  BY <1>1, <1>3, <1>4, <1>6 DEF RowSound
<1>8. source.holder = p => RowFresh(row)
  BY <1>1, <1>4, <1>6 DEF RowFresh
<1> QED
  BY <1>3, <1>4, <1>5, <1>7, <1>8, PollMoves

LEMMA UseCachedStep ==
  ASSUME DiscoveryInv, NEW p \in Pollers, UseCached(p)
  PROVE  DiscoveryInv'
<1> DEFINE row == poll[p]
<1>1. /\ row \in PollerRow /\ RowSound(row) /\ RowFresh(row) /\ row.pc = "reading"
      /\ source.holder = p /\ scan \in ScanRow
      /\ \A n \in 1 .. Len(scan.reads) : scan.reads[n].revision = scan.revision
  BY PollKnown DEF UseCached, HeldBy
<1>2. /\ row.reads \in Seq(Reading) /\ row.cached \cup {row.at} \in SUBSET (Nat \ {0})
      /\ row.at \in Nat \ {0}
  BY <1>1 DEF PollerRow
<1>3. row.at # 1 /\ row.at <= Len(row.reads) /\ Turned(p, row.reads, row.cached \cup {row.at})
  BY DEF UseCached, Cached, Turning
<1>4. Through(row) = row.at - 1
  BY <1>1 DEF Through
<1>5. \A n \in 1 .. row.at : n \in row.cached \cup {row.at}
                             \/ row.reads[n].verified >= source.until - SourceLease
  BY <1>1, <1>2, <1>4 DEF RowFresh
<1>6. /\ \A n \in 1 .. Len(row.reads) : row.reads[n].revision = row.revision
      /\ 1 \notin row.cached \cup {row.at}
  BY <1>1, <1>3 DEF RowSound
<1>7. UNCHANGED <<minute, feed, source, scan, listings>>
  BY DEF UseCached
<1>8. /\ row.at <= Len(row.reads) /\ row.pc # "idle"
      /\ scan' \in ScanRow
      /\ \A n \in 1 .. Len(scan'.reads) : scan'.reads[n].revision = scan'.revision
  BY <1>1, <1>3, <1>7
<1> DEFINE cached == row.cached \cup {row.at}
<1> HIDE DEF cached
<1>9. cached \in SUBSET (Nat \ {0}) /\ 1 \notin cached /\ Turned(p, row.reads, cached)
  BY <1>2, <1>3, <1>6 DEF cached
<1>10. \A n \in 1 .. row.at : n \in cached \/ row.reads[n].verified >= source.until - SourceLease
  BY <1>5 DEF cached
<1> QED
  BY <1>1, <1>2, <1>6, <1>7, <1>8, <1>9, <1>10, PageTaken

\* A poll that only goes elsewhere, and at most says why.
LEMMA PollGoes ==
  ASSUME DiscoveryInv, NEW p \in Pollers, poll[p].pc # "idle",
         NEW pc \in {"yielding", "unmodified", "failing"},
         \/ poll' = [poll EXCEPT ![p].pc = pc]
         \/ \E health \in {"rate_limited", "forbidden", "unavailable", "parser_failed",
                           "quality_warning"} :
              poll' = [poll EXCEPT ![p].pc = pc, ![p].health = health],
         scan' = scan \/ scan' = NoScan,
         UNCHANGED <<minute, feed, source, listings>>
  PROVE  DiscoveryInv'
<1> DEFINE row == [poll[p] EXCEPT !.pc = pc]
<1>1. poll[p] \in PollerRow /\ poll \in [Pollers -> PollerRow]
  BY DEF DiscoveryInv, DiscoveryTyped
<1>2. /\ row \in PollerRow /\ row.pc = pc /\ row.revision = poll[p].revision
      /\ row.reads = poll[p].reads /\ row.cached = poll[p].cached /\ row.at = poll[p].at
  BY <1>1 DEF PollerRow
<1>3. ASSUME NEW new \in PollerRow, poll' = [poll EXCEPT ![p] = new], new.pc = pc,
             new.revision = poll[p].revision, new.reads = poll[p].reads,
             new.cached = poll[p].cached, new.at = poll[p].at
      PROVE  DiscoveryInv'
  <2>1. Through(new) <= Through(poll[p]) /\ new.pc # "claimed"
    <3>1. poll[p].at \in Nat
      BY <1>1 DEF PollerRow
    <3> QED
      BY <1>3, <3>1 DEF Through
  <2> QED
    BY <1>3, <2>1, PollTurns
<1>4. CASE poll' = [poll EXCEPT ![p].pc = pc]
  <2>1. poll' = [poll EXCEPT ![p] = row]
    BY <1>1, <1>4
  <2> HIDE DEF row
  <2> QED
    BY <1>2, <1>3, <2>1
<1>5. ASSUME NEW health \in {"rate_limited", "forbidden", "unavailable", "parser_failed",
                             "quality_warning"},
             poll' = [poll EXCEPT ![p].pc = pc, ![p].health = health]
      PROVE  DiscoveryInv'
  <2> DEFINE new == [row EXCEPT !.health = health]
  <2>1. poll' = [poll EXCEPT ![p] = new]
    BY <1>1, <1>5
  <2> HIDE DEF row
  <2>2. /\ new \in PollerRow /\ new.pc = pc /\ new.revision = poll[p].revision
        /\ new.reads = poll[p].reads /\ new.cached = poll[p].cached /\ new.at = poll[p].at
    BY <1>2, <1>5 DEF PollerRow
  <2> HIDE DEF new
  <2> QED
    BY <1>3, <2>1, <2>2
<1> QED
  BY <1>4, <1>5

\* The next read is of the page the poll is at, or of one it has passed over.
LEMMA FetchingWhat ==
  ASSUME DiscoveryInv, NEW p \in Pollers, NEW n \in Fetching(p)
  PROVE  /\ n \in Nat \ {0}
         /\ \/ poll[p].pc = "reading" /\ n = poll[p].at /\ (n = 1 \/ n > Len(poll[p].reads))
            \/ poll[p].pc = "checking" /\ n \in poll[p].cached
<1>1. poll[p] \in PollerRow /\ RowSound(poll[p])
  BY PollKnown
<1>2. poll[p].at \in Nat \ {0} /\ Len(poll[p].reads) \in Nat /\ poll[p].cached \subseteq Nat \ {0}
  BY <1>1 DEF PollerRow
<1>3. CASE poll[p].pc = "reading" /\ (Turning(p) = 1 \/ ~Cached(p))
  BY <1>2, <1>3 DEF Fetching, Turning, Cached
<1>4. CASE ~(poll[p].pc = "reading" /\ (Turning(p) = 1 \/ ~Cached(p)))
  <2>1. poll[p].pc = "checking" /\ Unchecked(p) # {}
        /\ n = CHOOSE m \in Unchecked(p) : \A k \in Unchecked(p) : m <= k
    BY <1>4 DEF Fetching
  <2>2. Unchecked(p) \subseteq Nat \ {0} /\ Unchecked(p) \subseteq poll[p].cached
    BY <1>2 DEF Unchecked
  <2>3. \E m \in Unchecked(p) : \A k \in Unchecked(p) : m <= k
    BY <2>1, <2>2, LeastNumber
  <2>4. n \in Unchecked(p)
    BY <2>1, <2>3
  <2> QED
    BY <2>1, <2>2, <2>4
<1> QED
  BY <1>3, <1>4

\* A page that was read just now, in the place of an older reading or after all.
WithRead(p, n) ==
  IF n <= Len(poll[p].reads) THEN [poll[p].reads EXCEPT ![n] = Read(p, n)]
                             ELSE Append(poll[p].reads, Read(p, n))

LEMMA PageRead ==
  ASSUME DiscoveryInv, NEW p \in Pollers, NEW n \in Fetching(p), source.holder = p
  PROVE  /\ WithRead(p, n) \in Seq(Reading)
         /\ \A k \in 1 .. Len(WithRead(p, n)) : WithRead(p, n)[k].revision = poll[p].revision
         /\ poll[p].at <= Len(WithRead(p, n))
         /\ \A k \in 1 .. poll[p].at :
              \/ k \in poll[p].cached
              \/ WithRead(p, n)[k].verified >= source.until - SourceLease
<1> DEFINE reads == WithRead(p, n)
           row == poll[p]
           new == Read(p, n)
           old == row.reads
<1>1. /\ row \in PollerRow /\ RowSound(row) /\ RowFresh(row) /\ minute \in Int
      /\ source.until - SourceLease <= minute
  BY PollKnown, FetchingWhat
<1>2. /\ old \in Seq(Reading) /\ row.at \in Nat \ {0} /\ Len(old) \in Nat
      /\ row.revision \in Int
  BY <1>1 DEF PollerRow
<1>3. /\ n \in Nat \ {0}
      /\ \/ row.pc = "reading" /\ n = row.at /\ (n = 1 \/ n > Len(old))
         \/ row.pc = "checking" /\ n \in row.cached
  BY FetchingWhat
<1>4. new \in Reading /\ new.revision = row.revision /\ new.verified = minute
  <2>1. Page(n) \in Seq(Postings)
    BY <1>3, PageTyped DEF DiscoveryInv
  <2> QED
    BY <1>1, <1>2, <2>1 DEF Read, Reading
<1>5. /\ \A k \in 1 .. Len(old) : old[k].revision = row.revision
      /\ Through(row) <= Len(old)
      /\ \A k \in 1 .. Through(row) :
           k \in row.cached \/ old[k].verified >= source.until - SourceLease
  BY <1>1 DEF RowSound, RowFresh
<1>6. Through(row) = IF row.pc = "checking" THEN row.at ELSE row.at - 1
  BY <1>3 DEF Through
<1> HIDE DEF new, row, old, reads
<1>7. CASE n <= Len(old)
  <2>1. reads = [old EXCEPT ![n] = new]
    BY <1>7 DEF new, row, old, reads, WithRead
  <2>2. /\ reads \in Seq(Reading) /\ Len(reads) = Len(old) /\ reads[n] = new
        /\ \A k \in 1 .. Len(old) : k # n => reads[k] = old[k]
    <3>1. n \in 1 .. Len(old)
      BY <1>2, <1>3, <1>7
    <3> QED
      BY ONLY <1>2, <1>4, <2>1, <3>1, ExceptSeq
  <2>3. row.at <= Len(old)
    BY <1>2, <1>3, <1>5, <1>6, <1>7
  <2>4. ASSUME NEW k \in 1 .. row.at
        PROVE  k \in row.cached \/ reads[k].verified >= source.until - SourceLease
    <3>1. CASE k = n
      BY <1>1, <1>4, <2>2, <3>1
    <3>2. CASE k # n
      <4>1. k \in 1 .. Through(row) /\ reads[k] = old[k]
        BY <1>2, <1>3, <1>6, <2>2, <2>3, <3>2
      <4> QED
        BY <1>5, <4>1
    <3> QED
      BY <3>1, <3>2
  <2>5. \A k \in 1 .. Len(reads) : reads[k].revision = row.revision
    BY <1>4, <1>5, <2>2
  <2> QED
    BY <2>2, <2>3, <2>4, <2>5 DEF row, reads
<1>8. CASE ~(n <= Len(old))
  <2>1. reads = Append(old, new)
    BY <1>8 DEF new, row, old, reads, WithRead
  <2>2. /\ reads \in Seq(Reading) /\ Len(reads) = Len(old) + 1 /\ reads[Len(old) + 1] = new
        /\ \A k \in 1 .. Len(old) : reads[k] = old[k]
    BY ONLY <1>2, <1>4, <2>1, AppendProperties
  <2>3. row.at <= Len(old) + 1
    BY <1>2, <1>5, <1>6
  <2>4. ASSUME NEW k \in 1 .. row.at
        PROVE  k \in row.cached \/ reads[k].verified >= source.until - SourceLease
    <3>1. CASE k = Len(old) + 1
      BY <1>1, <1>4, <2>2, <3>1
    <3>2. CASE k # Len(old) + 1
      <4>1. k \in 1 .. Len(old)
        BY <1>2, <2>3, <3>2
      <4>2. k \in 1 .. Through(row)
        BY <1>2, <1>3, <1>6, <1>8, <4>1
      <4> QED
        BY <1>5, <2>2, <4>1, <4>2
    <3> QED
      BY <3>1, <3>2
  <2>5. ASSUME NEW k \in 1 .. Len(reads)
        PROVE  reads[k].revision = row.revision
    <3>1. k \in 1 .. Len(old) \/ k = Len(old) + 1
      BY <1>2, <2>2
    <3> QED
      BY <1>4, <1>5, <2>2, <3>1
  <2> QED
    BY <2>2, <2>3, <2>4, <2>5 DEF row, reads
<1> QED
  BY <1>7, <1>8

LEMMA FetchPageStep ==
  ASSUME DiscoveryInv, NEW p \in Pollers, FetchPage(p)
  PROVE  DiscoveryInv'
<1>1. PICK n \in Fetching(p) :
        LET known == n <= Len(poll[p].reads)
            pc == IF known /\ poll[p].reads[n].page # Page(n) THEN "drifted"
                  ELSE IF poll[p].pc = "checking" THEN "confirming" ELSE "saving" IN
        poll' = [poll EXCEPT ![p].pc = pc, ![p].actual = @ + 1,
                  ![p].reads = IF pc = "drifted" THEN @
                               ELSE IF known THEN [@ EXCEPT ![n] = Read(p, n)]
                               ELSE Append(@, Read(p, n))]
  BY DEF FetchPage
<1> DEFINE known == n <= Len(poll[p].reads)
           pc == IF known /\ poll[p].reads[n].page # Page(n) THEN "drifted"
                 ELSE IF poll[p].pc = "checking" THEN "confirming" ELSE "saving"
           added == WithRead(p, n)
           reads == IF pc = "drifted" THEN poll[p].reads ELSE added
           one == [poll[p] EXCEPT !.pc = pc]
           fetched == poll[p].actual + 1
           two == [one EXCEPT !.actual = fetched]
           row == [two EXCEPT !.reads = reads]
<1>2. /\ poll[p] \in PollerRow /\ RowSound(poll[p]) /\ RowFresh(poll[p])
      /\ source.holder = p /\ poll[p].pc \in {"reading", "checking"}
      /\ poll \in [Pollers -> PollerRow]
      /\ UNCHANGED <<minute, feed, source, scan, listings>>
  BY <1>1, PollKnown, FetchingWhat DEF FetchPage, HeldBy, DiscoveryInv, DiscoveryTyped
<1>3. poll' = [poll EXCEPT ![p] = row]
  BY <1>1, <1>2 DEF WithRead
<1>4. /\ added \in Seq(Reading)
      /\ \A k \in 1 .. Len(added) : added[k].revision = poll[p].revision
      /\ poll[p].at <= Len(added)
      /\ \A k \in 1 .. poll[p].at :
           k \in poll[p].cached \/ added[k].verified >= source.until - SourceLease
  BY <1>2, PageRead
<1>5. pc \in {"drifted", "confirming", "saving"}
  OBVIOUS
<1> HIDE DEF known, added, pc
<1>6. reads \in Seq(Reading) /\ fetched \in Nat
  BY <1>2, <1>4 DEF PollerRow
<1> HIDE DEF reads, fetched
<1>7. /\ row \in PollerRow /\ row.pc = pc /\ row.reads = reads /\ row.at = poll[p].at
      /\ row.cached = poll[p].cached /\ row.revision = poll[p].revision
  <2>1. /\ one \in PollerRow /\ one.pc = pc /\ one.at = poll[p].at
        /\ one.cached = poll[p].cached /\ one.revision = poll[p].revision
    BY <1>2, <1>5 DEF PollerRow
  <2> HIDE DEF one
  <2>2. /\ two \in PollerRow /\ two.pc = pc /\ two.at = poll[p].at
        /\ two.cached = poll[p].cached /\ two.revision = poll[p].revision
    BY <1>6, <2>1 DEF PollerRow
  <2> HIDE DEF two
  <2> QED
    BY <1>6, <2>2 DEF PollerRow
<1> HIDE DEF one, two, row
<1>8. poll[p].at \in Nat \ {0}
  BY <1>2 DEF PollerRow
<1>9. scan \in ScanRow /\ \A k \in 1 .. Len(scan.reads) : scan.reads[k].revision = scan.revision
  BY PollKnown
<1>10. CASE pc = "drifted"
  <2>1. row.reads = poll[p].reads
    BY <1>7, <1>10 DEF reads
  <2>2. Through(row) <= Through(poll[p]) /\ row.pc # "claimed" /\ poll[p].pc # "idle"
    BY <1>2, <1>7, <1>8, <1>10 DEF Through
  <2> QED
    BY <1>2, <1>3, <1>7, <2>1, <2>2, PollTurns
<1>11. CASE pc # "drifted"
  <2>1. row.reads = added /\ Through(row) = row.at
    BY <1>5, <1>7, <1>11 DEF reads, Through
  <2>2. RowSound(row)
    BY <1>2, <1>4, <1>5, <1>7, <2>1 DEF RowSound
  <2>3. RowFresh(row)
    BY <1>2, <1>4, <1>7, <2>1 DEF RowFresh
  <2> QED
    BY <1>2, <1>3, <1>7, <1>9, <2>2, <2>3, PollMoves
<1> QED
  BY <1>10, <1>11

LEMMA SaveScanReadStep ==
  ASSUME DiscoveryInv, NEW p \in Pollers, SaveScanRead(p)
  PROVE  DiscoveryInv'
<1>1. /\ poll[p] \in PollerRow /\ RowSound(poll[p]) /\ RowFresh(poll[p])
      /\ source.holder = p /\ poll[p].pc \in {"saving", "confirming"}
      /\ poll \in [Pollers -> PollerRow] /\ scan \in ScanRow
      /\ scan.revision = poll[p].revision
      /\ UNCHANGED <<minute, feed, source, listings>>
  BY PollKnown DEF SaveScanRead, HeldBy, DiscoveryInv, DiscoveryTyped
<1>2. /\ poll[p].reads \in Seq(Reading) /\ poll[p].cached \in SUBSET (Nat \ {0})
      /\ poll[p].at \in Nat \ {0} /\ Through(poll[p]) = poll[p].at
  BY <1>1 DEF PollerRow, Through
<1>3. /\ poll[p].at <= Len(poll[p].reads) /\ 1 \notin poll[p].cached
      /\ \A n \in 1 .. Len(poll[p].reads) : poll[p].reads[n].revision = poll[p].revision
      /\ \A n \in 1 .. poll[p].at :
           n \in poll[p].cached \/ poll[p].reads[n].verified >= source.until - SourceLease
  BY <1>1, <1>2 DEF RowSound, RowFresh
<1>4. /\ scan' \in ScanRow
      /\ \A n \in 1 .. Len(scan'.reads) : scan'.reads[n].revision = scan'.revision
  <2>1. scan' = [scan EXCEPT !.reads = poll[p].reads]
    BY DEF SaveScanRead
  <2>2. scan' \in ScanRow /\ scan'.reads = poll[p].reads /\ scan'.revision = scan.revision
    BY <1>1, <1>2, <2>1 DEF ScanRow
  <2> QED
    BY <1>1, <1>3, <2>2
<1>5. CASE poll[p].pc = "saving"
  <2>1. Turned(p, poll[p].reads, poll[p].cached)
    BY <1>5 DEF SaveScanRead
  <2> QED
    BY <1>1, <1>2, <1>3, <1>4, <2>1, PageTaken
<1>6. CASE poll[p].pc = "confirming"
  <2> DEFINE row == [poll[p] EXCEPT !.pc = "checking"]
  <2>1. poll' = [poll EXCEPT ![p] = row]
    BY <1>1, <1>6 DEF SaveScanRead, Goes
  <2>2. /\ row \in PollerRow /\ row.pc = "checking" /\ row.at = poll[p].at
        /\ row.reads = poll[p].reads /\ row.cached = poll[p].cached
        /\ row.revision = poll[p].revision
    BY <1>1 DEF PollerRow
  <2> HIDE DEF row
  <2>3. Through(row) = row.at
    BY <2>2 DEF Through
  <2>4. RowSound(row) /\ RowFresh(row)
    BY <1>1, <1>3, <2>2, <2>3 DEF RowSound, RowFresh
  <2> QED
    BY <1>1, <1>4, <2>1, <2>2, <2>4, PollMoves
<1> QED
  BY <1>1, <1>5, <1>6

\* The steps of a poll that leave the source's row and its listings alone.
LEMMA PollingSteps ==
  ASSUME DiscoveryInv, NEW p \in Pollers,
         \/ LoadScan(p) \/ UseCached(p) \/ Yield(p) \/ FetchPage(p) \/ NotModified(p)
         \/ FetchFails(p) \/ SaveScanRead(p) \/ Drift(p) \/ GiveUp(p) \/ PollerStops(p)
  PROVE  DiscoveryInv'
<1>1. ASSUME NEW n \in Fetching(p)
      PROVE  poll[p].pc # "idle"
  BY <1>1, FetchingWhat
<1>2. CASE Yield(p) \/ NotModified(p)
  <2>1. \E pc \in {"yielding", "unmodified"} : poll' = [poll EXCEPT ![p].pc = pc]
    BY <1>2 DEF Yield, NotModified, Goes
  <2>2. poll[p].pc # "idle" /\ UNCHANGED <<minute, feed, source, scan, listings>>
    BY <1>1, <1>2 DEF Yield, NotModified
  <2> QED
    BY <2>1, <2>2, PollGoes
<1>3. CASE FetchFails(p)
  <2>1. \E health \in {"rate_limited", "forbidden", "unavailable", "parser_failed"} :
          poll' = [poll EXCEPT ![p].pc = "failing", ![p].health = health]
    BY <1>3 DEF FetchFails
  <2>2. poll[p].pc # "idle" /\ UNCHANGED <<minute, feed, source, scan, listings>>
    BY <1>1, <1>3 DEF FetchFails
  <2> QED
    BY <2>1, <2>2, PollGoes
<1>4. CASE Drift(p)
  <2>1. poll[p].pc # "idle" /\ scan' = NoScan /\ UNCHANGED <<minute, feed, source, listings>>
    BY <1>4 DEF Drift
  <2>2. poll' = [poll EXCEPT ![p].pc = "failing", ![p].health = "quality_warning"]
    BY <1>4 DEF Drift
  <2> QED
    BY <2>1, <2>2, PollGoes
<1>5. CASE GiveUp(p) \/ PollerStops(p)
  BY <1>5, PollEnds DEF GiveUp, PollerStops
<1> QED
  BY <1>2, <1>3, <1>4, <1>5, LoadScanStep, UseCachedStep, FetchPageStep, SaveScanReadStep

\* The lease is given back, and the listings are as they were.
LEMMA CountStands ==
  ASSUME DiscoveryInv, SourceTyped', source'.holder = "none",
         source'.count > 0 \/ source'.reviewed \/ ~(source.count > 0 \/ source.reviewed),
         poll' = poll \/ \E p \in Pollers : poll' = [poll EXCEPT ![p] = NoPoll],
         scan' = scan \/ scan' = NoScan, UNCHANGED <<minute, feed, listings>>
  PROVE  DiscoveryInv'
<1>1. /\ listings' \in [Postings -> [state : {"none", "open", "missing", "closed"},
                                     since : Int, missed : BOOLEAN]]
  BY DEF DiscoveryInv, DiscoveryTyped
<1>2. OpenIsCounted'
  BY DEF DiscoveryInv, OpenIsCounted
<1> QED
  BY <1>1, <1>2, LeaseGoes

LEMMA SaveSourceStep == ASSUME DiscoveryInv, SaveSource PROVE DiscoveryInv'
<1>1. SourceTyped /\ source.revision \in Int
  BY DEF DiscoveryInv, DiscoveryTyped, SourceTyped
<1>2. /\ SourceTyped' /\ source'.holder = "none"
      /\ source'.count = source.count /\ source'.reviewed = source.reviewed
  BY <1>1 DEF SaveSource, Idled, SourceTyped
<1> QED
  BY <1>2, CountStands DEF SaveSource

LEMMA ScheduleStep == ASSUME DiscoveryInv, Schedule PROVE DiscoveryInv'
<1>1. SourceTyped /\ source.revision \in Int /\ source.count \in Nat /\ source.pending \in Nat
      /\ source.reviewed \in BOOLEAN
  BY DEF DiscoveryInv, DiscoveryTyped, SourceTyped
<1>2. PICK acknowledged \in BOOLEAN :
        source' = [Idled(source) EXCEPT
          !.due = minute, !.health = "served", !.etag = << >>, !.revision = @ + 1,
          !.count = IF acknowledged THEN source.pending ELSE @,
          !.reviewed = @ \/ (acknowledged /\ source.pending = 0)]
  BY DEF Schedule
<1>3. /\ DOMAIN source' = DOMAIN source /\ source'.holder = "none" /\ source'.until = 0
      /\ source'.revision = source.revision + 1 /\ source'.pending = source.pending
  BY <1>1, <1>2 DEF Idled, SourceTyped
<1>4. source'.count = IF acknowledged THEN source.pending ELSE source.count
  BY <1>1, <1>2 DEF Idled, SourceTyped
<1>5. source'.reviewed = (source.reviewed \/ (acknowledged /\ source.pending = 0))
  BY <1>1, <1>2 DEF Idled, SourceTyped
<1>6. SourceTyped'
  BY <1>1, <1>3, <1>4, <1>5 DEF SourceTyped
<1>7. source'.count > 0 \/ source'.reviewed \/ ~(source.count > 0 \/ source.reviewed)
  BY <1>1, <1>4, <1>5
<1> QED
  BY <1>3, <1>6, <1>7, CountStands DEF Schedule

LEMMA DeferScanStep == ASSUME DiscoveryInv, NEW p \in Pollers, DeferScan(p) PROVE DiscoveryInv'
<1>1. SourceTyped /\ source.count \in Nat
  BY DEF DiscoveryInv, DiscoveryTyped, SourceTyped
<1>2. /\ SourceTyped' /\ source'.holder = "none"
      /\ source'.count = source.count /\ source'.reviewed = source.reviewed
  BY <1>1 DEF DeferScan, Idled, SourceTyped
<1> QED
  BY <1>2, CountStands DEF DeferScan, Quits

LEMMA FailSourceStep == ASSUME DiscoveryInv, NEW p \in Pollers, FailSource(p) PROVE DiscoveryInv'
<1>1. SourceTyped /\ source.count \in Nat
  BY DEF DiscoveryInv, DiscoveryTyped, SourceTyped
<1>2. PICK wait :
        source' = [Idled(source) EXCEPT
          !.health = Barred(poll[p].health), !.due = minute + wait,
          !.failures = IF @ < BackoffLimit THEN @ + 1 ELSE @]
  BY DEF FailSource
<1>3. /\ SourceTyped' /\ source'.holder = "none"
      /\ source'.count = source.count /\ source'.reviewed = source.reviewed
  BY <1>1, <1>2 DEF Idled, SourceTyped
<1> QED
  BY <1>3, CountStands DEF FailSource, Quits

LEMMA UnmodifiedStep ==
  ASSUME DiscoveryInv, NEW p \in Pollers, IngestUnmodified(p)
  PROVE  DiscoveryInv'
<1>1. /\ SourceTyped /\ minute \in Int /\ source.count \in Nat
      /\ listings \in [Postings -> [state : {"none", "open", "missing", "closed"}, since : Int,
                                    missed : BOOLEAN]]
  BY DEF DiscoveryInv, DiscoveryTyped, SourceTyped
<1>2. /\ SourceTyped' /\ source'.holder = "none"
      /\ source'.count = source.count /\ source'.reviewed = source.reviewed
  BY <1>1 DEF IngestUnmodified, Succeeded, Idled, SourceTyped
<1>3. ASSUME NEW x \in Postings
      PROVE  listings'[x] = Listing("closed", 0, TRUE) \/ listings'[x] = listings[x]
  BY DEF IngestUnmodified
<1>4. /\ Listing("closed", 0, TRUE) \in [state : {"none", "open", "missing", "closed"},
                                         since : Int, missed : BOOLEAN]
      /\ Listing("closed", 0, TRUE).state = "closed"
  BY DEF Listing
<1>5. listings' \in [Postings -> [state : {"none", "open", "missing", "closed"}, since : Int,
                                  missed : BOOLEAN]]
  <2>1. DOMAIN listings' = Postings /\ listings' = [x \in Postings |-> listings'[x]]
    BY DEF IngestUnmodified
  <2> QED
    BY <1>1, <1>3, <1>4, <2>1
<1>6. OpenIsCounted'
  BY <1>2, <1>3, <1>4 DEF DiscoveryInv, OpenIsCounted
<1> QED
  BY <1>2, <1>5, <1>6, LeaseGoes DEF IngestUnmodified, Quits

LEMMA BatchTyped ==
  ASSUME DiscoveryInv, NEW p \in Pollers, poll[p].pc = "checking"
  PROVE  /\ Batch(p) \subseteq Postings /\ Cardinality(Batch(p)) \in Nat
         /\ Batch(p) # {} => Cardinality(Batch(p)) > 0
<1>1. poll[p] \in PollerRow /\ RowSound(poll[p])
  BY PollKnown
<1>2. /\ poll[p].reads \in Seq(Reading) /\ poll[p].at \in Nat
      /\ poll[p].at <= Len(poll[p].reads)
  BY <1>1 DEF PollerRow, RowSound, Through
<1>3. ASSUME NEW i \in 1 .. poll[p].at
      PROVE  Elements(poll[p].reads[i].page) \subseteq Postings
  <2>1. poll[p].reads[i] \in Reading
    BY <1>2
  <2>2. poll[p].reads[i].page \in Seq(Postings)
    BY <2>1 DEF Reading
  <2> QED
    BY <2>2 DEF Elements
<1>4. Batch(p) \subseteq Postings
  BY <1>3 DEF Batch, Taken
<1>5. IsFiniteSet(Batch(p))
  BY <1>4, DiscoveryAssumption, FS_Subset
<1> QED
  BY <1>4, <1>5, FS_CardinalityType, FS_EmptySet

LEMMA IngestStep ==
  ASSUME DiscoveryInv, NEW p \in Pollers, Ingest(p)
  PROVE  DiscoveryInv'
<1> DEFINE doubtful == Warned(p) \/ Dropped(p)
           etag == IF Dropped(p) \/ connector = "paged" THEN << >> ELSE <<poll[p].reads[1].page>>
           ListingRow == [state : {"none", "open", "missing", "closed"}, since : Int, missed : BOOLEAN]
<1>1. /\ SourceTyped /\ minute \in Int /\ source.count \in Nat
      /\ listings \in [Postings -> ListingRow]
  BY DEF DiscoveryInv, DiscoveryTyped, SourceTyped
<1>2. /\ Batch(p) \subseteq Postings /\ Cardinality(Batch(p)) \in Nat
      /\ Batch(p) # {} => Cardinality(Batch(p)) > 0
  BY BatchTyped DEF Ingest
<1>3. /\ SourceTyped' /\ source'.holder = "none" /\ source'.reviewed = FALSE
      /\ source'.count = IF Dropped(p) THEN source.count ELSE Cardinality(Batch(p))
  <2>1. source' = [Succeeded EXCEPT
          !.count = IF Dropped(p) THEN @ ELSE Cardinality(Batch(p)),
          !.pending = Cardinality(Batch(p)), !.etag = etag, !.reviewed = FALSE]
    BY DEF Ingest
  <2> HIDE DEF etag
  <2>2. /\ DOMAIN Succeeded = DOMAIN source /\ Succeeded.holder = "none"
        /\ Succeeded.until = 0 /\ Succeeded.revision = source.revision
        /\ Succeeded.count = source.count
    BY <1>1 DEF Succeeded, Idled, SourceTyped
  <2>3. /\ DOMAIN source' = DOMAIN source /\ source'.holder = "none" /\ source'.until = 0
        /\ source'.revision = source.revision /\ source'.reviewed = FALSE
        /\ source'.pending = Cardinality(Batch(p))
    BY <1>1, <2>1, <2>2 DEF SourceTyped
  <2>4. source'.count = IF Dropped(p) THEN source.count ELSE Cardinality(Batch(p))
    BY <1>1, <2>1, <2>2 DEF SourceTyped
  <2>5. source'.count \in Nat
    BY <1>1, <1>2, <2>4
  <2>6. SourceTyped'
    <3>1. /\ source'.holder \in Pollers \cup {"none"} /\ source'.until \in Int
          /\ source'.revision \in Int /\ source'.pending \in Nat /\ source'.reviewed \in BOOLEAN
      <4>1. source.revision \in Int
        BY <1>1 DEF SourceTyped
      <4>2. Cardinality(Batch(p)) \in Nat
        BY <1>2
      <4>3. source'.reviewed \in BOOLEAN
        BY <2>3
      <4>4. source'.until \in Int /\ source'.revision \in Int /\ source'.pending \in Nat
        BY <2>3, <4>1, <4>2
      <4> QED
        BY <2>3, <4>3, <4>4
    <3> QED
      BY <1>1, <2>3, <2>5, <3>1 DEF SourceTyped
  <2> QED
    BY <2>3, <2>4, <2>6
<1>4. listings' = [x \in Postings |->
        IF x \in Batch(p) THEN IF Dropped(p) THEN listings[x] ELSE Seen(x)
        ELSE IF listings[x].state \in {"none", "closed"} \/ doubtful THEN listings[x]
        ELSE Missed(x)]
  BY DEF Ingest
<1> HIDE DEF doubtful
<1>5. ASSUME NEW x \in Postings
      PROVE  /\ Seen(x) \in ListingRow /\ Missed(x) \in ListingRow
             /\ Missed(x).state # "open" /\ listings[x] \in ListingRow
  <2>1. listings[x] \in ListingRow /\ listings[x].since \in Int
    BY <1>1
  <2>2. Missed(x) \in ListingRow /\ Missed(x).state # "open"
    <3> DEFINE since == IF listings[x].state = "missing" THEN listings[x].since ELSE minute
    <3>1. since \in Int
      BY <1>1, <2>1
    <3>2. Missed(x) = [state |-> "closed", since |-> 0, missed |-> TRUE]
          \/ Missed(x) = [state |-> "missing", since |-> since, missed |-> TRUE]
      BY DEF Missed, Listing
    <3> HIDE DEF since
    <3>3. [state |-> "closed", since |-> 0, missed |-> TRUE] \in ListingRow
      OBVIOUS
    <3>4. [state |-> "missing", since |-> since, missed |-> TRUE] \in ListingRow
      BY <3>1
    <3>5. Missed(x).state \in {"closed", "missing"}
      BY <3>2
    <3> HIDE DEF ListingRow
    <3> QED
      BY <3>2, <3>3, <3>4, <3>5
  <2> QED
    BY <2>1, <2>2 DEF Seen, Listing
<1>6. listings' \in [Postings -> ListingRow]
  <2> HIDE DEF ListingRow
  <2>1. ASSUME NEW x \in Postings
        PROVE  listings'[x] \in ListingRow
    BY <1>4, <1>5
  <2> QED
    BY <1>4, <2>1
<1>7. OpenIsCounted'
  <2>1. SUFFICES ASSUME NEW x \in Postings, listings'[x].state = "open"
                 PROVE  source'.count > 0
    BY DEF OpenIsCounted
  <2>2. CASE Dropped(p)
    <3>1. 2 * Cardinality(Batch(p)) < source.count => source.count > 0
      BY <1>1, <1>2
    <3>2. source.count > 0
      BY <2>2, <3>1 DEF Dropped
    <3> QED
      BY <1>3, <2>2, <3>2
  <2>3. CASE ~Dropped(p)
    <3>1. Batch(p) # {}
      <4>1. x \in Batch(p) \/ doubtful
        BY <1>4, <1>5, <2>1
      <4> QED
        BY <2>3, <4>1 DEF doubtful, Warned
    <3> QED
      BY <1>2, <1>3, <2>3, <3>1
  <2> QED
    BY <2>2, <2>3
<1> QED
  BY <1>3, <1>6, <1>7, LeaseGoes DEF Ingest, Quits

-----------------------------------------------------------------------------
LEMMA DiscoveryStep ==
  ASSUME DiscoveryInv, [DiscoveryNext]_discoveryVars
  PROVE  DiscoveryInv'
<1>1. ASSUME minute' \in Int, minute <= minute', feed' \in Seq(Postings),
             UNCHANGED <<source, scan, listings, poll>>
      PROVE  DiscoveryInv'
  <2>1. DiscoveryTyped'
    BY <1>1 DEF DiscoveryInv, DiscoveryTyped, SourceTyped
  <2>2. ScanSound' /\ OpenIsCounted'
    BY <1>1 DEF DiscoveryInv, ScanSound, OpenIsCounted
  <2>3. PollsSound'
    BY <1>1 DEF DiscoveryInv, PollsSound, RowSound, Through
  <2>4. LeaseFresh'
    <3>1. source.until - SourceLease \in Int /\ minute \in Int
      BY DiscoveryAssumption DEF DiscoveryInv, DiscoveryTyped, SourceTyped
    <3>2. ASSUME NEW p \in Pollers, source.holder = p
          PROVE  /\ source.until - SourceLease <= minute'
                 /\ poll[p].pc # "idle" => RowFresh(poll[p])
      BY <1>1, <3>1, <3>2 DEF DiscoveryInv, LeaseFresh
    <3> QED
      BY <1>1, <3>2 DEF LeaseFresh, RowFresh, Through
  <2> QED
    BY <2>1, <2>2, <2>3, <2>4 DEF DiscoveryInv
<1>2. minute \in Int /\ feed \in Seq(Postings)
  BY DEF DiscoveryInv, DiscoveryTyped
<1>3. CASE FeedChanges
  BY <1>1, <1>2, <1>3, DiscoveryAssumption DEF FeedChanges
<1>4. CASE Halt
  BY <1>1, <1>2, <1>4 DEF Halt
<1>5. CASE MinutePasses
  BY <1>1, <1>2, <1>5 DEF MinutePasses
<1>6. ASSUME NEW p \in Pollers, PollStep(p)
      PROVE  DiscoveryInv'
  BY <1>6, ClaimSourceStep, PollingSteps, DeferScanStep, FailSourceStep, UnmodifiedStep,
     IngestStep DEF PollStep
<1>7. CASE UNCHANGED discoveryVars
  BY <1>1, <1>2, <1>7 DEF discoveryVars
<1> QED
  BY <1>3, <1>4, <1>5, <1>6, <1>7, SaveSourceStep, ScheduleStep DEF DiscoveryNext

LEMMA DiscoveryInvHolds == DiscoverySpec => []DiscoveryInv
<1>1. DiscoveryInit => DiscoveryInv
  BY DiscoveryInitially
<1>2. DiscoveryInv /\ [DiscoveryNext]_discoveryVars => DiscoveryInv'
  BY DiscoveryStep
<1> QED
  BY <1>1, <1>2, PTL DEF DiscoverySpec

LEMMA FreshIsVerified == DiscoveryInv => IngestedIsVerified
<1> SUFFICES ASSUME DiscoveryInv, NEW p \in Pollers, poll[p].pc = "checking",
                    Unchecked(p) = {}, HeldBy(p), NEW n \in 1 .. poll[p].at
             PROVE  /\ poll[p].reads[n].revision = source.revision
                    /\ minute - poll[p].reads[n].verified
                         < SourceLease + (IF n = 1 THEN 0 ELSE VerifyTerm)
  BY DEF IngestedIsVerified
<1>1. /\ poll[p] \in PollerRow /\ RowSound(poll[p]) /\ RowFresh(poll[p])
      /\ minute \in Int /\ source.until \in Int /\ minute < source.until
  BY PollKnown DEF HeldBy
<1>2. Through(poll[p]) = poll[p].at /\ poll[p].at \in Nat /\ Len(poll[p].reads) \in Nat
  BY <1>1 DEF Through, PollerRow
<1>3. n \in 1 .. Len(poll[p].reads) /\ poll[p].reads[n] \in Reading
  BY <1>1, <1>2 DEF RowSound, PollerRow
<1>4. poll[p].reads[n].revision = source.revision
  BY <1>1, <1>3 DEF RowSound, RowFresh
<1>5. SourceLease \in Nat \ {0} /\ VerifyTerm \in Nat /\ poll[p].reads[n].verified \in Int
  BY <1>3, DiscoveryAssumption DEF Reading
<1>6. CASE n \in poll[p].cached
  <2>1. n # 1
    BY <1>1, <1>6 DEF RowSound
  <2>2. minute - poll[p].reads[n].verified <= VerifyTerm
    BY <1>6 DEF Unchecked
  <2> QED
    BY <1>1, <1>4, <1>5, <2>1, <2>2
<1>7. CASE n \notin poll[p].cached
  <2>1. poll[p].reads[n].verified >= source.until - SourceLease
    BY <1>1, <1>2, <1>7 DEF RowFresh
  <2> QED
    BY <1>1, <1>4, <1>5, <2>1
<1> QED
  BY <1>6, <1>7

\* A batch that may be ingested is of pages all read under the source's present
\* revision, the first in this lease and each other at most a verification term
\* before it: whatever slices, pollers, halts and changes of the source and of
\* its configuration its scan went through.
THEOREM ScansAreVerified == DiscoverySpec => []IngestedIsVerified
<1>1. DiscoveryInv => IngestedIsVerified
  BY FreshIsVerified
<1> QED
  BY <1>1, DiscoveryInvHolds, PTL

LEMMA EmptiedIsReviewed ==
  ASSUME DiscoveryInv, [DiscoveryNext]_discoveryVars,
         \E x \in Postings : listings[x].state = "open",
         \A x \in Postings : listings'[x].state # "open"
  PROVE  source.reviewed
<1>1. PICK y \in Postings : listings[y].state = "open"
  OBVIOUS
<1>2. listings' # listings
  BY <1>1
<1>3. source.count \in Nat /\ source.reviewed \in BOOLEAN /\ OpenIsCounted
  BY DEF DiscoveryInv, DiscoveryTyped, SourceTyped
<1>4. PICK p \in Pollers : IngestUnmodified(p) \/ Ingest(p)
  <2>1. ASSUME NEW p \in Pollers, PollStep(p)
        PROVE  IngestUnmodified(p) \/ Ingest(p)
    BY <1>2, <2>1 DEF PollStep, ClaimSource, LoadScan, UseCached, Yield, FetchPage, NotModified,
                      FetchFails, SaveScanRead, Drift, DeferScan, FailSource, GiveUp, PollerStops
  <2> QED
    BY <1>2, <2>1 DEF DiscoveryNext, discoveryVars, FeedChanges, Halt, SaveSource, Schedule,
                      MinutePasses
<1>5. CASE IngestUnmodified(p)
  <2>1. listings'[y] = listings[y]
    BY <1>1, <1>5 DEF IngestUnmodified
  <2> QED
    BY <1>1, <2>1
<1>6. CASE Ingest(p)
  <2>1. ~Dropped(p) /\ y \notin Batch(p)
    BY <1>1, <1>6 DEF Ingest, Seen, Listing
  <2>2. Batch(p) = {}
    <3>1. Batch(p) \subseteq Postings
      BY <1>6, BatchTyped DEF Ingest
    <3>2. ASSUME NEW x \in Batch(p)
          PROVE  listings'[x].state = "open"
      BY <1>6, <2>1, <3>1 DEF Ingest, Seen, Listing
    <3> QED
      BY <3>1, <3>2
  <2>3. ~(source.count > 0)
    BY <2>1, <2>2 DEF Dropped
  <2> QED
    BY <1>1, <1>3, <2>3 DEF OpenIsCounted
<1> QED
  BY <1>4, <1>5, <1>6

\* The last open listings of a source are never lost but after its owner has
\* acknowledged that it is empty, whatever polls failed, expired or were
\* doubtful in between.
THEOREM EmptySourcesAreReviewed == DiscoverySpec => EmptyIsReviewed
<1>1. /\ DiscoveryInv /\ [DiscoveryNext]_discoveryVars
      => [(\E x \in Postings : listings[x].state = "open")
          /\ (\A x \in Postings : listings'[x].state # "open")
            => source.reviewed]_discoveryVars
  BY EmptiedIsReviewed
<1> QED
  BY <1>1, DiscoveryInvHolds, PTL DEF DiscoverySpec, EmptyIsReviewed

-----------------------------------------------------------------------------
(* Experiments: what an enrolled application is sent with                   *)

Generation ==
  [app : Enrollable, job : Nat,
   state : {"queued", "drafting", "prepared", "failed", "assigned"}, packet : Nat,
   fresh : BOOLEAN, current : BOOLEAN, task : {"ready", "leased", "done"},
   fence : Nat, tries : Nat, draft : Nat]

GenerationsTyped ==
  \E n \in Nat : generations \in [1 .. n -> Generation]

ApplicationsTyped ==
  appl \in [Enrollable -> [state : {"ELIGIBLE", "PREPARED", "READY", "INTENT_RECORDED",
                                    "IN_FLIGHT"}, inspection : Nat, submit : Nat]]

PacketsTyped == DOMAIN packets \subseteq Nat /\ IsFiniteSet(DOMAIN packets)

\* A worker that drafts has a generation.
DraftersTyped ==
  /\ drafting \in [Drafters -> [gen : Nat, fence : Nat, begun : BOOLEAN]]
  /\ \A w \in Drafters : drafting[w].gen \in GenerationIds \cup {0}
  /\ \A w \in Drafters : drafting[w].gen = 0 => drafting[w].begun = FALSE

AssignedTyped ==
  /\ assigned \in [Enrollable -> [packet : Nat, job : Nat]]
  /\ sentAs \in [Enrollable -> [packet : Nat, assignment : Nat, sent : BOOLEAN]]

TrialTyped ==
  GenerationsTyped /\ ApplicationsTyped /\ PacketsTyped /\ DraftersTyped /\ AssignedTyped

\* A letter is assigned together with the application it was generated for.
AssignedTogether ==
  \A g \in GenerationIds :
    generations[g].state = "assigned" => assigned[generations[g].app] # Unassigned

\* What was sent is in flight, where nothing enrolls, prepares or assigns it again.
SentIsInFlight == \A a \in Enrollable : sentAs[a].sent => appl[a].state = "IN_FLIGHT"

TrialInv == TrialTyped /\ AssignedTogether /\ SentIsInFlight /\ SentAsAssigned

\* A step that dispatches nothing leaves what is in flight, and letters assigned, alone.
Undisturbed ==
  /\ \A a \in Enrollable :
       /\ appl[a].state = "IN_FLIGHT" =>
            appl'[a].state = "IN_FLIGHT" /\ assigned'[a] = assigned[a]
       /\ assigned[a] # Unassigned => assigned'[a] # Unassigned
       /\ sentAs'[a].sent => sentAs[a].sent /\ sentAs'[a].packet = sentAs[a].packet
  /\ \A g \in GenerationIds :
       /\ g \in GenerationIds' /\ generations'[g].app = generations[g].app
       /\ generations[g].state = "assigned" =>
            generations'[g].state = "assigned" /\ generations'[g].packet = generations[g].packet
       /\ generations'[g].state = "assigned" =>
            generations[g].state = "assigned" \/ assigned'[generations[g].app] # Unassigned
  /\ \A g \in GenerationIds' \ GenerationIds :
       /\ generations'[g].state # "assigned"
       /\ appl[generations'[g].app].state # "IN_FLIGHT"

LEMMA UndisturbedKeeps ==
  ASSUME TrialInv, TrialTyped', Undisturbed
  PROVE  TrialInv'
<1>0. /\ AssignedTogether /\ SentIsInFlight /\ SentAsAssigned
      /\ \A g \in GenerationIds : generations[g].app \in Enrollable
      /\ \A g \in GenerationIds' : generations'[g].app \in Enrollable
  BY DEF TrialInv, TrialTyped, GenerationsTyped, Generation, GenerationIds
<1>1. AssignedTogether'
  BY <1>0 DEF AssignedTogether, Undisturbed, Unassigned
<1>2. SentIsInFlight'
  BY <1>0 DEF SentIsInFlight, Undisturbed
<1>3. SentAsAssigned'
  <2> SUFFICES ASSUME NEW a \in Enrollable, sentAs'[a].sent
               PROVE  /\ assigned'[a] # Unassigned => sentAs'[a].packet = assigned'[a].packet
                      /\ (\E g \in GenerationIds' : generations'[g].app = a) =>
                           \E g \in GenerationIds' :
                             /\ generations'[g].app = a /\ generations'[g].state = "assigned"
                             /\ generations'[g].packet = sentAs'[a].packet
    BY DEF SentAsAssigned, Unassigned
  <2>1. /\ sentAs[a].sent /\ sentAs'[a].packet = sentAs[a].packet
        /\ appl[a].state = "IN_FLIGHT" /\ assigned'[a] = assigned[a]
    BY <1>0 DEF Undisturbed, SentIsInFlight
  <2>2. ASSUME NEW g \in GenerationIds', generations'[g].app = a
        PROVE  g \in GenerationIds /\ generations[g].app = a
    BY <2>1, <2>2 DEF Undisturbed
  <2>3. ASSUME NEW g \in GenerationIds, generations[g].app = a,
               generations[g].state = "assigned", generations[g].packet = sentAs[a].packet
        PROVE  /\ g \in GenerationIds' /\ generations'[g].app = a
               /\ generations'[g].state = "assigned"
               /\ generations'[g].packet = sentAs'[a].packet
    BY <2>1, <2>3 DEF Undisturbed
  <2> QED
    BY <1>0, <2>1, <2>2, <2>3 DEF SentAsAssigned, Unassigned
<1> QED
  BY <1>1, <1>2, <1>3 DEF TrialInv

LEMMA CanonicalJobIsJob ==
  ASSUME NEW a \in Enrollable
  PROVE  CanonicalJob(a) \in Nat
<1>1. Vacancy(a) \in SUBSET Nat /\ Vacancy(a) # {}
  BY ExperimentsAssumption DEF Vacancy
<1>2. PICK j \in Vacancy(a) : \A k \in Vacancy(a) : j <= k
  BY <1>1, LeastNumber
<1>3. CanonicalJob(a) \in Vacancy(a)
  BY <1>2 DEF CanonicalJob
<1> QED
  BY <1>1, <1>3

LEMMA CountedGenerations ==
  ASSUME GenerationsTyped
  PROVE  /\ Cardinality(GenerationIds) \in Nat
         /\ GenerationIds = 1 .. Cardinality(GenerationIds)
         /\ generations \in [GenerationIds -> Generation]
<1>1. PICK n \in Nat : generations \in [1 .. n -> Generation]
  BY DEF GenerationsTyped
<1>2. Cardinality(1 .. n) = n
  BY FS_Interval
<1> QED
  BY <1>1, <1>2 DEF GenerationIds

\* Rows that are written, none of them new.
LEMMA RowsTyped ==
  ASSUME GenerationsTyped, generations' \in [GenerationIds -> Generation]
  PROVE  GenerationsTyped' /\ GenerationIds' = GenerationIds
  BY CountedGenerations DEF GenerationsTyped, GenerationIds

LEMMA OutdatedRows ==
  ASSUME GenerationsTyped, NEW a \in Enrollable
  PROVE  /\ Outdated(generations, a) \in [GenerationIds -> Generation]
         /\ \A g \in GenerationIds :
              /\ Outdated(generations, a)[g].app = generations[g].app
              /\ Outdated(generations, a)[g].state = generations[g].state
              /\ Outdated(generations, a)[g].packet = generations[g].packet
<1>1. ASSUME NEW g \in GenerationIds
      PROVE  /\ Outdated(generations, a)[g] \in Generation
             /\ Outdated(generations, a)[g].app = generations[g].app
             /\ Outdated(generations, a)[g].state = generations[g].state
             /\ Outdated(generations, a)[g].packet = generations[g].packet
  <2>1. generations[g] \in Generation
    BY <1>1, CountedGenerations
  <2>2. Outdated(generations, a)[g]
          = [generations[g] EXCEPT !.current = @ /\ generations[g].app # a]
    BY <1>1 DEF Outdated, GenerationIds
  <2> QED
    BY <2>1, <2>2 DEF Generation
<1>2. Outdated(generations, a) = [g \in GenerationIds |-> Outdated(generations, a)[g]]
  BY DEF Outdated, GenerationIds
<1> QED
  BY <1>1, <1>2

LEMMA EndedRows ==
  ASSUME GenerationsTyped, NEW g, NEW state,
         g \in GenerationIds =>
           state \in {"queued", "drafting", "prepared", "failed", "assigned"}
  PROVE  /\ Ended(g, state) \in [GenerationIds -> Generation]
         /\ \A h \in GenerationIds :
              /\ Ended(g, state)[h].app = generations[h].app
              /\ Ended(g, state)[h].packet = generations[h].packet
              /\ Ended(g, state)[h].state = IF h = g THEN state ELSE generations[h].state
<1> DEFINE done == [generations EXCEPT ![g].task = "done"]
<1>1. /\ done \in [GenerationIds -> Generation]
      /\ \A h \in GenerationIds : /\ done[h].app = generations[h].app
                                /\ done[h].packet = generations[h].packet
                                /\ done[h].state = generations[h].state
  <2>1. generations \in [GenerationIds -> Generation]
    BY CountedGenerations
  <2>2. CASE g \notin GenerationIds
    <3>1. done = generations
      BY <2>1, <2>2
    <3> QED
      BY <2>1, <3>1
  <2>3. CASE g \in GenerationIds
    <3> DEFINE row == [generations[g] EXCEPT !.task = "done"]
    <3>1. generations[g] \in Generation
      BY <2>1, <2>3
    <3>2. /\ row \in Generation /\ row.app = generations[g].app
          /\ row.packet = generations[g].packet /\ row.state = generations[g].state
      BY <3>1 DEF Generation
    <3>3. done = [generations EXCEPT ![g] = row]
      BY <2>3
    <3> HIDE DEF row, done
    <3> QED
      BY <2>1, <2>3, <3>2, <3>3
  <2> QED
    BY <2>2, <2>3
<1>2. Ended(g, state) = [done EXCEPT ![g].state = state]
  BY DEF Ended
<1> HIDE DEF done
<1>3. CASE g \notin GenerationIds
  BY <1>1, <1>2, <1>3
<1>4. CASE g \in GenerationIds
  <2> DEFINE row == [done[g] EXCEPT !.state = state]
  <2>1. done[g] \in Generation
    BY <1>1, <1>4
  <2>2. /\ row \in Generation /\ row.app = done[g].app
        /\ row.packet = done[g].packet /\ row.state = state
    BY <1>4, <2>1 DEF Generation
  <2>3. Ended(g, state) = [done EXCEPT ![g] = row]
    BY <1>2
  <2> HIDE DEF row
  <2> QED
    BY <1>1, <1>4, <2>2, <2>3
<1> QED
  BY <1>3, <1>4

LEMMA EnrollmentsTyped ==
  ASSUME TrialTyped, NEW a \in Enrollable, CreateGeneration(a)
  PROVE  TrialTyped' /\ Undisturbed
<1> DEFINE retired == [g \in GenerationIds |->
              IF generations[g].app = a /\ generations[g].state = "prepared"
                   /\ ~Valid(generations[g].packet)
              THEN [generations[g] EXCEPT !.state = "failed"] ELSE generations[g]]
           n == Cardinality(GenerationIds) + 1
           new == [app |-> a, job |-> CanonicalJob(a), state |-> "queued", packet |-> 0,
                   fresh |-> TRUE, current |-> TRUE, task |-> "ready", fence |-> 0, tries |-> 0,
                   draft |-> 0]
<1>1. /\ n \in Nat /\ GenerationIds = 1 .. (n - 1)
      /\ generations \in [GenerationIds -> Generation]
  BY CountedGenerations DEF TrialTyped
<1>2. new \in Generation
  BY CanonicalJobIsJob DEF Generation
<1>3. \A g \in GenerationIds :
        /\ retired[g] \in Generation
        /\ retired[g].app = generations[g].app /\ retired[g].packet = generations[g].packet
        /\ retired[g].state = "assigned" <=> generations[g].state = "assigned"
  BY <1>1 DEF Generation
<1>4. /\ generations' = [g \in 1 .. n |-> IF g < n THEN retired[g] ELSE new]
      /\ appl[a].state \in {"ELIGIBLE", "PREPARED"}
      /\ packets' = PacketsWithout(a) /\ UNCHANGED <<appl, assigned, drafting, sentAs>>
  BY DEF CreateGeneration
<1> HIDE DEF retired, new, n
<1>5. generations' \in [1 .. n -> Generation] /\ GenerationIds' = 1 .. n
  BY <1>1, <1>2, <1>3, <1>4 DEF GenerationIds
<1>6. \A g \in GenerationIds : g \in GenerationIds' /\ generations'[g] = retired[g]
  BY <1>1, <1>4, <1>5
<1>7. \A g \in GenerationIds' \ GenerationIds : generations'[g] = new
  BY <1>1, <1>4, <1>5
<1>8. TrialTyped'
  <2>1. GenerationsTyped'
    BY <1>1, <1>5 DEF GenerationsTyped
  <2>2. DOMAIN packets' = DOMAIN packets
    BY <1>4 DEF PacketsWithout
  <2> QED
    BY <1>4, <1>6, <2>1, <2>2 DEF TrialTyped, ApplicationsTyped, PacketsTyped, DraftersTyped,
       AssignedTyped
<1>9. new.app = a /\ new.state = "queued"
  BY DEF new
<1>10. ASSUME NEW g \in GenerationIds
       PROVE  /\ g \in GenerationIds' /\ generations'[g].app = generations[g].app
              /\ generations[g].state = "assigned" =>
                   generations'[g].state = "assigned"
                   /\ generations'[g].packet = generations[g].packet
              /\ generations'[g].state = "assigned" => generations[g].state = "assigned"
  BY <1>3, <1>6
<1>11. ASSUME NEW g \in GenerationIds' \ GenerationIds
       PROVE  /\ generations'[g].state # "assigned"
              /\ appl[generations'[g].app].state # "IN_FLIGHT"
  BY <1>4, <1>7, <1>9
<1>12. \A b \in Enrollable :
         /\ appl[b].state = "IN_FLIGHT" =>
              appl'[b].state = "IN_FLIGHT" /\ assigned'[b] = assigned[b]
         /\ assigned[b] # Unassigned => assigned'[b] # Unassigned
         /\ sentAs'[b].sent => sentAs[b].sent /\ sentAs'[b].packet = sentAs[b].packet
  BY <1>4
<1> QED
  BY <1>8, <1>10, <1>11, <1>12 DEF Undisturbed

\* What is written of a task says nothing of the letter.
LEMMA TaskWritten ==
  ASSUME TrialTyped, generations' \in [GenerationIds -> Generation],
         \A g \in GenerationIds : /\ generations'[g].app = generations[g].app
                                  /\ generations'[g].packet = generations[g].packet
                                  /\ generations'[g].state = "assigned"
                                       <=> generations[g].state = "assigned",
         ApplicationsTyped', PacketsTyped', DraftersTyped', UNCHANGED <<assigned, sentAs>>,
         \A a \in Enrollable : appl[a].state = "IN_FLIGHT" => appl'[a].state = "IN_FLIGHT"
  PROVE  TrialTyped' /\ Undisturbed
<1>1. GenerationsTyped' /\ GenerationIds' = GenerationIds
  BY RowsTyped DEF TrialTyped
<1>2. TrialTyped'
  BY <1>1 DEF TrialTyped, AssignedTyped
<1> QED
  BY <1>1, <1>2 DEF Undisturbed

LEMMA DrafterGoesIdle ==
  ASSUME DraftersTyped, NEW w \in Drafters, drafting' = [drafting EXCEPT ![w] = IdleDrafter],
         GenerationIds' = GenerationIds
  PROVE  DraftersTyped'
  BY DEF DraftersTyped, IdleDrafter

LEMMA LeaseDraftKeeps ==
  ASSUME TrialTyped, NEW w \in Drafters, NEW g \in GenerationIds, LeaseDraft(w, g)
  PROVE  TrialTyped' /\ Undisturbed
<1> DEFINE leased == [generations EXCEPT ![g].task = "leased"]
           fenced == [leased EXCEPT ![g].fence = @ + 1]
<1>0. generations \in [GenerationIds -> Generation] /\ generations[g].fence \in Nat
  BY CountedGenerations DEF TrialTyped, Generation
<1>1. /\ leased \in [GenerationIds -> Generation]
      /\ \A h \in GenerationIds : /\ leased[h].app = generations[h].app
                                  /\ leased[h].packet = generations[h].packet
                                  /\ leased[h].state = generations[h].state
  BY <1>0 DEF Generation
<1>2. generations' = [fenced EXCEPT ![g].tries = @ + 1]
  BY DEF LeaseDraft
<1> HIDE DEF leased
<1>3. /\ fenced \in [GenerationIds -> Generation]
      /\ \A h \in GenerationIds : /\ fenced[h].app = generations[h].app
                                  /\ fenced[h].packet = generations[h].packet
                                  /\ fenced[h].state = generations[h].state
  BY <1>1 DEF Generation
<1> HIDE DEF fenced
<1>4. /\ generations' \in [GenerationIds -> Generation]
      /\ \A h \in GenerationIds : /\ generations'[h].app = generations[h].app
                                  /\ generations'[h].packet = generations[h].packet
                                  /\ generations'[h].state = generations[h].state
  BY <1>2, <1>3 DEF Generation
<1>5. /\ drafting' = [drafting EXCEPT ![w] =
           [gen |-> g, fence |-> generations[g].fence + 1, begun |-> FALSE]]
      /\ g \in Nat
  BY CountedGenerations DEF LeaseDraft, TrialTyped
<1>6. DraftersTyped'
  BY <1>0, <1>4, <1>5, RowsTyped DEF TrialTyped, DraftersTyped
<1>7. UNCHANGED <<appl, packets, assigned, sentAs>>
  BY DEF LeaseDraft
<1> QED
  BY <1>4, <1>6, <1>7, TaskWritten DEF TrialTyped, ApplicationsTyped, PacketsTyped

LEMMA FailGenerationKeeps ==
  ASSUME TrialTyped, NEW w \in Drafters, FailGeneration(w)
  PROVE  TrialTyped' /\ Undisturbed
<1> DEFINE g == drafting[w].gen
           state == IF generations[g].state \in {"queued", "drafting"}
                    THEN "failed" ELSE generations[g].state
<1>0. GenerationsTyped /\ generations \in [GenerationIds -> Generation]
  BY CountedGenerations DEF TrialTyped
<1>1. g \in GenerationIds =>
        /\ state \in {"queued", "drafting", "prepared", "failed", "assigned"}
        /\ state = "assigned" <=> generations[g].state = "assigned"
  BY <1>0 DEF Generation
<1>2. /\ generations' = generations \/ generations' = Ended(g, state)
      /\ drafting' = [drafting EXCEPT ![w] = IdleDrafter]
      /\ UNCHANGED <<appl, packets, assigned, sentAs>>
  BY DEF FailGeneration
<1> HIDE DEF state
<1>3. /\ generations' \in [GenerationIds -> Generation]
      /\ \A h \in GenerationIds : /\ generations'[h].app = generations[h].app
                                  /\ generations'[h].packet = generations[h].packet
                                  /\ generations'[h].state = "assigned"
                                       <=> generations[h].state = "assigned"
  BY <1>0, <1>1, <1>2, EndedRows
<1> QED
  BY <1>2, <1>3, RowsTyped, DrafterGoesIdle, TaskWritten
     DEF TrialTyped, ApplicationsTyped, PacketsTyped

LEMMA BeginDraftKeeps ==
  ASSUME TrialTyped, NEW w \in Drafters, BeginDraft(w)
  PROVE  TrialTyped' /\ Undisturbed
<1> DEFINE g == drafting[w].gen
           begun == [generations EXCEPT ![g].state = "drafting"]
<1>0. /\ generations \in [GenerationIds -> Generation]
      /\ g \in GenerationIds /\ drafting[w].fence \in Nat
      /\ generations[g].state = "queued"
      /\ drafting' = [drafting EXCEPT ![w].begun = TRUE]
      /\ generations' = [begun EXCEPT ![g].draft = drafting[w].fence]
      /\ UNCHANGED <<appl, packets, assigned, sentAs>>
  BY CountedGenerations DEF TrialTyped, DraftersTyped, BeginDraft, Begins
<1>1. /\ begun \in [GenerationIds -> Generation]
      /\ \A h \in GenerationIds : /\ begun[h].app = generations[h].app
                                  /\ begun[h].packet = generations[h].packet
                                  /\ begun[h].state = "assigned"
                                       <=> generations[h].state = "assigned"
  BY <1>0 DEF Generation
<1> HIDE DEF begun
<1>2. /\ generations' \in [GenerationIds -> Generation]
      /\ \A h \in GenerationIds : /\ generations'[h].app = generations[h].app
                                  /\ generations'[h].packet = generations[h].packet
                                  /\ generations'[h].state = "assigned"
                                       <=> generations[h].state = "assigned"
  <2> DEFINE row == [begun[g] EXCEPT !.draft = drafting[w].fence]
  <2>1. begun[g] \in Generation /\ drafting[w].fence \in Nat
    BY <1>0, <1>1
  <2>2. /\ row \in Generation /\ row.app = begun[g].app
        /\ row.packet = begun[g].packet /\ row.state = begun[g].state
    BY <2>1 DEF Generation
  <2>3. generations' = [begun EXCEPT ![g] = row]
    BY <1>0
  <2>4. g \in GenerationIds
    BY <1>0
  <2> HIDE DEF row, g
  <2> QED
    BY ONLY <1>1, <2>2, <2>3, <2>4
<1>3. DraftersTyped'
  <2>1. GenerationIds' = GenerationIds
    BY <1>2, RowsTyped DEF TrialTyped
  <2>2. g # 0 /\ drafting' = [drafting EXCEPT ![w].begun = TRUE]
    BY DEF BeginDraft, Begins
  <2> QED
    BY <2>1, <2>2 DEF TrialTyped, DraftersTyped
<1>4. UNCHANGED <<appl, packets, assigned, sentAs>>
  BY <1>0
<1> QED
  BY <1>2, <1>3, <1>4, TaskWritten DEF TrialTyped, ApplicationsTyped, PacketsTyped

LEMMA InspectionQueued ==
  ASSUME ApplicationsTyped, NEW a \in Enrollable, NEW p \in Nat,
         appl' = [appl EXCEPT ![a].inspection = p]
  PROVE  /\ ApplicationsTyped'
         /\ \A b \in Enrollable : appl[b].state = "IN_FLIGHT" => appl'[b].state = "IN_FLIGHT"
  BY DEF ApplicationsTyped

LEMMA ReplayDraftKeeps ==
  ASSUME TrialTyped, NEW w \in Drafters, ReplayDraft(w)
  PROVE  TrialTyped' /\ Undisturbed
<1> DEFINE g == drafting[w].gen
           state == generations[g].state
<1>0. GenerationsTyped /\ generations \in [GenerationIds -> Generation]
  BY CountedGenerations DEF TrialTyped
<1>1. g \in GenerationIds
  BY DEF TrialTyped, DraftersTyped, ReplayDraft, Begins
<1>2. generations[g] \in Generation
  BY <1>0, <1>1
<1>3. /\ state \in {"queued", "drafting", "prepared", "failed", "assigned"}
      /\ generations[g].app \in Enrollable /\ generations[g].packet \in Nat
  BY <1>2 DEF Generation
<1>4. /\ generations' = Ended(g, state)
      /\ appl' = [appl EXCEPT ![generations[g].app].inspection = generations[g].packet]
  BY DEF ReplayDraft
<1>5. /\ drafting' = [drafting EXCEPT ![w] = IdleDrafter]
      /\ UNCHANGED <<packets, assigned, sentAs>>
  BY DEF ReplayDraft
<1>6. /\ generations' \in [GenerationIds -> Generation]
      /\ \A h \in GenerationIds : /\ generations'[h].app = generations[h].app
                                  /\ generations'[h].packet = generations[h].packet
                                  /\ generations'[h].state = "assigned"
                                       <=> generations[h].state = "assigned"
  <2>1. /\ generations' \in [GenerationIds -> Generation]
        /\ \A h \in GenerationIds :
             /\ generations'[h].app = generations[h].app
             /\ generations'[h].packet = generations[h].packet
             /\ generations'[h].state = IF h = g THEN state ELSE generations[h].state
    <3> HIDE DEF g, state
    <3> QED
      BY ONLY <1>0, <1>3, <1>4, EndedRows
  <2> QED
    BY <2>1
<1>7. /\ GenerationsTyped /\ ApplicationsTyped /\ PacketsTyped /\ DraftersTyped
      /\ GenerationIds' = GenerationIds
  BY <1>6, RowsTyped DEF TrialTyped
<1>8. DraftersTyped'
  BY <1>5, <1>7, DrafterGoesIdle
<1>9. /\ ApplicationsTyped'
      /\ \A b \in Enrollable : appl[b].state = "IN_FLIGHT" => appl'[b].state = "IN_FLIGHT"
  <2> DEFINE a == generations[g].app
             p == generations[g].packet
  <2>1. a \in Enrollable /\ p \in Nat /\ appl' = [appl EXCEPT ![a].inspection = p]
    BY <1>3, <1>4
  <2> HIDE DEF a, p
  <2> QED
    BY ONLY <1>7, <2>1, InspectionQueued
<1>10. PacketsTyped'
  BY <1>5, <1>7 DEF PacketsTyped
<1> QED
  BY <1>5, <1>6, <1>8, <1>9, <1>10, TaskWritten
     DEF TrialTyped, ApplicationsTyped, PacketsTyped

LEMMA PublishKeeps ==
  ASSUME TrialTyped, NEW w \in Drafters, Publish(w)
  PROVE  TrialTyped' /\ Undisturbed
<1> DEFINE g == drafting[w].gen
           a == generations[g].app
           p == Cardinality(DOMAIN packets) + 1
           old == Outdated(generations, a)
           saved == [old EXCEPT ![g].state = "prepared"]
<1>0. GenerationsTyped /\ generations \in [GenerationIds -> Generation]
  BY CountedGenerations DEF TrialTyped
<1>1. g \in GenerationIds
  BY DEF TrialTyped, DraftersTyped, Publish, HoldsDraft
<1>2. generations[g] \in Generation
  BY <1>0, <1>1
<1>3. a \in Enrollable /\ p \in Nat
  BY <1>2, FS_CardinalityType DEF Generation, TrialTyped, PacketsTyped
<1>4. /\ generations[g].state = "drafting" /\ appl[a].state \in {"ELIGIBLE", "PREPARED"}
      /\ generations' = [saved EXCEPT ![g].packet = p]
      /\ appl' = [appl EXCEPT ![a].state = "PREPARED"]
  BY DEF Publish, Checked
<1>5. UNCHANGED <<assigned, sentAs, drafting>> /\ DOMAIN packets' = 1 .. p
  BY DEF Publish
<1>6. /\ old \in [GenerationIds -> Generation]
      /\ \A h \in GenerationIds : /\ old[h].app = generations[h].app
                                  /\ old[h].state = generations[h].state
                                  /\ old[h].packet = generations[h].packet
  BY <1>0, <1>3, OutdatedRows
<1> HIDE DEF a, old, p
<1>7. /\ saved \in [GenerationIds -> Generation]
      /\ \A h \in GenerationIds : /\ saved[h].app = generations[h].app
                                  /\ h # g => saved[h].state = generations[h].state
                                  /\ h # g => saved[h].packet = generations[h].packet
                                  /\ h = g => saved[h].state = "prepared"
  BY <1>1, <1>6 DEF Generation
<1> HIDE DEF saved
<1>8. /\ generations' \in [GenerationIds -> Generation]
      /\ \A h \in GenerationIds : /\ generations'[h].app = generations[h].app
                                  /\ h # g => generations'[h].state = generations[h].state
                                  /\ h # g => generations'[h].packet = generations[h].packet
                                  /\ h = g => generations'[h].state = "prepared"
  BY <1>1, <1>3, <1>4, <1>7 DEF Generation
<1>9. GenerationsTyped' /\ GenerationIds' = GenerationIds
  BY <1>0, <1>8, RowsTyped
<1>10. IsFiniteSet(1 .. p) /\ 1 .. p \subseteq Nat
  BY <1>3, FS_Interval
<1>11. TrialTyped'
  <2>1. ApplicationsTyped'
    BY <1>3, <1>4 DEF TrialTyped, ApplicationsTyped
  <2>2. PacketsTyped' /\ DraftersTyped' /\ AssignedTyped'
    BY <1>5, <1>9, <1>10 DEF TrialTyped, PacketsTyped, DraftersTyped, AssignedTyped
  <2> QED
    BY <1>9, <2>1, <2>2 DEF TrialTyped
<1>12. \A b \in Enrollable : appl[b].state = "IN_FLIGHT" => appl'[b].state = "IN_FLIGHT"
  BY <1>3, <1>4 DEF TrialTyped, ApplicationsTyped
<1> QED
  BY <1>4, <1>5, <1>8, <1>9, <1>11, <1>12 DEF Undisturbed

LEMMA QueueInspectionKeeps ==
  ASSUME TrialTyped, NEW w \in Drafters, QueueInspection(w)
  PROVE  TrialTyped' /\ Undisturbed
<1> DEFINE g == drafting[w].gen
<1>0. GenerationsTyped /\ generations \in [GenerationIds -> Generation]
  BY CountedGenerations DEF TrialTyped
<1>1. g \in GenerationIds => generations[g] \in Generation
  BY <1>0
<1>2. /\ generations' = generations \/ generations' = Ended(g, "prepared")
      /\ generations[g].state = "prepared"
  BY DEF QueueInspection
<1>3. /\ drafting' = [drafting EXCEPT ![w] = IdleDrafter]
      /\ UNCHANGED <<packets, assigned, sentAs>>
  BY DEF QueueInspection
<1>4. /\ generations' \in [GenerationIds -> Generation]
      /\ \A h \in GenerationIds : /\ generations'[h].app = generations[h].app
                                  /\ generations'[h].packet = generations[h].packet
                                  /\ generations'[h].state = generations[h].state
  BY <1>0, <1>2, EndedRows
<1>5. /\ ApplicationsTyped'
      /\ \A b \in Enrollable : appl[b].state = "IN_FLIGHT" => appl'[b].state = "IN_FLIGHT"
  <2>1. CASE appl' = appl
    BY <2>1 DEF TrialTyped, ApplicationsTyped
  <2>2. CASE appl' = [appl EXCEPT ![generations[g].app].inspection = generations[g].packet]
    <3>1. g \in GenerationIds
      BY DEF QueueInspection, TrialTyped, DraftersTyped
    <3>2. generations[g].app \in Enrollable /\ generations[g].packet \in Nat
      BY <1>1, <3>1 DEF Generation
    <3> QED
      BY <2>2, <3>2, InspectionQueued DEF TrialTyped
  <2> QED
    BY <2>1, <2>2 DEF QueueInspection
<1> QED
  BY <1>3, <1>4, <1>5, RowsTyped, DrafterGoesIdle, TaskWritten
     DEF TrialTyped, ApplicationsTyped, PacketsTyped

LEMMA DraftTaskLostKeeps ==
  ASSUME TrialTyped, NEW g \in GenerationIds, DraftTaskLost(g)
  PROVE  TrialTyped' /\ Undisturbed
<1> DEFINE task == IF generations[g].task = "leased" /\ generations[g].tries < DraftAttempts
                   THEN "ready" ELSE "done"
           row == [generations[g] EXCEPT !.task = task]
<1>1. generations \in [GenerationIds -> Generation] /\ generations[g] \in Generation
  BY CountedGenerations DEF TrialTyped
<1>2. task \in {"ready", "leased", "done"}
  OBVIOUS
<1>3. generations' = [generations EXCEPT ![g] = row]
  BY DEF DraftTaskLost
<1> HIDE DEF task
<1>4. /\ row \in Generation /\ row.app = generations[g].app
      /\ row.packet = generations[g].packet /\ row.state = generations[g].state
  BY <1>1, <1>2 DEF Generation
<1> HIDE DEF row
<1>5. /\ generations' \in [GenerationIds -> Generation]
      /\ \A h \in GenerationIds : /\ generations'[h].app = generations[h].app
                                  /\ generations'[h].packet = generations[h].packet
                                  /\ generations'[h].state = generations[h].state
  BY <1>1, <1>3, <1>4
<1>6. UNCHANGED <<appl, packets, drafting, assigned, sentAs>>
  BY DEF DraftTaskLost
<1> QED
  BY <1>5, <1>6, RowsTyped, TaskWritten
     DEF TrialTyped, ApplicationsTyped, PacketsTyped, DraftersTyped

LEMMA SourcesChangeKeeps ==
  ASSUME TrialTyped, SourcesChange
  PROVE  TrialTyped' /\ Undisturbed
<1>1. generations \in [GenerationIds -> Generation]
  BY CountedGenerations DEF TrialTyped
<1>2. generations' = [g \in GenerationIds |-> [generations[g] EXCEPT !.fresh = FALSE]]
  BY DEF SourcesChange
<1> DEFINE Aged(g) == [generations[g] EXCEPT !.fresh = FALSE]
<1>3. ASSUME NEW g \in GenerationIds
      PROVE  /\ Aged(g) \in Generation /\ Aged(g).app = generations[g].app
             /\ Aged(g).packet = generations[g].packet /\ Aged(g).state = generations[g].state
  <2>1. generations[g] \in Generation
    BY <1>1, <1>3
  <2> QED
    BY <2>1 DEF Generation
<1>4. generations' = [g \in GenerationIds |-> Aged(g)]
  BY <1>2
<1> HIDE DEF Aged
<1>5. /\ generations' \in [GenerationIds -> Generation]
      /\ \A h \in GenerationIds : /\ generations'[h].app = generations[h].app
                                  /\ generations'[h].packet = generations[h].packet
                                  /\ generations'[h].state = generations[h].state
  BY <1>3, <1>4
<1>6. UNCHANGED <<appl, packets, drafting, assigned, sentAs>>
  BY DEF SourcesChange
<1> QED
  BY <1>5, <1>6, RowsTyped, TaskWritten
     DEF TrialTyped, ApplicationsTyped, PacketsTyped, DraftersTyped

\* An application that is not yet sent is written, and nothing of its letters.
LEMMA ApplicationWritten ==
  ASSUME TrialTyped, NEW a \in Enrollable, appl[a].state # "IN_FLIGHT",
         NEW state \in {"ELIGIBLE", "PREPARED", "READY", "INTENT_RECORDED"},
         NEW p \in Nat, NEW q \in Nat,
         appl' = [appl EXCEPT ![a] = [state |-> state, inspection |-> p, submit |-> q]]
  PROVE  /\ ApplicationsTyped'
         /\ \A b \in Enrollable : appl[b].state = "IN_FLIGHT" => appl'[b].state = "IN_FLIGHT"
  BY DEF TrialTyped, ApplicationsTyped

LEMMA PrepareManuallyKeeps ==
  ASSUME TrialTyped, NEW a \in Enrollable, PrepareManually(a)
  PROVE  TrialTyped' /\ Undisturbed
<1> DEFINE p == Cardinality(DOMAIN packets) + 1
<1>1. p \in Nat
  BY FS_CardinalityType DEF TrialTyped, PacketsTyped
<1>2. /\ appl[a].state \in {"ELIGIBLE", "PREPARED", "READY"}
      /\ DOMAIN packets' = 1 .. p
      /\ appl' = [appl EXCEPT ![a] = [state |-> "PREPARED", inspection |-> p, submit |-> 0]]
      /\ UNCHANGED <<generations, assigned, drafting, sentAs>>
  BY DEF PrepareManually, SavedBy
<1> HIDE DEF p
<1>3. IsFiniteSet(1 .. p) /\ 1 .. p \subseteq Nat
  BY <1>1, FS_Interval
<1>4. /\ ApplicationsTyped'
      /\ \A b \in Enrollable : appl[b].state = "IN_FLIGHT" => appl'[b].state = "IN_FLIGHT"
  BY <1>1, <1>2, ApplicationWritten
<1>5. generations \in [GenerationIds -> Generation]
  BY CountedGenerations DEF TrialTyped
<1>6. PacketsTyped' /\ DraftersTyped'
  BY <1>2, <1>3 DEF TrialTyped, PacketsTyped, DraftersTyped, GenerationIds
<1> QED
  BY <1>2, <1>4, <1>5, <1>6, TaskWritten

LEMMA GenerateByHandKeeps ==
  ASSUME TrialTyped, NEW a \in Enrollable, GenerateByHand(a)
  PROVE  TrialTyped' /\ Undisturbed
<1> DEFINE p == Cardinality(DOMAIN packets) + 1
<1>1. p \in Nat
  BY FS_CardinalityType DEF TrialTyped, PacketsTyped
<1>2. /\ appl[a].state \in {"ELIGIBLE", "PREPARED"}
      /\ DOMAIN packets' = 1 .. p
      /\ appl' = [appl EXCEPT ![a].state = "PREPARED"]
      /\ generations' = Outdated(generations, a)
      /\ UNCHANGED <<assigned, drafting, sentAs>>
  BY DEF GenerateByHand, SavedBy
<1> HIDE DEF p
<1>3. IsFiniteSet(1 .. p) /\ 1 .. p \subseteq Nat
  BY <1>1, FS_Interval
<1>4. /\ ApplicationsTyped'
      /\ \A b \in Enrollable : appl[b].state = "IN_FLIGHT" => appl'[b].state = "IN_FLIGHT"
  BY <1>2 DEF TrialTyped, ApplicationsTyped
<1>5. /\ generations' \in [GenerationIds -> Generation]
      /\ \A h \in GenerationIds : /\ generations'[h].app = generations[h].app
                                  /\ generations'[h].packet = generations[h].packet
                                  /\ generations'[h].state = generations[h].state
  BY <1>2, OutdatedRows DEF TrialTyped
<1>6. PacketsTyped'
  BY <1>2, <1>3 DEF PacketsTyped
<1> QED
  BY <1>2, <1>4, <1>5, <1>6, RowsTyped, TaskWritten DEF TrialTyped, DraftersTyped

LEMMA InspectFormKeeps ==
  ASSUME TrialTyped, NEW a \in Enrollable, InspectForm(a)
  PROVE  TrialTyped' /\ Undisturbed
<1> DEFINE submit == IF EnrollmentHolds(a) THEN 0 ELSE appl[a].inspection
<1>1. /\ appl[a].state = "PREPARED" /\ submit \in Nat
      /\ appl' = [appl EXCEPT ![a] = [state |-> "READY", inspection |-> 0, submit |-> submit]]
      /\ generations' = Outdated(generations, a)
  BY DEF InspectForm, TrialTyped, ApplicationsTyped
<1>2. UNCHANGED <<packets, assigned, drafting, sentAs>>
  BY DEF InspectForm
<1> HIDE DEF submit
<1>3. /\ ApplicationsTyped'
      /\ \A b \in Enrollable : appl[b].state = "IN_FLIGHT" => appl'[b].state = "IN_FLIGHT"
  BY <1>1, ApplicationWritten
<1>4. /\ generations' \in [GenerationIds -> Generation]
      /\ \A h \in GenerationIds : /\ generations'[h].app = generations[h].app
                                  /\ generations'[h].packet = generations[h].packet
                                  /\ generations'[h].state = generations[h].state
  BY <1>1, OutdatedRows DEF TrialTyped
<1> QED
  BY <1>2, <1>3, <1>4, RowsTyped, TaskWritten DEF TrialTyped, PacketsTyped, DraftersTyped

LEMMA AssignKeeps ==
  ASSUME TrialTyped, NEW a \in Enrollable, NEW p \in DOMAIN packets, Assign(a, p)
  PROVE  TrialTyped' /\ Undisturbed
<1> DEFINE job == CanonicalJob(a)
           old == Outdated(generations, a)
<1>1. p \in Nat /\ p # 0 /\ job \in Nat
  BY CanonicalJobIsJob DEF Assign, Valid, TrialTyped, PacketsTyped
<1>2. /\ appl[a].state = "READY" /\ assigned[a] = Unassigned
      /\ assigned' = [assigned EXCEPT ![a] = [packet |-> p, job |-> job]]
      /\ UNCHANGED <<packets, drafting, sentAs>>
  BY DEF Assign
<1> HIDE DEF job
<1>3. AssignedTyped' /\ PacketsTyped'
  BY <1>1, <1>2 DEF TrialTyped, AssignedTyped, PacketsTyped
<1>4. /\ assigned'[a] # Unassigned
      /\ \A b \in Enrollable : b # a => assigned'[b] = assigned[b]
  BY <1>1, <1>2 DEF TrialTyped, AssignedTyped, Unassigned
<1>5. /\ generations \in [GenerationIds -> Generation] /\ GenerationsTyped
      /\ old \in [GenerationIds -> Generation]
      /\ \A g \in GenerationIds : /\ old[g].app = generations[g].app
                                  /\ old[g].state = generations[g].state
                                  /\ old[g].packet = generations[g].packet
  BY CountedGenerations, OutdatedRows DEF TrialTyped
<1> HIDE DEF old
<1>6. /\ ApplicationsTyped' /\ generations' \in [GenerationIds -> Generation]
      /\ \A b \in Enrollable : appl[b].state = "IN_FLIGHT" => appl'[b].state = "IN_FLIGHT"
      /\ \A g \in GenerationIds :
           /\ generations'[g].app = generations[g].app
           /\ generations'[g].packet = generations[g].packet
           /\ generations[g].state = "assigned" => generations'[g].state = "assigned"
           /\ generations'[g].state = "assigned" =>
                generations[g].state = "assigned" \/ generations[g].app = a
  <2>1. CASE UNCHANGED <<appl, generations>>
    BY <1>5, <2>1 DEF TrialTyped, ApplicationsTyped
  <2>2. ASSUME NEW g \in GenerationIds, generations[g].app = a,
               generations' = [old EXCEPT ![g].state = "assigned"],
               appl' = [appl EXCEPT ![a] = [state |-> "PREPARED", inspection |-> p, submit |-> 0]]
        PROVE  /\ ApplicationsTyped' /\ generations' \in [GenerationIds -> Generation]
               /\ \A b \in Enrollable :
                    appl[b].state = "IN_FLIGHT" => appl'[b].state = "IN_FLIGHT"
               /\ \A h \in GenerationIds :
                    /\ generations'[h].app = generations[h].app
                    /\ generations'[h].packet = generations[h].packet
                    /\ generations[h].state = "assigned" => generations'[h].state = "assigned"
                    /\ generations'[h].state = "assigned" =>
                         generations[h].state = "assigned" \/ generations[h].app = a
    <3>1. /\ ApplicationsTyped'
          /\ \A b \in Enrollable : appl[b].state = "IN_FLIGHT" => appl'[b].state = "IN_FLIGHT"
      BY <1>1, <1>2, <2>2, ApplicationWritten
    <3>2. /\ generations' \in [GenerationIds -> Generation]
          /\ \A h \in GenerationIds :
               /\ generations'[h].app = old[h].app /\ generations'[h].packet = old[h].packet
               /\ h = g => generations'[h].state = "assigned"
               /\ h # g => generations'[h].state = old[h].state
      BY <1>5, <2>2 DEF Generation
    <3> QED
      BY <1>5, <2>2, <3>1, <3>2
  <2> QED
    BY <2>1, <2>2 DEF Assign, old
<1>7. GenerationsTyped' /\ GenerationIds' = GenerationIds
  BY <1>5, <1>6, RowsTyped
<1>8. TrialTyped'
  BY <1>2, <1>3, <1>6, <1>7 DEF TrialTyped, DraftersTyped
<1> QED
  BY <1>2, <1>4, <1>6, <1>7, <1>8 DEF Undisturbed

LEMMA BeginActionKeeps ==
  ASSUME TrialInv, NEW a \in Enrollable, BeginAction(a)
  PROVE  TrialTyped' /\ Undisturbed
<1> DEFINE intent == [packet |-> appl[a].submit, assignment |-> assigned[a].packet,
                      sent |-> FALSE]
<1>1. /\ appl[a].state = "READY" /\ appl' = [appl EXCEPT ![a].state = "INTENT_RECORDED"]
      /\ sentAs' = [sentAs EXCEPT ![a] = intent]
  BY DEF BeginAction
<1>2. UNCHANGED <<packets, generations, assigned, drafting>>
  BY DEF BeginAction
<1>3. TrialTyped
  BY DEF TrialInv
<1>4. ApplicationsTyped' /\ AssignedTyped'
  BY <1>1, <1>2, <1>3 DEF TrialTyped, ApplicationsTyped, AssignedTyped
<1>5. GenerationsTyped' /\ PacketsTyped' /\ DraftersTyped' /\ GenerationIds' = GenerationIds
  BY <1>2, <1>3 DEF TrialTyped, GenerationsTyped, PacketsTyped, DraftersTyped, GenerationIds
<1>6. \A b \in Enrollable :
        /\ appl[b].state = "IN_FLIGHT" => appl'[b].state = "IN_FLIGHT"
        /\ sentAs'[b].sent => sentAs[b].sent /\ sentAs'[b].packet = sentAs[b].packet
  BY <1>1, <1>3 DEF TrialTyped, ApplicationsTyped, AssignedTyped
<1> QED
  BY <1>2, <1>4, <1>5, <1>6 DEF TrialTyped, Undisturbed

\* What is sent is asked once more whether it is what was assigned.
LEMMA DispatchActionKeeps ==
  ASSUME TrialInv, NEW a \in Enrollable, DispatchAction(a)
  PROVE  TrialInv'
<1>1. /\ appl' = [appl EXCEPT ![a].state = "IN_FLIGHT"]
      /\ sentAs' = [sentAs EXCEPT ![a].sent = TRUE]
      /\ MayDispatch(a, sentAs[a].packet)
  BY DEF DispatchAction
<1>2. UNCHANGED <<packets, generations, assigned, drafting>> /\ GenerationIds' = GenerationIds
  BY DEF DispatchAction, GenerationIds
<1>3. /\ TrialTyped /\ AssignedTogether /\ SentIsInFlight /\ SentAsAssigned
      /\ generations \in [GenerationIds -> Generation]
  BY CountedGenerations DEF TrialInv, TrialTyped
<1>4. TrialTyped'
  <2>1. ApplicationsTyped' /\ AssignedTyped'
    BY <1>1, <1>2, <1>3 DEF TrialTyped, ApplicationsTyped, AssignedTyped
  <2> QED
    BY <1>2, <1>3, <2>1 DEF TrialTyped, GenerationsTyped, PacketsTyped, DraftersTyped
<1>5. AssignedTogether'
  BY <1>2, <1>3 DEF AssignedTogether
<1>6. \A b \in Enrollable :
        /\ sentAs'[b].packet = sentAs[b].packet
        /\ b # a => sentAs'[b].sent = sentAs[b].sent /\ appl'[b].state = appl[b].state
        /\ b = a => appl'[b].state = "IN_FLIGHT"
  BY <1>1, <1>3 DEF TrialTyped, ApplicationsTyped, AssignedTyped
<1>7. SentIsInFlight'
  BY <1>3, <1>6 DEF SentIsInFlight
<1>8. /\ assigned[a] # Unassigned => sentAs[a].packet = assigned[a].packet
      /\ (\E g \in GenerationIds : generations[g].app = a) =>
           \E g \in GenerationIds : /\ generations[g].app = a
                                    /\ generations[g].state = "assigned"
                                    /\ generations[g].packet = sentAs[a].packet
  <2>1. assigned[a] # Unassigned => assigned[a].packet = sentAs[a].packet
    BY <1>1 DEF MayDispatch
  <2>2. ~(/\ \E g \in GenerationIds : generations[g].app = a
          /\ ~\E g \in GenerationIds : /\ generations[g].app = a
                                       /\ generations[g].state = "assigned"
                                       /\ generations[g].packet = assigned[a].packet)
    BY <1>1 DEF MayDispatch, EnrollmentHolds
  <2> QED
    BY <1>3, <2>1, <2>2 DEF AssignedTogether
<1>9. SentAsAssigned'
  BY <1>2, <1>3, <1>6, <1>8 DEF SentAsAssigned, Unassigned
<1> QED
  BY <1>4, <1>5, <1>7, <1>9 DEF TrialInv

LEMMA TrialInitially == ExperimentsInit => TrialInv
<1> SUFFICES ASSUME ExperimentsInit PROVE TrialInv
  OBVIOUS
<1>1. generations = << >> /\ packets = << >>
  BY DEF ExperimentsInit
<1>2. GenerationsTyped /\ GenerationIds = {}
  <2>1. generations \in [1 .. 0 -> Generation] /\ 0 \in Nat
    BY <1>1
  <2> QED
    BY <1>1, <2>1 DEF GenerationsTyped, GenerationIds
<1>3. PacketsTyped
  BY <1>1, FS_EmptySet DEF PacketsTyped
<1>4. ApplicationsTyped /\ AssignedTyped /\ DraftersTyped
  BY <1>2 DEF ExperimentsInit, ApplicationsTyped, AssignedTyped, DraftersTyped, IdleDrafter,
              Unassigned
<1>5. \A a \in Enrollable : ~sentAs[a].sent
  BY DEF ExperimentsInit
<1> QED
  BY <1>2, <1>3, <1>4, <1>5
     DEF TrialInv, TrialTyped, AssignedTogether, SentIsInFlight, SentAsAssigned

LEMMA DrafterDiesKeeps ==
  ASSUME TrialTyped, NEW w \in Drafters, DrafterDies(w)
  PROVE  TrialTyped' /\ Undisturbed
<1>1. /\ drafting' = [drafting EXCEPT ![w] = IdleDrafter]
      /\ UNCHANGED <<appl, packets, generations, assigned, sentAs>>
  BY DEF DrafterDies
<1>2. generations \in [GenerationIds -> Generation]
  BY CountedGenerations DEF TrialTyped
<1>3. DraftersTyped'
  BY <1>1, DrafterGoesIdle DEF TrialTyped, GenerationIds
<1> QED
  BY <1>1, <1>2, <1>3, TaskWritten DEF TrialTyped, ApplicationsTyped, PacketsTyped

\* Stopping the experiment, merging jobs, splitting them: nothing of this is written.
LEMMA TrialAside ==
  ASSUME TrialTyped, UNCHANGED <<appl, packets, generations, assigned, drafting, sentAs>>
  PROVE  TrialTyped' /\ Undisturbed
<1>1. generations \in [GenerationIds -> Generation]
  BY CountedGenerations DEF TrialTyped
<1> QED
  BY <1>1, TaskWritten
     DEF TrialTyped, ApplicationsTyped, PacketsTyped, DraftersTyped, GenerationIds

LEMMA TrialStep ==
  ASSUME TrialInv, [ExperimentsNext]_experimentVars
  PROVE  TrialInv'
<1>0. TrialTyped
  BY DEF TrialInv
<1>1. CASE \E a \in Enrollable : DispatchAction(a)
  BY <1>1, DispatchActionKeeps
<1>2. CASE ~\E a \in Enrollable : DispatchAction(a)
  <2> SUFFICES TrialTyped' /\ Undisturbed
    BY UndisturbedKeeps
  <2>1. CASE \E a \in Enrollable : \/ CreateGeneration(a) \/ PrepareManually(a)
                                  \/ GenerateByHand(a) \/ InspectForm(a)
    BY <1>0, <2>1, EnrollmentsTyped, PrepareManuallyKeeps, GenerateByHandKeeps, InspectFormKeeps
  <2>2. CASE \E a \in Enrollable : BeginAction(a)
    BY <2>2, BeginActionKeeps
  <2>3. CASE \E a \in Enrollable : \E p \in DOMAIN packets : Assign(a, p)
    BY <1>0, <2>3, AssignKeeps
  <2>4. CASE \E w \in Drafters : DraftStep(w)
    BY <1>0, <2>4, LeaseDraftKeeps, BeginDraftKeeps, ReplayDraftKeeps, FailGenerationKeeps,
       PublishKeeps, QueueInspectionKeeps, DrafterDiesKeeps DEF DraftStep, DraftFails
  <2>5. CASE \E g \in GenerationIds : DraftTaskLost(g)
    BY <1>0, <2>5, DraftTaskLostKeeps
  <2>6. CASE SourcesChange
    BY <1>0, <2>6, SourcesChangeKeeps
  <2>7. CASE StopTrial \/ MergeOrSplit \/ UNCHANGED experimentVars
    BY <1>0, <2>7, TrialAside DEF StopTrial, MergeOrSplit, experimentVars
  <2> QED
    BY <1>2, <2>1, <2>2, <2>3, <2>4, <2>5, <2>6, <2>7 DEF ExperimentsNext
<1> QED
  BY <1>1, <1>2

\* What was enrolled is sent with the packet that was assigned to it, of any number of
\* applications, generations and workers: a final action asks for the assignment when it
\* is prepared and again when it is dispatched, and from then on every operation that
\* generates, prepares or assigns refuses the application.
THEOREM EnrolledAreSentAsAssigned == ExperimentsSpec => []SentAsAssigned
<1>1. ExperimentsInit => TrialInv
  BY TrialInitially
<1>2. TrialInv /\ [ExperimentsNext]_experimentVars => TrialInv'
  BY TrialStep
<1>3. TrialInv => SentAsAssigned
  BY DEF TrialInv
<1> QED
  BY <1>1, <1>2, <1>3, PTL DEF ExperimentsSpec

-----------------------------------------------------------------------------
(* Forms: what a commit sends is what was prepared                          *)

Answers == [Questions -> Nat]
Shows == {Other} \cup Nat
Entries == UNION {[S -> Shows] : S \in SUBSET FieldKeys}
SnapType ==
  [fields : SUBSET FormField, hidden : SUBSET (FieldKeys \cup Nat),
   blocker : {"none", "challenge", "unsupported"}]
PlanType == [entries : Entries, unresolved : SUBSET FieldKeys]
PostType ==
  [values : Entries, plans : Seq(PlanType), permit : Seq(Answers), kept : BOOLEAN,
   late : SUBSET FieldKeys]
PassType ==
  [kind : {"idle", "prepare", "commit"},
   at : {"open", "fill", "read", "done", "permit", "click"},
   snaps : Seq(SnapType), plans : Seq(PlanType), todo : SUBSET FieldKeys,
   faults : SUBSET {"upload", "value", "changed"}, filled : BOOLEAN, permit : Seq(Answers),
   late : SUBSET FieldKeys]

PortalTyped ==
  /\ portal \in Portals /\ form \in DOMAIN portal.forms
  /\ approved \in Answers /\ packet \in Answers

PassTyped == pass \in PassType /\ page \in [FieldKeys -> Shows] /\ blocked \in {0, 1}

SentTyped ==
  /\ prepared \in [status : {"none", "challenge", "upload_failed", "needs_input", "unsupported",
                             "ready"},
                   snaps : Seq(SnapType), plans : Seq(PlanType)]
  /\ wire \in Seq(PostType)
  /\ outcome \in {"none", "unknown", "aborted", "rejected", "confirmed"}

\* How far a pass is.
PassShape ==
  /\ Len(pass.plans) = Step /\ Step <= Steps
  /\ IF pass.at = "open" THEN Step < Steps ELSE Step > 0
  /\ pass.kind = "idle" => pass = NoPass
  /\ pass.at = "done" => pass.kind = "prepare"
  /\ pass.at \in {"permit", "click"} => pass.kind = "commit" /\ Step = Steps
  /\ pass.at # "click" => pass.permit = << >>
  /\ pass.at \in {"fill", "read"} => pass.todo \subseteq DOMAIN Plan.entries
  /\ pass.at = "read" => portal.adapter = "greenhouse"

\* What was posted ends the commit, at once or when its answer is read.
WireSound ==
  /\ wire # << >> =>
       \/ pass.at = "click" /\ blocked # 0
       \/ pass.kind = "idle" /\ outcome \in {"unknown", "rejected", "confirmed"}
  /\ pass.kind = "commit" => outcome = "none"
  /\ pass.kind = "prepare" => outcome \in {"none", "aborted"}

\* What the packet says.
Values == [k \in FieldKeys |-> IF k \in Backed THEN 1 ELSE packet[k]]

Fixture(f) == portal.adapter = "mock" /\ portal.fixture = f

\* The first step holds the name that moving on overwrites, and the second does not.
LosesName(plans) ==
  /\ Fixture("resume-overwrite")
  /\ "name" \in DOMAIN plans[1].entries /\ "name" \notin DOMAIN plans[2].entries

\* A form found ready was planned in full, and nothing in it posts it or takes it back.
ReadySound ==
  prepared.status = "ready" =>
    /\ portal.adapter # "hosted"
    /\ Len(prepared.snaps) = Steps /\ Len(prepared.plans) = Steps
    /\ portal.adapter = "mock" =>
         /\ \A i \in 1 .. 2 : prepared.plans[i].entries = Planned(prepared.snaps[i], Values).entries
         /\ ~LosesName(prepared.plans)
    /\ Fixture("implicit-submit") =>
         \A i \in 1 .. 2 : "country" \notin DOMAIN prepared.plans[i].entries

\* A dry run of the synthetic form is on its way to say so, or to say why not.
PrepareSound ==
  (pass.kind = "prepare" /\ portal.adapter = "mock") =>
    /\ \A i \in DOMAIN pass.plans : pass.plans[i].unresolved = {} =>
         pass.plans[i].entries = Planned(pass.snaps[i], Values).entries
    /\ Fixture("implicit-submit") =>
         \A i \in DOMAIN pass.plans : "country" \in DOMAIN pass.plans[i].entries =>
           \/ i = Step /\ pass.at = "fill" /\ "country" \in pass.todo
           \/ Blocked("challenge")
    /\ (/\ Fixture("resume-overwrite")
        /\ Step = 2 \/ (Step = 1 /\ pass.at = "open")
        /\ "name" \in DOMAIN pass.plans[1].entries) =>
           \/ page["name"] = Other
           \/ Step = 2 /\ "name" \in DOMAIN pass.plans[2].entries
    /\ pass.at = "done" =>
         \/ Blocked("challenge") \/ Unresolved \/ pass.faults # {}
         \/ Step = 2 /\ ~LosesName(pass.plans)

\* Everything that was prepared is what will be posted, but for what the page has
\* put there since it was read back.
AllEntered ==
  \A j \in DOMAIN prepared.plans : \A k \in DOMAIN prepared.plans[j].entries :
    k \notin pass.late => (IF portal.adapter = "recruitee" THEN Plan.entries ELSE page)[k] =
      prepared.plans[j].entries[k]

AllApproved(answers) ==
  \A j \in DOMAIN prepared.plans : \A k \in DOMAIN prepared.plans[j].entries :
    k \in Questions => answers[k] = prepared.plans[j].entries[k]

\* A commit enters the plans that were prepared; what it has entered stands, except
\* for the name that is still to be entered again, and what it has read back, except
\* for what the page put there since.
CommitSound ==
  pass.kind = "commit" =>
    /\ prepared.status = "ready"
    /\ \A i \in DOMAIN pass.plans : pass.plans[i].entries = prepared.plans[i].entries
    /\ portal.adapter = "mock" =>
         \A i \in DOMAIN pass.plans : \A k \in DOMAIN pass.plans[i].entries :
           \/ page[k] = pass.plans[i].entries[k]
           \/ i = Step /\ pass.at = "fill" /\ k \in pass.todo
           \/ /\ Fixture("resume-overwrite") /\ k = "name" /\ i = 1
              /\ Step = 1 \/ (pass.at = "fill" /\ "name" \in pass.todo)
    /\ pass.at = "read" => \A k \in DOMAIN Plan.entries \ (pass.todo \cup pass.late) :
         page[k] = Plan.entries[k] \/ pass.faults # {}
    /\ pass.at \in {"permit", "click"} => AllEntered
    /\ pass.at = "click" => Len(pass.permit) = 1 /\ AllApproved(pass.permit[1])

FormsInv ==
  /\ PortalTyped /\ PassTyped /\ SentTyped /\ PassShape /\ WireSound
  /\ ReadySound /\ PrepareSound /\ CommitSound /\ SentIsPrepared /\ OutcomeIsTrue

LEMMA FormTyped ==
  ASSUME PortalTyped
  PROVE  /\ Form.fields \in SUBSET FormField
         /\ Form.blocker \in {"none", "challenge", "unsupported"}
         /\ portal.adapter = "mock" => Form.blocker # "unsupported"
         /\ portal.adapter \in {"mock", "greenhouse", "hosted", "recruitee"}
         /\ Steps \in {1, 2} /\ (portal.adapter = "mock" <=> Steps = 2)
<1>1. /\ portal \in Portals /\ portal.forms \in Seq(FormType) /\ form \in DOMAIN portal.forms
      /\ portal.adapter \in {"mock", "greenhouse", "hosted", "recruitee"}
      /\ portal.adapter = "mock" =>
           \A i \in DOMAIN portal.forms : portal.forms[i].blocker # "unsupported"
  BY FormsAssumption DEF PortalTyped
<1>2. Form \in FormType
  BY <1>1 DEF Form
<1>3. portal.adapter = "mock" => Form.blocker # "unsupported"
  BY <1>1 DEF Form
<1> QED
  BY <1>1, <1>2, <1>3 DEF FormType, Steps

LEMMA KindReplaced ==
  ASSUME NEW f \in FormField, NEW kind \in {"plain", "file", "radio", "alien"}
  PROVE  [f EXCEPT !.kind = kind] \in FormField
  BY DEF FormField

LEMMA SnapshotTyped ==
  ASSUME PortalTyped, NEW step
  PROVE  /\ Snapshot(step) \in SnapType
         /\ portal.adapter = "mock" => Snapshot(step).blocker # "unsupported"
<1>1. Shown(step) \in SUBSET FormField /\ Shown(1) \in SUBSET FormField
  BY FormTyped DEF Shown
<1>2. portal.adapter = "mock" =>
        Snapshot(step) \in SnapType /\ Snapshot(step).blocker # "unsupported"
  BY <1>1, FormTyped DEF Snapshot, MockSnapshot, SnapType
<1>3. GreenhouseSnapshot \in SnapType
  <2> DEFINE hidden == {f.key : f \in {g \in Form.fields : g.required /\ ~Visible(g)}}
             fields == {[f EXCEPT !.kind = IF f.kind = "radio" THEN "alien" ELSE f.kind] :
                          f \in Shown(1)}
             blocker == IF Form.blocker = "none" /\ hidden # {} THEN "unsupported"
                        ELSE Form.blocker
  <2>1. hidden \in SUBSET (FieldKeys \cup Nat)
    BY FormTyped DEF FormField
  <2>2. fields \in SUBSET FormField
    <3>1. ASSUME NEW f \in Shown(1)
          PROVE  [f EXCEPT !.kind = IF f.kind = "radio" THEN "alien" ELSE f.kind] \in FormField
      <4>1. f \in FormField /\ f.kind \in {"plain", "file", "radio", "alien"}
        BY <1>1, <3>1 DEF FormField
      <4> DEFINE kind == IF f.kind = "radio" THEN "alien" ELSE f.kind
      <4>2. kind \in {"plain", "file", "radio", "alien"}
        BY <4>1
      <4> HIDE DEF kind
      <4> QED
        BY ONLY <4>1, <4>2, KindReplaced DEF kind
    <3> QED
      BY <3>1
  <2>3. blocker \in {"none", "challenge", "unsupported"}
    BY FormTyped
  <2>4. GreenhouseSnapshot = [fields |-> fields, hidden |-> hidden, blocker |-> blocker]
    BY DEF GreenhouseSnapshot
  <2> HIDE DEF hidden, fields, blocker
  <2> QED
    BY <2>1, <2>2, <2>3, <2>4 DEF SnapType
<1>4. HostedSnapshot \in SnapType
  <2> DEFINE Safe(f) == f.kind = "plain" /\ f.key \in Backed \ {"letter"}
             fields == {[f EXCEPT !.kind = IF Safe(f) THEN f.kind ELSE "alien"] : f \in Shown(1)}
             blocker == IF Form.blocker # "none" \/ \A f \in Shown(1) : Safe(f)
                        THEN Form.blocker ELSE "unsupported"
  <2>1. fields \in SUBSET FormField
    <3>1. ASSUME NEW f \in Shown(1)
          PROVE  [f EXCEPT !.kind = IF Safe(f) THEN f.kind ELSE "alien"] \in FormField
      <4>1. f \in FormField /\ f.kind \in {"plain", "file", "radio", "alien"}
        BY <1>1, <3>1 DEF FormField
      <4> DEFINE kind == IF Safe(f) THEN f.kind ELSE "alien"
      <4>2. kind \in {"plain", "file", "radio", "alien"}
        BY <4>1
      <4> HIDE DEF kind
      <4> QED
        BY ONLY <4>1, <4>2, KindReplaced DEF kind
    <3> QED
      BY <3>1
  <2>2. blocker \in {"none", "challenge", "unsupported"}
    BY FormTyped
  <2>3. HostedSnapshot = [fields |-> fields, hidden |-> {}, blocker |-> blocker]
    BY DEF HostedSnapshot
  <2> HIDE DEF fields, blocker
  <2> QED
    BY <2>1, <2>2, <2>3 DEF SnapType
<1>5. RecruiteeSnapshot \in SnapType
  <2>1. form \in Nat
    BY FormsAssumption DEF PortalTyped
  <2> QED
    BY <2>1, FormTyped DEF RecruiteeSnapshot, SnapType
<1> QED
  BY <1>2, <1>3, <1>4, <1>5, FormTyped DEF Snapshot

LEMMA PlannedTyped ==
  ASSUME NEW snap \in SnapType, NEW known \in [FieldKeys -> Nat]
  PROVE  /\ Planned(snap, known) \in PlanType
         /\ \A k \in DOMAIN Planned(snap, known).entries :
              k \in FieldKeys /\ Planned(snap, known).entries[k] = known[k]
<1> DEFINE usable == {f.key : f \in {g \in snap.fields : g.kind # "alien"
                                                          /\ known[g.key] # Blank}}
           open == {f.key : f \in {g \in snap.fields : g.required}} \ usable
<1>1. \A f \in snap.fields : f.key \in FieldKeys
  BY DEF SnapType, FormField
<1>2. usable \in SUBSET FieldKeys /\ open \in SUBSET FieldKeys
  BY <1>1
<1>3. Planned(snap, known) = [entries |-> [k \in usable |-> known[k]], unresolved |-> open]
  BY DEF Planned
<1> HIDE DEF usable, open
<1>4. [k \in usable |-> known[k]] \in [usable -> Shows]
  BY <1>2 DEF Shows
<1>5. [k \in usable |-> known[k]] \in Entries
  BY <1>2, <1>4 DEF Entries
<1> QED
  BY <1>2, <1>3, <1>5 DEF PlanType

LEMMA PlanTyped ==
  ASSUME PortalTyped, NEW snap \in SnapType
  PROVE  /\ PlanFor(snap) \in PlanType /\ PlanFields(snap) \in PlanType
         /\ PlanFields(snap) = Planned(snap, Values)
         /\ \A k \in DOMAIN PlanFields(snap).entries :
              /\ k \in FieldKeys /\ Values[k] \in Nat
              /\ PlanFields(snap).entries[k] = Values[k]
<1> DEFINE known == [k \in FieldKeys |-> IF k \in Questions THEN packet[k]
                                     ELSE IF k = "letter" THEN Blank ELSE 1]
<1>1. known \in [FieldKeys -> Nat] /\ Values \in [FieldKeys -> Nat]
  BY DEF PortalTyped, Answers, Values, FieldKeys, Blank
<1>2. PlanGreenhouse(snap) = Planned(snap, known) /\ PlanFields(snap) = Planned(snap, Values)
  BY DEF PlanGreenhouse, PlanFields, Values
<1> HIDE DEF known
<1>3. PlanGreenhouse(snap) \in PlanType
  BY <1>1, <1>2, PlannedTyped
<1>4. /\ PlanFields(snap) \in PlanType
      /\ \A k \in DOMAIN PlanFields(snap).entries :
              k \in FieldKeys /\ PlanFields(snap).entries[k] = Values[k]
  BY <1>1, <1>2, PlannedTyped
<1> QED
  BY <1>1, <1>2, <1>3, <1>4 DEF PlanFor

LEMMA SamePlan ==
  ASSUME NEW one, NEW other, one.fields = other.fields
  PROVE  Planned(one, Values) = Planned(other, Values)
  BY DEF Planned

LEMMA GuardedTyped ==
  ASSUME PortalTyped, NEW snap \in SnapType, NEW plan \in PlanType
  PROVE  /\ Guarded(snap, plan) \in PlanType
         /\ Guarded(snap, plan).unresolved = {} => Guarded(snap, plan).entries = plan.entries
<1> DEFINE alien == {f.key : f \in {g \in snap.fields : g.kind = "alien"}}
           kept == {k \in DOMAIN plan.entries \ alien :
                      k \in Backed \/ approved[k] = plan.entries[k]}
           required == {f.key : f \in {g \in snap.fields : g.required}}
           open == plan.unresolved \cup alien \cup (DOMAIN plan.entries \ kept)
                     \cup (required \ kept)
<1>1. \A f \in snap.fields : f.key \in FieldKeys
  BY DEF SnapType, FormField
<1>2. PICK S \in SUBSET FieldKeys : plan.entries \in [S -> Shows]
  BY DEF PlanType, Entries
<1>3. plan.unresolved \in SUBSET FieldKeys
  BY DEF PlanType
<1>4. /\ alien \in SUBSET FieldKeys /\ required \in SUBSET FieldKeys
      /\ kept \in SUBSET FieldKeys /\ kept \subseteq S
  BY <1>1, <1>2
<1>5. open \in SUBSET FieldKeys
  BY <1>2, <1>3, <1>4
<1>6. Guarded(snap, plan) = [entries |-> [k \in kept |-> plan.entries[k]], unresolved |-> open]
  BY DEF Guarded
<1>7. open = {} => kept = S
  BY <1>2, <1>4
<1> HIDE DEF kept, open
<1>8. [k \in kept |-> plan.entries[k]] \in [kept -> Shows]
  BY <1>2, <1>4
<1>9. [k \in kept |-> plan.entries[k]] \in Entries
  BY <1>4, <1>8 DEF Entries
<1>10. open = {} => [k \in kept |-> plan.entries[k]] = plan.entries
  BY <1>2, <1>7
<1> QED
  BY <1>5, <1>6, <1>9, <1>10 DEF PlanType

\* A plan that is supported is entered with the answers approved now.
LEMMA SupportedIsApproved ==
  ASSUME NEW snap, NEW plan \in PlanType, Supported(snap, plan)
  PROVE  \A k \in DOMAIN plan.entries : k \in Questions => approved[k] = plan.entries[k]
<1> DEFINE alien == {f.key : f \in {g \in snap.fields : g.kind = "alien"}}
           kept == {k \in DOMAIN plan.entries \ alien :
                      k \in Backed \/ approved[k] = plan.entries[k]}
           required == {f.key : f \in {g \in snap.fields : g.required}}
           open == plan.unresolved \cup alien \cup (DOMAIN plan.entries \ kept)
                     \cup (required \ kept)
<1>1. Guarded(snap, plan) = [entries |-> [k \in kept |-> plan.entries[k]], unresolved |-> open]
  BY DEF Guarded
<1>2. Guarded(snap, plan) = [plan EXCEPT !.unresolved = {}]
  BY DEF Supported
<1>3. [plan EXCEPT !.unresolved = {}].entries = plan.entries
  BY DEF PlanType
<1>4. \A k \in kept : k \in Questions => approved[k] = plan.entries[k]
  BY FormsAssumption
<1> HIDE DEF kept, open
<1>5. [k \in kept |-> plan.entries[k]] = plan.entries
  BY <1>1, <1>2, <1>3
<1>6. DOMAIN plan.entries = kept
  BY <1>5
<1> QED
  BY <1>4, <1>6

LEMMA ReadyStands ==
  ASSUME ReadySound, UNCHANGED <<portal, packet, prepared>>
  PROVE  ReadySound'
  BY DEF ReadySound, Steps, Values, LosesName, Fixture

LEMMA PassStands ==
  ASSUME PassShape, PrepareSound, CommitSound,
         UNCHANGED <<portal, packet, prepared, pass, page>>
  PROVE  PassShape' /\ PrepareSound' /\ CommitSound'
<1>1. /\ Step' = Step /\ Steps' = Steps /\ Plan' = Plan /\ Unresolved' = Unresolved
      /\ \A b : Blocked(b)' = Blocked(b)
      /\ \A f : Fixture(f)' = Fixture(f)
      /\ \A p : LosesName(p)' = LosesName(p)
      /\ Values' = Values
  BY DEF Step, Steps, Plan, Unresolved, Blocked, Fixture, LosesName, Values
<1>2. PassShape'
  BY <1>1 DEF PassShape
<1>3. PrepareSound'
  BY <1>1 DEF PrepareSound
<1>4. AllEntered' = AllEntered /\ \A a : AllApproved(a)' = AllApproved(a)
  BY <1>1 DEF AllEntered, AllApproved
<1>5. CommitSound'
  BY <1>1, <1>4 DEF CommitSound
<1> QED
  BY <1>2, <1>3, <1>5

LEMMA WireStands ==
  ASSUME WireSound, SentIsPrepared, OutcomeIsTrue, UNCHANGED <<wire, outcome, pass, blocked>>
  PROVE  WireSound' /\ SentIsPrepared' /\ OutcomeIsTrue'
  BY DEF WireSound, SentIsPrepared, OutcomeIsTrue

\* The owner approves or revokes, or the portal serves another form.
LEMMA OwnerKeeps ==
  ASSUME FormsInv, PortalTyped',
         UNCHANGED <<portal, packet, pass, page, blocked, prepared, wire, outcome>>
  PROVE  FormsInv'
<1>1. PassTyped' /\ SentTyped'
  BY DEF FormsInv, PassTyped, SentTyped
<1> QED
  BY <1>1, ReadyStands, PassStands, WireStands DEF FormsInv

LEMMA ApproveKeeps ==
  ASSUME FormsInv, NEW q \in Questions, NEW answer \in 0 .. Limits[q], Approve(q, answer)
  PROVE  FormsInv'
<1>1. answer \in Nat
  BY FormsAssumption
<1>2. PortalTyped'
  BY <1>1 DEF Approve, FormsInv, PortalTyped, Answers
<1> QED
  BY <1>2, OwnerKeeps DEF Approve

LEMMA RevokeOrReformKeeps ==
  ASSUME FormsInv, Revoke \/ Reform
  PROVE  FormsInv'
<1>1. PortalTyped'
  BY DEF Revoke, Reform, FormsInv, PortalTyped
<1> QED
  BY <1>1, OwnerKeeps DEF Revoke, Reform

\* Between two passes.
LEMMA IdleSound ==
  ASSUME pass' = NoPass
  PROVE  /\ PassShape' /\ PrepareSound' /\ CommitSound'
         /\ page' \in [FieldKeys -> Shows] /\ blocked' \in {0, 1} => PassTyped'
<1>1. pass'.kind = "idle" /\ pass'.at = "open" /\ pass'.plans = << >> /\ pass'.snaps = << >>
      /\ pass'.permit = << >>
  BY DEF NoPass
<1>2. Step' = 0 /\ Steps' > 0
  BY <1>1 DEF Step, Steps
<1>3. pass' \in PassType
  BY DEF PassType, NoPass
<1>4. PassShape'
  BY <1>1, <1>2 DEF PassShape, NoPass, Steps
<1> QED
  BY <1>1, <1>3, <1>4 DEF PrepareSound, CommitSound, PassTyped

LEMMA DraftKeeps ==
  ASSUME FormsInv, Draft
  PROVE  FormsInv'
<1>1. /\ pass.kind = "idle" /\ packet' = approved /\ prepared' = None
      /\ UNCHANGED <<portal, form, approved, pass, page, blocked, wire, outcome>>
  BY DEF Draft
<1>2. pass' = NoPass
  BY <1>1 DEF FormsInv, PassShape
<1>3. PortalTyped' /\ SentTyped' /\ ReadySound'
  BY <1>1 DEF FormsInv, PortalTyped, SentTyped, ReadySound, None
<1> QED
  BY <1>1, <1>2, <1>3, IdleSound, WireStands DEF FormsInv, PassTyped

\* A pass ends before a click.
LEMMA GivenUp ==
  ASSUME FormsInv, pass.kind # "idle", Throws \/ (Aborts /\ pass.at # "click"),
         UNCHANGED <<portal, form, approved, revoked, packet>>
  PROVE  FormsInv'
<1>1. /\ PortalTyped /\ PassTyped /\ SentTyped /\ PassShape /\ WireSound /\ SentIsPrepared
      /\ OutcomeIsTrue /\ ReadySound
  BY DEF FormsInv
<1>2. /\ pass' = NoPass /\ UNCHANGED <<page, blocked, prepared, wire>>
      /\ \/ outcome' = outcome /\ pass.kind = "prepare"
         \/ pass.kind = "commit" /\ outcome' = "unknown"
         \/ pass.kind = "commit" /\ outcome' = "aborted" /\ pass.at # "click"
  BY <1>1 DEF Throws, Aborts, PassTyped, PassType
<1>3. PortalTyped' /\ SentTyped' /\ ReadySound'
  BY <1>1, <1>2, ReadyStands DEF PortalTyped, SentTyped
<1>4. PassShape' /\ PrepareSound' /\ CommitSound' /\ PassTyped'
  BY <1>1, <1>2, IdleSound DEF PassTyped
<1>5. wire # << >> => pass.at = "click" /\ pass.kind = "commit"
  BY <1>1 DEF WireSound, PassShape
<1>6. WireSound'
  BY <1>2, <1>5 DEF WireSound, NoPass
<1>7. OutcomeIsTrue'
  BY <1>1, <1>2, <1>5 DEF OutcomeIsTrue
<1>8. SentIsPrepared'
  BY <1>1, <1>2 DEF SentIsPrepared
<1> QED
  BY <1>3, <1>4, <1>6, <1>7, <1>8 DEF FormsInv

\* A pass moves on, before it may post anything.
LEMMA MovesOn ==
  ASSUME FormsInv, pass.kind # "idle", pass.at # "click", NEW next, Advances(next),
         next.kind = pass.kind, UNCHANGED <<portal, form, approved, revoked, packet>>,
         PassTyped', PassShape', PrepareSound', CommitSound'
  PROVE  FormsInv'
<1>1. wire = << >>
  BY DEF FormsInv, WireSound
<1>2. pass' = next /\ UNCHANGED <<blocked, prepared, wire, outcome>>
  BY DEF Advances
<1>3. PortalTyped' /\ SentTyped' /\ ReadySound'
  BY <1>2, ReadyStands DEF FormsInv, PortalTyped, SentTyped
<1>4. WireSound' /\ SentIsPrepared' /\ OutcomeIsTrue'
  BY <1>1, <1>2 DEF FormsInv, WireSound, SentIsPrepared, OutcomeIsTrue
<1> QED
  BY <1>3, <1>4 DEF FormsInv

\* The plan that a pass is at.
LEMMA PlanAtHand ==
  ASSUME FormsInv, pass.at # "open"
  PROVE  /\ Step \in {1, 2} /\ Step \in DOMAIN pass.plans /\ Plan \in PlanType
         /\ DOMAIN pass.plans = 1 .. Step /\ DOMAIN pass.snaps = 1 .. Step
         /\ Plan = pass.plans[Step] /\ Steps \in {1, 2} /\ Step <= Steps
         /\ (Steps = 2 <=> portal.adapter = "mock")
         /\ \A i \in 1 .. Step : pass.plans[i] \in PlanType /\ pass.snaps[i] \in SnapType
         /\ \A k \in DOMAIN Plan.entries : k \in FieldKeys /\ Plan.entries[k] \in Shows
<1>1. PassShape /\ PortalTyped /\ pass.plans \in Seq(PlanType) /\ pass.snaps \in Seq(SnapType)
  BY DEF FormsInv, PassTyped, PassType
<1>2. /\ Step > 0 /\ Step <= Steps /\ Len(pass.plans) = Step /\ Step \in Nat
      /\ Steps \in {1, 2} /\ (Steps = 2 <=> portal.adapter = "mock")
  BY <1>1, FormTyped DEF PassShape, Step
<1>3. /\ DOMAIN pass.plans = 1 .. Step /\ DOMAIN pass.snaps = 1 .. Step
      /\ Step \in DOMAIN pass.plans /\ Plan = pass.plans[Step]
      /\ \A i \in 1 .. Step : pass.plans[i] \in PlanType /\ pass.snaps[i] \in SnapType
  BY <1>1, <1>2 DEF Step, Plan
<1>4. Plan \in PlanType
  BY <1>3
<1>5. \A k \in DOMAIN Plan.entries : k \in FieldKeys /\ Plan.entries[k] \in Shows
  BY <1>4 DEF PlanType, Entries
<1> QED
  BY <1>2, <1>3, <1>4, <1>5

LEMMA Overwritten ==
  ASSUME page \in [FieldKeys -> Shows], NEW key, page' = [page EXCEPT ![key] = Other]
  PROVE  /\ page' \in [FieldKeys -> Shows]
         /\ key \in FieldKeys => page'[key] = Other
         /\ \A k \in FieldKeys : k # key => page'[k] = page[k]
<1>1. Other \in Shows
  BY DEF Shows
<1> QED
  BY <1>1

\* A page overwrites a value: one that was read back is late.
LEMMA OverwriteKeeps ==
  ASSUME FormsInv, NEW k \in FieldKeys, Overwrite(k)
  PROVE  FormsInv'
<1> DEFINE looked == pass.at \in {"permit", "click"} \/ (pass.at = "read" /\ k \notin pass.todo)
           late == IF looked THEN pass.late \cup {k} ELSE pass.late
<1>1. /\ portal.adapter = "greenhouse" /\ pass.at \in {"fill", "read", "permit", "click"}
      /\ page' = [page EXCEPT ![k] = Other] /\ pass' = [pass EXCEPT !.late = late]
      /\ UNCHANGED <<portal, form, approved, revoked, packet, blocked, prepared, wire, outcome>>
  BY DEF Overwrite
<1>2. /\ PassTyped /\ PassShape /\ CommitSound /\ page \in [FieldKeys -> Shows]
      /\ pass \in PassType
  BY DEF FormsInv, PassTyped
<1>3. late \in SUBSET FieldKeys /\ pass.late \subseteq late /\ (looked => k \in late)
  BY <1>2 DEF PassType
<1> HIDE DEF late
<1>4. /\ pass' \in PassType /\ pass'.late = late /\ pass'.kind = pass.kind /\ pass'.at = pass.at
      /\ pass'.snaps = pass.snaps /\ pass'.plans = pass.plans /\ pass'.todo = pass.todo
      /\ pass'.faults = pass.faults /\ pass'.permit = pass.permit
  BY <1>1, <1>2, <1>3 DEF PassType
<1>5. /\ page' \in [FieldKeys -> Shows] /\ \A j \in FieldKeys : j # k => page'[j] = page[j]
  BY <1>1, <1>2, Overwritten
<1>6. PortalTyped' /\ SentTyped' /\ ReadySound'
  BY <1>1, ReadyStands DEF FormsInv, PortalTyped, SentTyped
<1>7. WireSound' /\ SentIsPrepared' /\ OutcomeIsTrue'
  BY <1>1, <1>4 DEF FormsInv, WireSound, SentIsPrepared, OutcomeIsTrue
<1>8. /\ Step' = Step /\ Steps' = Steps /\ Plan' = Plan /\ pass.kind # "idle"
      /\ \A f : Fixture(f)' = Fixture(f)
  BY <1>1, <1>2, <1>4 DEF Step, Steps, Plan, PassShape, NoPass, Fixture
<1>9. PassTyped' /\ PassShape' /\ PrepareSound'
  BY <1>1, <1>2, <1>4, <1>5, <1>8 DEF PassTyped, PassShape, PrepareSound, FormsInv
<1>10. CommitSound'
  <2> SUFFICES ASSUME pass.kind = "commit" PROVE CommitSound'
    BY <1>4 DEF CommitSound
  <2>1. ASSUME pass.at = "read", NEW j \in DOMAIN Plan.entries \ (pass.todo \cup late)
        PROVE  page'[j] = Plan.entries[j] \/ pass.faults # {}
    <3>1. j # k /\ j \in FieldKeys
      BY <1>3, <2>1, PlanAtHand
    <3> QED
      BY <1>2, <1>3, <1>5, <2>1, <3>1 DEF CommitSound
  <2>2. ASSUME pass.at \in {"permit", "click"} PROVE AllEntered'
    <3> SUFFICES ASSUME NEW j \in DOMAIN prepared.plans,
                        NEW e \in DOMAIN prepared.plans[j].entries, e \notin late
                 PROVE  page'[e] = prepared.plans[j].entries[e]
      BY <1>1, <1>4 DEF AllEntered
    <3>1. prepared.plans[j] \in PlanType
      <4>1. prepared.plans \in Seq(PlanType)
        BY DEF FormsInv, SentTyped
      <4> QED
        BY <4>1
    <3>2. e \in FieldKeys
      BY <3>1 DEF PlanType, Entries
    <3>3. e # k /\ e \notin pass.late
      BY <1>3, <2>2
    <3> QED
      BY <1>1, <1>2, <1>5, <2>2, <3>2, <3>3 DEF CommitSound, AllEntered
  <2>3. \A answers : AllApproved(answers)' = AllApproved(answers)
    BY <1>1 DEF AllApproved
  <2> QED
    BY <1>1, <1>2, <1>4, <1>8, <2>1, <2>2, <2>3 DEF CommitSound
<1> QED
  BY <1>6, <1>7, <1>9, <1>10 DEF FormsInv

LEMMA StartKeeps ==
  ASSUME FormsInv, StartPrepare \/ StartCommit
  PROVE  FormsInv'
<1>1. /\ pass.kind = "idle" /\ outcome \in {"none", "aborted"}
      /\ page' = Empty /\ blocked' = 0
      /\ UNCHANGED <<portal, form, approved, revoked, packet, prepared, wire>>
  BY DEF StartPrepare, StartCommit
<1>2. \/ pass' = [NoPass EXCEPT !.kind = "prepare"] /\ outcome' = outcome
      \/ /\ pass' = [NoPass EXCEPT !.kind = "commit"] /\ outcome' = "none"
         /\ prepared.status = "ready"
  BY DEF StartPrepare, StartCommit
<1>3. wire = << >>
  BY <1>1 DEF FormsInv, WireSound, PassShape, NoPass
<1>4. /\ pass'.at = "open" /\ pass'.snaps = << >> /\ pass'.plans = << >>
      /\ pass'.permit = << >> /\ pass' \in PassType
      /\ \/ pass'.kind = "prepare" /\ outcome' = outcome
         \/ pass'.kind = "commit" /\ outcome' = "none" /\ prepared.status = "ready"
  <2>1. NoPass \in PassType
    BY DEF NoPass, PassType
  <2>2. ASSUME NEW kind \in {"prepare", "commit"}, pass' = [NoPass EXCEPT !.kind = kind]
        PROVE  /\ pass' \in PassType /\ pass'.kind = kind /\ pass'.at = "open"
               /\ pass'.snaps = << >> /\ pass'.plans = << >> /\ pass'.permit = << >>
    BY <2>1, <2>2 DEF NoPass, PassType
  <2> QED
    BY <1>2, <2>2
<1>5. PortalTyped' /\ SentTyped' /\ ReadySound'
  BY <1>1, <1>4, ReadyStands DEF FormsInv, PortalTyped, SentTyped
<1>6. PassTyped'
  BY <1>1, <1>4 DEF PassTyped, Shows, Empty, Blank
<1>7. Step' = 0 /\ Steps' > 0 /\ Len(pass'.plans) = 0
  BY <1>4 DEF Step, Steps
<1>8. PassShape'
  BY <1>4, <1>7 DEF PassShape, Steps
<1>9. PrepareSound' /\ CommitSound'
  BY <1>1, <1>4, <1>7 DEF PrepareSound, CommitSound
<1>10. WireSound' /\ SentIsPrepared' /\ OutcomeIsTrue'
  BY <1>1, <1>3, <1>4 DEF WireSound, SentIsPrepared, OutcomeIsTrue
<1> QED
  BY <1>5, <1>6, <1>8, <1>9, <1>10 DEF FormsInv

\* One more step of the form is inspected and planned.
Inspected(snap, plan, at, filled) ==
  [pass EXCEPT !.snaps = Append(@, snap), !.plans = Append(@, plan), !.at = at,
               !.filled = filled, !.todo = DOMAIN plan.entries]

InspectedAgain(snap, plan, at) ==
  [pass EXCEPT !.snaps = Append(@, snap), !.plans = Append(@, plan), !.at = at,
               !.todo = DOMAIN plan.entries]

LEMMA InspectedFields ==
  ASSUME pass \in PassType, NEW snap \in SnapType, NEW plan \in PlanType,
         NEW at \in {"fill", "done", "permit"}, NEW filled \in BOOLEAN
  PROVE  \A next \in {Inspected(snap, plan, at, filled), InspectedAgain(snap, plan, at)} :
           /\ next \in PassType /\ next.kind = pass.kind /\ next.at = at
           /\ next.snaps = Append(pass.snaps, snap) /\ next.plans = Append(pass.plans, plan)
           /\ next.todo = DOMAIN plan.entries /\ next.faults = pass.faults
           /\ next.permit = pass.permit
<1>1. /\ pass.snaps \in Seq(SnapType) /\ pass.plans \in Seq(PlanType)
      /\ DOMAIN plan.entries \in SUBSET FieldKeys
  BY DEF PassType, PlanType, Entries
<1>2. Append(pass.snaps, snap) \in Seq(SnapType) /\ Append(pass.plans, plan) \in Seq(PlanType)
  BY <1>1
<1>3. LET next == Inspected(snap, plan, at, filled) IN
           /\ next \in PassType /\ next.kind = pass.kind /\ next.at = at
           /\ next.snaps = Append(pass.snaps, snap) /\ next.plans = Append(pass.plans, plan)
           /\ next.todo = DOMAIN plan.entries /\ next.faults = pass.faults
           /\ next.permit = pass.permit
  BY <1>1, <1>2 DEF Inspected, PassType
<1>4. LET next == InspectedAgain(snap, plan, at) IN
           /\ next \in PassType /\ next.kind = pass.kind /\ next.at = at
           /\ next.snaps = Append(pass.snaps, snap) /\ next.plans = Append(pass.plans, plan)
           /\ next.todo = DOMAIN plan.entries /\ next.faults = pass.faults
           /\ next.permit = pass.permit
  BY <1>1, <1>2 DEF InspectedAgain, PassType
<1> QED
  BY <1>3, <1>4

LEMMA InspectedShape ==
  ASSUME FormsInv, pass.kind # "idle", pass.at = "open", NEW snap \in SnapType,
         NEW plan \in PlanType, NEW at \in {"fill", "done", "permit"}, NEW filled \in BOOLEAN,
         at = "done" => pass.kind = "prepare",
         at = "permit" => pass.kind = "commit" /\ Steps = 1,
         UNCHANGED <<portal, page, blocked>>,
         pass' \in {Inspected(snap, plan, at, filled), InspectedAgain(snap, plan, at)}
  PROVE  /\ PassTyped' /\ PassShape'
         /\ Step' = Step + 1 /\ Step \in {0, 1} /\ (Step = 1 => portal.adapter = "mock")
         /\ pass'.snaps[Step'] = snap /\ pass'.plans[Step'] = plan
         /\ DOMAIN pass.plans = 1 .. Step /\ DOMAIN pass'.plans = 1 .. Step'
         /\ DOMAIN pass.snaps = 1 .. Step /\ DOMAIN pass'.snaps = 1 .. Step'
         /\ \A i \in 1 .. Step : /\ pass'.snaps[i] = pass.snaps[i]
                                 /\ pass'.plans[i] = pass.plans[i]
         /\ pass'.kind = pass.kind /\ pass'.at = at /\ pass'.todo = DOMAIN plan.entries
         /\ pass'.faults = pass.faults /\ pass'.permit = pass.permit
<1>1. /\ pass \in PassType /\ page \in [FieldKeys -> Shows] /\ blocked \in {0, 1}
      /\ PassShape /\ PortalTyped
  BY DEF FormsInv, PassTyped
<1>2. /\ pass.snaps \in Seq(SnapType) /\ pass.plans \in Seq(PlanType)
      /\ pass.faults \in SUBSET {"upload", "value", "changed"} /\ pass.permit \in Seq(Answers)
      /\ pass.kind \in {"idle", "prepare", "commit"}
  BY <1>1 DEF PassType
<1>4. /\ pass'.kind = pass.kind /\ pass'.at = at /\ pass'.snaps = Append(pass.snaps, snap)
      /\ pass'.plans = Append(pass.plans, plan) /\ pass'.todo = DOMAIN plan.entries
      /\ pass'.faults = pass.faults /\ pass'.permit = pass.permit /\ pass' \in PassType
  BY <1>1, InspectedFields
<1>7. PassTyped'
  BY <1>1, <1>4 DEF PassTyped
<1>8. /\ Len(pass.plans) = Step /\ Step < Steps /\ Step \in Nat /\ pass.permit = << >>
      /\ Steps \in {1, 2} /\ Steps' = Steps /\ (portal.adapter = "mock" <=> Steps = 2)
  BY <1>1, <1>2, FormTyped DEF PassShape, Step, Steps
<1>9. /\ Step' = Step + 1 /\ DOMAIN pass.plans = 1 .. Step /\ DOMAIN pass'.plans = 1 .. Step'
      /\ DOMAIN pass.snaps = 1 .. Step /\ DOMAIN pass'.snaps = 1 .. Step'
      /\ Len(pass'.plans) = Step'
      /\ pass'.snaps[Step'] = snap /\ pass'.plans[Step'] = plan
      /\ \A i \in 1 .. Step : pass'.snaps[i] = pass.snaps[i] /\ pass'.plans[i] = pass.plans[i]
  BY <1>2, <1>4, <1>8 DEF Step
<1>10. PassShape'
  BY <1>4, <1>8, <1>9 DEF PassShape, NoPass, Plan
<1> QED
  BY <1>4, <1>7, <1>8, <1>9, <1>10

LEMMA InspectToPrepareKeeps ==
  ASSUME FormsInv, InspectToPrepare
  PROVE  FormsInv'
<1> DEFINE snap == Snapshot(Step + 1)
           plan == IF portal.adapter = "hosted" THEN PlanFor(snap)
                   ELSE Guarded(snap, PlanFor(snap))
           at == IF Enters(snap, plan) THEN "fill" ELSE "done"
           next == Inspected(snap, plan, at, Enters(snap, plan))
<1>1. /\ pass.kind = "prepare" /\ pass.at = "open" /\ pass \in PassType
      /\ UNCHANGED <<portal, form, approved, revoked, packet>>
  BY DEF InspectToPrepare, FormsInv, PassTyped
<1>2. \/ Throws
      \/ /\ Advances([pass EXCEPT !.snaps = Append(@, snap), !.plans = Append(@, plan),
                                  !.at = at, !.filled = Enters(snap, plan),
                                  !.todo = DOMAIN plan.entries])
         /\ page' = page
  BY DEF InspectToPrepare
<1>3. snap \in SnapType /\ (portal.adapter = "mock" => snap.blocker # "unsupported")
  BY SnapshotTyped DEF FormsInv
<1> HIDE DEF snap
<1>4. /\ plan \in PlanType
      /\ portal.adapter = "mock" /\ plan.unresolved = {} =>
           plan.entries = Planned(snap, Values).entries
  BY <1>3, PlanTyped, GuardedTyped DEF FormsInv, PlanFor
<1>5. /\ Enters(snap, plan) \in BOOLEAN
      /\ portal.adapter = "mock" => (Enters(snap, plan) <=> snap.blocker = "none")
  BY DEF Enters
<1> HIDE DEF plan
<1>6. [pass EXCEPT !.snaps = Append(@, snap), !.plans = Append(@, plan), !.at = at,
                   !.filled = Enters(snap, plan), !.todo = DOMAIN plan.entries] = next
  BY DEF Inspected
<1>7. CASE Throws
  BY <1>1, <1>7, GivenUp
<1>8. CASE Advances(next) /\ page' = page
  <2>1. /\ pass' = next /\ UNCHANGED <<blocked, prepared, wire, outcome>> /\ page' = page
    BY <1>8 DEF Advances
  <2>2. at \in {"fill", "done"} /\ (at = "fill" <=> Enters(snap, plan))
    OBVIOUS
  <2> HIDE DEF at
  <2>3. /\ PassTyped' /\ PassShape'
        /\ Step' = Step + 1 /\ Step \in {0, 1} /\ (Step = 1 => portal.adapter = "mock")
        /\ pass'.snaps[Step'] = snap /\ pass'.plans[Step'] = plan
        /\ DOMAIN pass.plans = 1 .. Step /\ DOMAIN pass'.plans = 1 .. Step'
        /\ DOMAIN pass.snaps = 1 .. Step /\ DOMAIN pass'.snaps = 1 .. Step'
        /\ \A i \in 1 .. Step : /\ pass'.snaps[i] = pass.snaps[i]
                                /\ pass'.plans[i] = pass.plans[i]
        /\ pass'.kind = pass.kind /\ pass'.at = at /\ pass'.todo = DOMAIN plan.entries
        /\ pass'.faults = pass.faults
    BY <1>1, <1>3, <1>4, <1>5, <2>1, <2>2, InspectedShape
  <2>4. CommitSound'
    BY <1>1, <2>3 DEF CommitSound
  <2>5. PrepareSound'
    <3> SUFFICES ASSUME portal.adapter = "mock" PROVE PrepareSound'
      BY <1>1 DEF PrepareSound
    <3>1. PrepareSound
      BY DEF FormsInv
    <3>2. /\ UNCHANGED <<portal, packet, page>> /\ \A f : Fixture(f)' = Fixture(f)
          /\ Values' = Values
      BY <1>1, <2>1 DEF Fixture, Values
    <3>3. /\ Blocked("challenge") => Blocked("challenge")'
          /\ at = "done" => Blocked("challenge")'
      BY <1>3, <1>5, <2>2, <2>3 DEF Blocked, SnapType
    <3>4. \A i \in DOMAIN pass'.plans : pass'.plans[i].unresolved = {} =>
            pass'.plans[i].entries = Planned(pass'.snaps[i], Values).entries
      BY <1>1, <1>4, <2>3, <3>1, <3>2 DEF PrepareSound
    <3>5. Fixture("implicit-submit") =>
            \A i \in DOMAIN pass'.plans : "country" \in DOMAIN pass'.plans[i].entries =>
              \/ i = Step' /\ pass'.at = "fill" /\ "country" \in pass'.todo
              \/ Blocked("challenge")'
      BY <1>1, <2>2, <2>3, <3>1, <3>3 DEF PrepareSound
    <3>6. (/\ Fixture("resume-overwrite")
           /\ Step' = 2 \/ (Step' = 1 /\ pass'.at = "open")
           /\ "name" \in DOMAIN pass'.plans[1].entries) =>
             \/ page'["name"] = Other
             \/ Step' = 2 /\ "name" \in DOMAIN pass'.plans[2].entries
      BY <1>1, <2>2, <2>3, <3>1, <3>2 DEF PrepareSound
    <3> QED
      BY <2>3, <3>2, <3>3, <3>4, <3>5, <3>6 DEF PrepareSound
  <2> QED
    BY <1>1, <1>8, <2>1, <2>3, <2>4, <2>5, MovesOn
<1> QED
  BY <1>2, <1>6, <1>7, <1>8

\* What a pass is at is entered or read; nothing of it is inspected anew.
LEMMA FillingShape ==
  ASSUME FormsInv, pass.at \in {"fill", "read"}, pass' \in PassType,
         page' \in [FieldKeys -> Shows], UNCHANGED <<portal, blocked>>,
         pass'.snaps = pass.snaps, pass'.plans = pass.plans, pass'.kind = pass.kind,
         pass'.permit = pass.permit, pass'.at # "click",
         pass'.at \in {"fill", "read"} => pass'.todo \subseteq DOMAIN Plan.entries,
         pass'.at = "read" => portal.adapter = "greenhouse",
         pass'.at = "open" => Step < Steps,
         pass'.at = "done" => pass.kind = "prepare",
         pass'.at = "permit" => pass.kind = "commit" /\ Step = Steps
  PROVE  PassTyped' /\ PassShape' /\ UNCHANGED <<Step, Plan, Steps>> /\ pass.kind # "idle"
<1>1. PassShape /\ PassTyped
  BY DEF FormsInv
<1>2. Step' = Step /\ Plan' = Plan /\ Steps' = Steps
  BY DEF Step, Plan, Steps
<1>3. pass.kind # "idle"
  BY <1>1 DEF PassShape, NoPass
<1>4. PassShape'
  BY <1>1, <1>2, <1>3 DEF PassShape
<1> QED
  BY <1>1, <1>2, <1>3, <1>4 DEF PassTyped

\* What a commit of the synthetic form enters is what the packet says.
LEMMA CommitValues ==
  ASSUME FormsInv, pass.kind = "commit", portal.adapter = "mock", pass.at # "open",
         NEW i \in DOMAIN pass.plans, NEW k \in DOMAIN pass.plans[i].entries
  PROVE  pass.plans[i].entries[k] = Values[k]
<1>1. ReadySound /\ CommitSound /\ PortalTyped /\ prepared.status = "ready"
  BY DEF FormsInv, CommitSound
<1>2. i \in 1 .. 2
  BY PlanAtHand
<1>3. prepared.snaps \in Seq(SnapType) /\ Len(prepared.snaps) = 2
  BY <1>1, FormTyped DEF FormsInv, SentTyped, ReadySound
<1>4. prepared.snaps[i] \in SnapType
  BY <1>2, <1>3
<1>5. pass.plans[i].entries = Planned(prepared.snaps[i], Values).entries
  BY <1>1, <1>2 DEF ReadySound, CommitSound
<1> QED
  BY <1>1, <1>4, <1>5, PlanTyped

\* One value is entered.
LEMMA EnteredTyped ==
  ASSUME FormsInv, NEW k \in pass.todo, NEW faults \in SUBSET {"upload", "value", "changed"}
  PROVE  \A next \in {Entered(k), [Entered(k) EXCEPT !.faults = @ \cup faults]} :
           /\ next \in PassType /\ next.snaps = pass.snaps /\ next.plans = pass.plans
           /\ next.kind = pass.kind /\ next.at = pass.at /\ next.permit = pass.permit
           /\ next.todo = pass.todo \ {k} /\ next.late = pass.late
<1>1. pass \in PassType
  BY DEF FormsInv, PassTyped
<1>2. /\ Entered(k) \in PassType /\ Entered(k).snaps = pass.snaps
      /\ Entered(k).plans = pass.plans /\ Entered(k).kind = pass.kind
      /\ Entered(k).at = pass.at /\ Entered(k).permit = pass.permit
      /\ Entered(k).todo = pass.todo \ {k} /\ Entered(k).late = pass.late
  BY <1>1 DEF PassType, Entered
<1> DEFINE once == Entered(k)
<1> HIDE DEF once
<1>3. LET next == [once EXCEPT !.faults = @ \cup faults] IN
         /\ next \in PassType /\ next.snaps = once.snaps /\ next.plans = once.plans
         /\ next.kind = once.kind /\ next.at = once.at /\ next.permit = once.permit
         /\ next.todo = once.todo /\ next.late = once.late
  <2>1. once \in PassType
    BY <1>2 DEF once
  <2> QED
    BY <2>1 DEF PassType
<1>4. once = Entered(k)
  BY DEF once
<1> QED
  BY <1>2, <1>3, <1>4

LEMMA FillKeeps ==
  ASSUME FormsInv, pass.at = "fill", NEW k \in pass.todo,
         NEW faults \in SUBSET {"upload", "value", "changed"},
         NEW next \in {Entered(k), [Entered(k) EXCEPT !.faults = @ \cup faults]},
         Advances(next), NEW value,
         value = Plan.entries[k] \/ (portal.adapter # "mock" /\ value = Other),
         page' = [page EXCEPT ![k] = value],
         Fixture("implicit-submit") => k # "country",
         UNCHANGED <<portal, form, approved, revoked, packet>>
  PROVE  FormsInv'
<1>1. /\ pass' = next /\ UNCHANGED <<blocked, prepared, wire, outcome>>
      /\ next \in PassType /\ next.snaps = pass.snaps /\ next.plans = pass.plans
      /\ next.kind = pass.kind /\ next.at = pass.at /\ next.permit = pass.permit
      /\ next.todo = pass.todo \ {k}
  <2>1. \A n \in {Entered(k), [Entered(k) EXCEPT !.faults = @ \cup faults]} :
          /\ n \in PassType /\ n.snaps = pass.snaps /\ n.plans = pass.plans
          /\ n.kind = pass.kind /\ n.at = pass.at /\ n.permit = pass.permit
          /\ n.todo = pass.todo \ {k} /\ n.late = pass.late
    BY EnteredTyped
  <2>2. pass' = next /\ UNCHANGED <<blocked, prepared, wire, outcome>>
    BY DEF Advances
  <2> QED
    BY ONLY <2>1, <2>2, next \in {Entered(k), [Entered(k) EXCEPT !.faults = @ \cup faults]}
<1>2. /\ PassShape /\ PassTyped /\ PrepareSound /\ CommitSound
      /\ pass.todo \subseteq DOMAIN Plan.entries
  BY DEF FormsInv, PassShape
<1>3. /\ Step \in {1, 2} /\ Step \in DOMAIN pass.plans /\ Plan \in PlanType
      /\ DOMAIN pass.plans = 1 .. Step /\ Plan = pass.plans[Step]
      /\ k \in DOMAIN Plan.entries /\ k \in FieldKeys /\ Plan.entries[k] \in Shows
  BY <1>2, PlanAtHand
<1>4. /\ page' \in [FieldKeys -> Shows]
      /\ page'[k] = value /\ \A j \in FieldKeys : j # k => page'[j] = page[j]
  BY <1>2, <1>3 DEF PassTyped, Other, Shows
<1>5. PassTyped' /\ PassShape' /\ UNCHANGED <<Step, Plan, Steps>> /\ pass.kind # "idle"
  <2>1. /\ pass' \in PassType /\ page' \in [FieldKeys -> Shows] /\ UNCHANGED <<portal, blocked>>
        /\ pass'.snaps = pass.snaps /\ pass'.plans = pass.plans /\ pass'.kind = pass.kind
        /\ pass'.permit = pass.permit /\ pass'.at = "fill"
        /\ pass'.todo \subseteq DOMAIN Plan.entries
    BY <1>1, <1>2, <1>4
  <2> QED
    BY <2>1, FillingShape
<1>6. /\ Unresolved' = Unresolved /\ Blocked("challenge")' = Blocked("challenge")
      /\ \A f : Fixture(f)' = Fixture(f)
      /\ Values' = Values
      /\ \A p : LosesName(p)' = LosesName(p)
  BY <1>1 DEF Unresolved, Blocked, Fixture, Values, LosesName
<1>7. PrepareSound'
  <2> SUFFICES ASSUME pass.kind = "prepare", portal.adapter = "mock" PROVE PrepareSound'
    BY <1>1 DEF PrepareSound
  <2>1. \A i \in DOMAIN pass'.plans : pass'.plans[i].unresolved = {} =>
          pass'.plans[i].entries = Planned(pass'.snaps[i], Values').entries
    BY <1>1, <1>2, <1>6 DEF PrepareSound
  <2>2. Fixture("implicit-submit")' =>
          \A i \in DOMAIN pass'.plans : "country" \in DOMAIN pass'.plans[i].entries =>
            \/ i = Step' /\ pass'.at = "fill" /\ "country" \in pass'.todo
            \/ Blocked("challenge")'
    BY <1>1, <1>2, <1>5, <1>6 DEF PrepareSound
  <2>3. (/\ Fixture("resume-overwrite")'
         /\ Step' = 2 \/ (Step' = 1 /\ pass'.at = "open")
         /\ "name" \in DOMAIN pass'.plans[1].entries) =>
           \/ page'["name"] = Other
           \/ Step' = 2 /\ "name" \in DOMAIN pass'.plans[2].entries
    <3> SUFFICES ASSUME Fixture("resume-overwrite"), Step = 2,
                        "name" \in DOMAIN pass.plans[1].entries,
                        "name" \notin DOMAIN pass.plans[2].entries
                 PROVE  page'["name"] = Other
      BY <1>1, <1>5, <1>6
    <3>1. page["name"] = Other
      BY <1>2 DEF PrepareSound
    <3>2. k # "name"
      BY <1>3
    <3>3. "name" \in FieldKeys
      <4>1. pass.plans[1] \in PlanType
        BY PlanAtHand
      <4> QED
        BY <4>1 DEF PlanType, Entries
    <3> QED
      BY <1>4, <3>1, <3>2, <3>3
  <2> QED
    BY <1>1, <2>1, <2>2, <2>3 DEF PrepareSound
<1>8. CommitSound'
  <2> SUFFICES ASSUME pass.kind = "commit" PROVE CommitSound'
    BY <1>1 DEF CommitSound
  <2>1. /\ prepared.status = "ready"
        /\ \A i \in DOMAIN pass.plans : pass.plans[i].entries = prepared.plans[i].entries
    BY <1>2 DEF CommitSound
  <2>2. ASSUME portal.adapter = "mock", NEW i \in DOMAIN pass.plans,
               NEW j \in DOMAIN pass.plans[i].entries
        PROVE  \/ page'[j] = pass.plans[i].entries[j]
               \/ i = Step /\ j \in pass'.todo
               \/ /\ Fixture("resume-overwrite") /\ j = "name" /\ i = 1
                  /\ Step = 1 \/ "name" \in pass'.todo
    <3>1. CASE j = k
      <4>1. Plan.entries[k] = Values[k] /\ pass.plans[i].entries[k] = Values[k]
        BY <1>3, <2>2, <3>1, CommitValues
      <4> QED
        BY <1>4, <2>2, <3>1, <4>1
    <3>2. CASE j # k
      <4>1. pass.plans[i] \in PlanType
        BY <1>3, <2>2, PlanAtHand
      <4>2. j \in FieldKeys
        BY <2>2, <4>1 DEF PlanType, Entries
      <4>3. \/ page[j] = pass.plans[i].entries[j]
            \/ i = Step /\ j \in pass.todo
            \/ /\ Fixture("resume-overwrite") /\ j = "name" /\ i = 1
               /\ Step = 1 \/ "name" \in pass.todo
        BY <1>2, <2>2 DEF CommitSound
      <4> QED
        BY <1>1, <1>4, <3>2, <4>2, <4>3
    <3> QED
      BY <3>1, <3>2
  <2> QED
    BY <1>1, <1>5, <1>6, <2>1, <2>2 DEF CommitSound
<1>9. next.kind = pass.kind /\ pass.at # "click"
  BY <1>1
<1> QED
  BY <1>5, <1>7, <1>8, <1>9, MovesOn

LEMMA FillMockKeeps ==
  ASSUME FormsInv, NEW k \in FieldKeys, FillMock(k)
  PROVE  FormsInv'
<1>1. /\ portal.adapter = "mock" /\ pass.at = "fill" /\ k \in pass.todo
      /\ page' = [page EXCEPT ![k] = Plan.entries[k]]
      /\ Fixture("implicit-submit") => k # "country"
      /\ UNCHANGED <<portal, form, approved, revoked, packet>>
  BY DEF FillMock, Keep, Fixture
<1>2. \/ Advances(Entered(k))
      \/ Advances([Entered(k) EXCEPT !.faults = @ \cup {"upload"}])
  BY DEF FillMock
<1>3. {"upload"} \in SUBSET {"upload", "value", "changed"}
  OBVIOUS
<1> QED
  BY <1>1, <1>2, <1>3, FillKeeps

LEMMA FillGreenhouseKeeps ==
  ASSUME FormsInv, NEW k \in FieldKeys, FillGreenhouse(k)
  PROVE  FormsInv'
<1>1. /\ portal.adapter = "greenhouse" /\ pass.at = "fill" /\ k \in pass.todo
      /\ UNCHANGED <<portal, form, approved, revoked, packet>>
  BY DEF FillGreenhouse
<1>2. \/ Throws
      \/ Aborts
      \/ Keep(k) /\ Advances(Entered(k))
      \/ Alter(k) /\ Advances([Entered(k) EXCEPT !.faults = @ \cup {"value"}])
  BY DEF FillGreenhouse
<1>3. {"value"} \in SUBSET {"upload", "value", "changed"} /\ ~Fixture("implicit-submit")
      /\ pass.kind # "idle"
  BY <1>1 DEF Fixture, FormsInv, PassShape, NoPass
<1>4. CASE Throws \/ Aborts
  BY <1>1, <1>3, <1>4, GivenUp
<1>5. CASE Keep(k) /\ Advances(Entered(k))
  <2>1. page' = [page EXCEPT ![k] = Plan.entries[k]]
    BY <1>5 DEF Keep
  <2> QED
    BY <1>1, <1>3, <1>5, <2>1, FillKeeps
<1>6. CASE Alter(k) /\ Advances([Entered(k) EXCEPT !.faults = @ \cup {"value"}])
  <2>1. page' = [page EXCEPT ![k] = Other]
    BY <1>6 DEF Alter
  <2> QED
    BY <1>1, <1>3, <1>6, <2>1, FillKeeps
<1> QED
  BY <1>2, <1>4, <1>5, <1>6

LEMMA FillHostedKeeps ==
  ASSUME FormsInv, NEW k \in FieldKeys, FillHosted(k)
  PROVE  FormsInv'
<1>1. /\ portal.adapter = "hosted" /\ pass.at = "fill" /\ k \in pass.todo
      /\ UNCHANGED <<portal, form, approved, revoked, packet>>
      /\ Aborts \/ (Keep(k) /\ Advances(Entered(k)))
  BY DEF FillHosted
<1>2. ~Fixture("implicit-submit") /\ pass.kind # "idle"
  BY <1>1 DEF Fixture, FormsInv, PassShape, NoPass
<1>3. CASE Aborts
  BY <1>1, <1>2, <1>3, GivenUp
<1>4. CASE Keep(k) /\ Advances(Entered(k))
  <2>1. page' = [page EXCEPT ![k] = Plan.entries[k]]
    BY <1>4 DEF Keep
  <2> QED
    BY <1>1, <1>2, <1>4, <2>1, FillKeeps
<1> QED
  BY <1>1, <1>3, <1>4

LEMMA MovedTyped ==
  ASSUME FormsInv, NEW at \in {"open", "done", "permit"}, pass' = [pass EXCEPT !.at = at]
  PROVE  /\ pass' \in PassType /\ pass'.snaps = pass.snaps /\ pass'.plans = pass.plans
         /\ pass'.kind = pass.kind /\ pass'.at = at /\ pass'.permit = pass.permit
         /\ pass'.todo = pass.todo
         /\ pass'.late = pass.late
  BY DEF FormsInv, PassTyped, PassType

LEMMA MovedWithFaults ==
  ASSUME FormsInv, NEW at \in {"open", "done", "permit"},
         NEW faults \in SUBSET {"upload", "value", "changed"},
         pass' = [pass EXCEPT !.at = at, !.faults = faults]
  PROVE  /\ pass' \in PassType /\ pass'.snaps = pass.snaps /\ pass'.plans = pass.plans
         /\ pass'.kind = pass.kind /\ pass'.at = at /\ pass'.permit = pass.permit
         /\ pass'.todo = pass.todo /\ pass'.faults = faults
         /\ pass'.late = pass.late
  BY DEF FormsInv, PassTyped, PassType

\* The synthetic form: the end of its first step, and of a dry run or a commit.
LEMMA ReadMockKeeps ==
  ASSUME FormsInv, ReadMock
  PROVE  FormsInv'
<1> DEFINE changed == Fingerprint(MockSnapshot(Step)) # Fingerprint(Snap)
           faults == pass.faults \cup (IF changed THEN {"changed"} ELSE {})
                       \cup (IF pass.kind = "prepare" /\ Step = 2 /\ Disturbed # {}
                             THEN {"value"} ELSE {})
           clean == pass.faults = {} /\ Plan.unresolved = {}
<1>1. /\ portal.adapter = "mock" /\ pass.at = "fill" /\ pass.todo = {}
      /\ UNCHANGED <<portal, form, approved, revoked, packet>>
  BY DEF ReadMock
<1>2. \/ Aborts \/ Throws
      \/ /\ clean /\ Step = 1
         /\ page' = IF portal.fixture = "resume-overwrite" THEN [page EXCEPT !["name"] = Other]
                    ELSE page
         /\ Advances([pass EXCEPT !.at = "open"])
      \/ /\ pass.kind = "prepare" /\ (Step = 2 \/ changed \/ ~clean) /\ page' = page
         /\ Advances([pass EXCEPT !.at = "done", !.faults = faults])
      \/ /\ pass.kind = "commit" /\ clean /\ Step = 2 /\ page' = page
         /\ Advances([pass EXCEPT !.at = "permit"])
  BY DEF ReadMock
<1>3. /\ PassShape /\ PassTyped /\ PrepareSound /\ CommitSound /\ ReadySound /\ PortalTyped
      /\ pass.kind \in {"prepare", "commit"}
      /\ pass.faults \in SUBSET {"upload", "value", "changed"}
      /\ page \in [FieldKeys -> Shows] /\ blocked \in {0, 1}
  BY <1>1 DEF FormsInv, PassShape, NoPass, PassTyped, PassType
<1>4. /\ Step \in {1, 2} /\ Step \in DOMAIN pass.plans /\ DOMAIN pass.plans = 1 .. Step
      /\ DOMAIN pass.snaps = 1 .. Step /\ Plan = pass.plans[Step] /\ Steps = 2
      /\ \A i \in 1 .. Step : pass.plans[i] \in PlanType /\ pass.snaps[i] \in SnapType
  BY <1>1, PlanAtHand
<1>5. CASE Aborts \/ Throws
  BY <1>1, <1>3, <1>5, GivenUp
<1>6. faults \in SUBSET {"upload", "value", "changed"}
  BY <1>3
<1>7. CASE /\ clean /\ Step = 1
           /\ page' = IF portal.fixture = "resume-overwrite"
                      THEN [page EXCEPT !["name"] = Other] ELSE page
           /\ Advances([pass EXCEPT !.at = "open"])
  <2>1. /\ pass' = [pass EXCEPT !.at = "open"] /\ UNCHANGED <<blocked, prepared, wire, outcome>>
    BY <1>7 DEF Advances
  <2>2. /\ pass' \in PassType /\ pass'.snaps = pass.snaps /\ pass'.plans = pass.plans
        /\ pass'.kind = pass.kind /\ pass'.at = "open" /\ pass'.permit = pass.permit
        /\ pass'.todo = pass.todo
    BY <2>1, MovedTyped
  <2>3. /\ page' \in [FieldKeys -> Shows]
        /\ portal.fixture = "resume-overwrite" /\ "name" \in FieldKeys => page'["name"] = Other
        /\ portal.fixture # "resume-overwrite" => page' = page
        /\ \A k \in FieldKeys : k # "name" => page'[k] = page[k]
    <3>1. CASE portal.fixture = "resume-overwrite"
      <4>0. page' = IF portal.fixture = "resume-overwrite"
                    THEN [page EXCEPT !["name"] = Other] ELSE page
        BY ONLY <1>7
      <4>1. page' = [page EXCEPT !["name"] = Other]
        BY ONLY <3>1, <4>0
      <4>2. /\ page' \in [FieldKeys -> Shows]
            /\ "name" \in FieldKeys => page'["name"] = Other
            /\ \A k \in FieldKeys : k # "name" => page'[k] = page[k]
        BY <1>3, <4>1, Overwritten
      <4> QED
        BY ONLY <3>1, <4>2
    <3>2. CASE portal.fixture # "resume-overwrite"
      <4>1. page' = page
        BY <1>7, <3>2
      <4> QED
        BY <1>3, <3>2, <4>1
    <3> QED
      BY <3>1, <3>2
  <2>4. PassTyped' /\ PassShape' /\ UNCHANGED <<Step, Plan, Steps>>
    BY <1>1, <1>4, <1>7, <2>1, <2>2, <2>3, FillingShape
  <2>5. /\ Blocked("challenge")' = Blocked("challenge")
        /\ \A f : Fixture(f)' = Fixture(f)
        /\ Values' = Values
    BY <1>1, <2>2 DEF Blocked, Fixture, Values
  <2>6. \A k \in DOMAIN pass.plans[1].entries : k \in FieldKeys
    BY <1>4, <1>7 DEF PlanType, Entries
  <2>7. PrepareSound'
    <3> SUFFICES ASSUME pass.kind = "prepare" PROVE PrepareSound'
      BY <2>2 DEF PrepareSound
    <3>1. \A i \in DOMAIN pass'.plans : pass'.plans[i].unresolved = {} =>
            pass'.plans[i].entries = Planned(pass'.snaps[i], Values').entries
      BY <1>1, <1>3, <2>2, <2>5 DEF PrepareSound
    <3>2. Fixture("implicit-submit")' =>
            \A i \in DOMAIN pass'.plans :
              "country" \in DOMAIN pass'.plans[i].entries => Blocked("challenge")'
      BY <1>1, <1>3, <2>2, <2>5 DEF PrepareSound
    <3>3. Fixture("resume-overwrite")' /\ "name" \in DOMAIN pass'.plans[1].entries =>
            page'["name"] = Other
      BY <2>2, <2>3, <2>5, <2>6 DEF Fixture
    <3> QED
      BY <2>2, <3>1, <3>2, <3>3 DEF PrepareSound
  <2>8. CommitSound'
    <3> SUFFICES ASSUME pass.kind = "commit" PROVE CommitSound'
      BY <2>2 DEF CommitSound
    <3>1. /\ prepared'.status = "ready"
          /\ \A i \in DOMAIN pass'.plans : pass'.plans[i].entries = prepared'.plans[i].entries
      BY <1>3, <2>1, <2>2 DEF CommitSound
    <3>2. ASSUME NEW i \in DOMAIN pass.plans, NEW k \in DOMAIN pass.plans[i].entries
          PROVE  \/ page'[k] = pass.plans[i].entries[k]
                 \/ Fixture("resume-overwrite") /\ k = "name" /\ i = 1
      <4>1. i = 1 /\ k \in FieldKeys
        BY <1>4, <1>7, <2>6, <3>2
      <4>2. \/ page[k] = pass.plans[i].entries[k]
            \/ Fixture("resume-overwrite") /\ k = "name" /\ i = 1
        BY <1>1, <1>3, <3>2 DEF CommitSound
      <4> QED
        BY <1>1, <2>3, <4>1, <4>2 DEF Fixture
    <3> QED
      BY <1>7, <2>2, <2>4, <2>5, <3>1, <3>2 DEF CommitSound
  <2> QED
    BY <1>1, <1>3, <1>7, <2>1, <2>2, <2>4, <2>7, <2>8, MovesOn
<1>8. CASE /\ pass.kind = "prepare" /\ (Step = 2 \/ changed \/ ~clean) /\ page' = page
           /\ Advances([pass EXCEPT !.at = "done", !.faults = faults])
  <2>1. /\ pass' = [pass EXCEPT !.at = "done", !.faults = faults]
        /\ UNCHANGED <<blocked, prepared, wire, outcome, page>>
    BY <1>8 DEF Advances
  <2>2. /\ pass' \in PassType /\ pass'.snaps = pass.snaps /\ pass'.plans = pass.plans
        /\ pass'.kind = pass.kind /\ pass'.at = "done" /\ pass'.permit = pass.permit
        /\ pass'.todo = pass.todo /\ pass'.faults = faults
    <3> HIDE DEF faults
    <3> QED
      BY <1>6, <2>1, MovedWithFaults
  <2>3. PassTyped' /\ PassShape' /\ UNCHANGED <<Step, Plan, Steps>>
    BY <1>1, <1>3, <1>8, <2>1, <2>2, FillingShape
  <2>4. CommitSound'
    BY <1>8, <2>2 DEF CommitSound
  <2>5. /\ Blocked("challenge")' = Blocked("challenge") /\ Unresolved' = Unresolved
        /\ \A f : Fixture(f)' = Fixture(f) /\ \A p : LosesName(p)' = LosesName(p)
        /\ Values' = Values
    BY <1>1, <2>2 DEF Blocked, Unresolved, Fixture, LosesName, Values
  <2>6. Unresolved \/ faults # {} \/ (Step = 2 /\ ~LosesName(pass.plans))
    <3> SUFFICES ASSUME faults = {}, ~Unresolved PROVE Step = 2 /\ ~LosesName(pass.plans)
      OBVIOUS
    <3>1. pass.faults = {} /\ ~changed /\ ~(Step = 2 /\ Disturbed # {})
      BY <1>8
    <3>2. Plan.unresolved = {} /\ pass.plans[1].unresolved = {}
      BY <1>4 DEF Unresolved
    <3>3. Step = 2
      BY <1>4, <1>8, <3>1, <3>2
    <3>4. ASSUME LosesName(pass.plans) PROVE FALSE
      <4>1. /\ "name" \in DOMAIN pass.plans[1].entries
            /\ "name" \notin DOMAIN pass.plans[2].entries /\ Fixture("resume-overwrite")
        BY <3>4 DEF LosesName
      <4>2. page["name"] = Other
        BY <1>1, <1>3, <1>8, <3>3, <4>1 DEF PrepareSound
      <4>3. page["name"] = pass.plans[1].entries["name"]
        BY <3>1, <3>3, <4>1 DEF Disturbed
      <4>4. pass.plans[1].entries = Planned(pass.snaps[1], Values).entries
        BY <1>1, <1>3, <1>4, <1>8, <3>2 DEF PrepareSound
      <4>5. pass.snaps[1] \in SnapType
        BY <1>4
      <4>6. pass.plans[1].entries["name"] \in Nat
        BY <1>3, <4>1, <4>4, <4>5, PlanTyped
      <4> QED
        BY <4>2, <4>3, <4>6 DEF Other
    <3> QED
      BY <3>3, <3>4
  <2>7. PrepareSound'
    <3>1. \A i \in DOMAIN pass'.plans : pass'.plans[i].unresolved = {} =>
            pass'.plans[i].entries = Planned(pass'.snaps[i], Values').entries
      BY <1>1, <1>3, <1>8, <2>2, <2>5 DEF PrepareSound
    <3>2. Fixture("implicit-submit")' =>
            \A i \in DOMAIN pass'.plans :
              "country" \in DOMAIN pass'.plans[i].entries => Blocked("challenge")'
      BY <1>1, <1>3, <1>8, <2>2, <2>5 DEF PrepareSound
    <3>3. Fixture("resume-overwrite")' /\ Step' = 2
            /\ "name" \in DOMAIN pass'.plans[1].entries =>
              \/ page'["name"] = Other
              \/ Step' = 2 /\ "name" \in DOMAIN pass'.plans[2].entries
      BY <1>1, <1>3, <1>8, <2>1, <2>2, <2>3, <2>5 DEF PrepareSound
    <3>4. \/ Blocked("challenge")' \/ Unresolved' \/ pass'.faults # {}
          \/ (Step' = 2 /\ ~LosesName(pass.plans)')
      BY <2>2, <2>3, <2>5, <2>6
    <3> QED
      BY <2>2, <3>1, <3>2, <3>3, <3>4 DEF PrepareSound
  <2> QED
    BY <1>1, <1>3, <1>8, <2>1, <2>2, <2>3, <2>4, <2>7, MovesOn
<1>9. CASE /\ pass.kind = "commit" /\ clean /\ Step = 2 /\ page' = page
           /\ Advances([pass EXCEPT !.at = "permit"])
  <2>1. /\ pass' = [pass EXCEPT !.at = "permit"]
        /\ UNCHANGED <<blocked, prepared, wire, outcome, page>>
    BY <1>9 DEF Advances
  <2>2. /\ pass' \in PassType /\ pass'.snaps = pass.snaps /\ pass'.plans = pass.plans
        /\ pass'.kind = pass.kind /\ pass'.at = "permit" /\ pass'.permit = pass.permit
        /\ pass'.todo = pass.todo
    BY <2>1, MovedTyped
  <2>3. PassTyped' /\ PassShape' /\ UNCHANGED <<Step, Plan, Steps>>
    BY <1>1, <1>3, <1>4, <1>9, <2>1, <2>2, FillingShape
  <2>4. PrepareSound'
    BY <1>9, <2>2 DEF PrepareSound
  <2>5. \A i \in DOMAIN pass.plans : \A k \in DOMAIN pass.plans[i].entries :
          page[k] = pass.plans[i].entries[k]
    BY <1>1, <1>3, <1>9 DEF CommitSound
  <2>6. /\ prepared.status = "ready"
        /\ \A i \in DOMAIN pass.plans : pass.plans[i].entries = prepared.plans[i].entries
    BY <1>3, <1>9 DEF CommitSound
  <2>7. DOMAIN prepared.plans = 1 .. 2
    BY <1>3, <1>4, <2>6 DEF ReadySound, FormsInv, SentTyped
  <2>8. AllEntered'
    BY <1>1, <1>4, <1>9, <2>1, <2>5, <2>6, <2>7 DEF AllEntered
  <2>9. CommitSound'
    BY <2>1, <2>2, <2>5, <2>6, <2>8 DEF CommitSound
  <2> QED
    BY <1>1, <1>3, <1>9, <2>1, <2>2, <2>3, <2>4, <2>9, MovesOn
<1> QED
  BY <1>2, <1>5, <1>7, <1>8, <1>9

\* The form is inspected again, and nothing of it is read back yet.
LEMMA ReinspectGreenhouseKeeps ==
  ASSUME FormsInv, ReinspectGreenhouse
  PROVE  FormsInv'
<1> DEFINE faults == pass.faults \cup (IF GreenhouseSnapshot.blocker = "none" THEN {}
                                       ELSE {"changed"})
           todo == DOMAIN Plan.entries
<1>1. /\ portal.adapter = "greenhouse" /\ pass.at = "fill"
      /\ UNCHANGED <<portal, form, approved, revoked, packet>>
  BY DEF ReinspectGreenhouse
<1>2. \/ Aborts
      \/ /\ Advances([pass EXCEPT !.at = "read", !.todo = todo, !.faults = faults])
         /\ page' = page
  BY DEF ReinspectGreenhouse
<1>3. /\ PassShape /\ PassTyped /\ CommitSound /\ pass \in PassType
      /\ pass.kind \in {"prepare", "commit"}
      /\ page \in [FieldKeys -> Shows] /\ blocked \in {0, 1}
  BY <1>1 DEF FormsInv, PassShape, NoPass, PassTyped, PassType
<1>4. CASE Aborts
  BY <1>1, <1>3, <1>4, GivenUp
<1>5. faults \in SUBSET {"upload", "value", "changed"} /\ todo \in SUBSET FieldKeys
  BY <1>1, <1>3, PlanAtHand DEF PassType
<1>6. CASE /\ Advances([pass EXCEPT !.at = "read", !.todo = todo, !.faults = faults])
           /\ page' = page
  <2> HIDE DEF faults
  <2>1. /\ pass' = [pass EXCEPT !.at = "read", !.todo = todo, !.faults = faults]
        /\ UNCHANGED <<blocked, prepared, wire, outcome, page>>
    BY <1>6 DEF Advances
  <2>2. /\ pass' \in PassType /\ pass'.snaps = pass.snaps /\ pass'.plans = pass.plans
        /\ pass'.kind = pass.kind /\ pass'.at = "read" /\ pass'.permit = pass.permit
        /\ pass'.todo = todo
    <3> HIDE DEF todo
    <3> QED
      BY <1>3, <1>5, <2>1 DEF PassType
  <2>3. PassTyped' /\ PassShape' /\ UNCHANGED <<Step, Plan, Steps>> /\ pass.kind # "idle"
    BY <1>1, <1>3, <2>1, <2>2, FillingShape
  <2>4. PrepareSound'
    BY <1>1 DEF PrepareSound
  <2>5. CommitSound'
    BY <1>1, <1>3, <2>1, <2>2, <2>3 DEF CommitSound
  <2> QED
    BY <1>1, <1>6, <2>1, <2>2, <2>3, <2>4, <2>5, MovesOn
<1> QED
  BY <1>2, <1>4, <1>6

\* A control that holds something else when it is read is a fault.
LEMMA ReadControlKeeps ==
  ASSUME FormsInv, NEW k \in FieldKeys, ReadControl(k)
  PROVE  FormsInv'
<1> DEFINE faults == IF page[k] = Plan.entries[k] THEN {} ELSE {"value"}
           next == [Entered(k) EXCEPT !.faults = @ \cup faults]
<1>1. /\ portal.adapter = "greenhouse" /\ pass.at = "read" /\ k \in pass.todo
      /\ UNCHANGED <<portal, form, approved, revoked, packet, page>> /\ Advances(next)
  BY DEF ReadControl
<1>2. /\ PassShape /\ PassTyped /\ CommitSound /\ pass \in PassType
      /\ page \in [FieldKeys -> Shows] /\ blocked \in {0, 1}
  BY DEF FormsInv, PassTyped
<1>3. pass' = next /\ UNCHANGED <<blocked, prepared, wire, outcome>>
  BY <1>1 DEF Advances
<1>4. /\ pass' \in PassType /\ pass'.snaps = pass.snaps /\ pass'.plans = pass.plans
      /\ pass'.kind = pass.kind /\ pass'.at = "read" /\ pass'.permit = pass.permit
      /\ pass'.todo = pass.todo \ {k} /\ pass'.late = pass.late
  <2>1. faults \in SUBSET {"upload", "value", "changed"}
    OBVIOUS
  <2> HIDE DEF faults
  <2> QED
    BY <1>1, <1>3, <2>1, EnteredTyped
<1>5. pass'.faults = pass.faults \cup faults
  BY <1>2, <1>3 DEF Entered, PassType
<1>6. PassTyped' /\ PassShape' /\ UNCHANGED <<Step, Plan, Steps>> /\ pass.kind # "idle"
  <2>1. pass'.todo \subseteq DOMAIN Plan.entries
    BY <1>1, <1>2, <1>4 DEF PassShape
  <2> QED
    BY <1>1, <1>2, <1>3, <1>4, <2>1, FillingShape
<1>7. PrepareSound'
  BY <1>1 DEF PrepareSound
<1>8. CommitSound'
  <2> SUFFICES ASSUME pass.kind = "commit" PROVE CommitSound'
    BY <1>4 DEF CommitSound
  <2>1. ASSUME NEW j \in DOMAIN Plan.entries \ (pass'.todo \cup pass.late)
        PROVE  page[j] = Plan.entries[j] \/ pass'.faults # {}
    <3>1. CASE j = k
      BY <1>5, <3>1
    <3>2. CASE j # k
      BY <1>1, <1>2, <1>4, <1>5, <2>1, <3>2 DEF CommitSound
    <3> QED
      BY <3>1, <3>2
  <2> QED
    BY <1>1, <1>2, <1>3, <1>4, <1>6, <2>1 DEF CommitSound
<1>9. next.kind = pass.kind
  BY <1>3, <1>4
<1> QED
  BY <1>1, <1>6, <1>7, <1>8, <1>9, MovesOn

\* All of them are read: a commit goes on only if none was at fault.
LEMMA FinishGreenhouseKeeps ==
  ASSUME FormsInv, FinishGreenhouse
  PROVE  FormsInv'
<1> DEFINE at == IF pass.kind = "prepare" THEN "done" ELSE "permit"
<1>1. /\ portal.adapter = "greenhouse" /\ pass.at = "read" /\ pass.todo = {}
      /\ UNCHANGED <<portal, form, approved, revoked, packet>>
  BY DEF FinishGreenhouse
<1>2. \/ Aborts
      \/ /\ Advances([pass EXCEPT !.at = at]) /\ page' = page
         /\ pass.kind = "prepare" \/ pass.faults = {}
  BY DEF FinishGreenhouse
<1>3. /\ PassShape /\ PassTyped /\ CommitSound /\ ReadySound /\ PortalTyped
      /\ pass.kind \in {"prepare", "commit"}
  BY <1>1 DEF FormsInv, PassShape, NoPass, PassTyped, PassType
<1>4. CASE Aborts
  BY <1>1, <1>3, <1>4, GivenUp
<1>6. at \in {"done", "permit"} /\ (at = "done" <=> pass.kind = "prepare")
  BY <1>3
<1> HIDE DEF at
<1>7. CASE /\ Advances([pass EXCEPT !.at = at]) /\ page' = page
           /\ pass.kind = "prepare" \/ pass.faults = {}
  <2>1. /\ pass' = [pass EXCEPT !.at = at]
        /\ UNCHANGED <<blocked, prepared, wire, outcome, page>>
    BY <1>7 DEF Advances
  <2>2. /\ pass' \in PassType /\ pass'.snaps = pass.snaps /\ pass'.plans = pass.plans
        /\ pass'.kind = pass.kind /\ pass'.at = at /\ pass'.permit = pass.permit
        /\ pass'.todo = pass.todo /\ pass'.late = pass.late
    BY <1>6, <2>1, MovedTyped
  <2>3. /\ Step = 1 /\ Steps = 1 /\ 1 \in DOMAIN pass.plans /\ Plan = pass.plans[1]
    BY <1>1, PlanAtHand
  <2>4. PassTyped' /\ PassShape' /\ UNCHANGED <<Step, Plan, Steps>> /\ pass.kind # "idle"
    BY <1>1, <1>3, <1>6, <2>1, <2>2, <2>3, FillingShape DEF PassTyped
  <2>5. PrepareSound'
    BY <1>1 DEF PrepareSound
  <2>6. CommitSound'
    <3> SUFFICES ASSUME pass.kind = "commit" PROVE CommitSound'
      BY <2>2 DEF CommitSound
    <3>1. /\ prepared.status = "ready"
          /\ \A i \in DOMAIN pass.plans : pass.plans[i].entries = prepared.plans[i].entries
      BY <1>3 DEF CommitSound
    <3>2. DOMAIN prepared.plans = 1 .. 1
      BY <1>3, <2>3, <3>1 DEF ReadySound, FormsInv, SentTyped
    <3>3. \A k \in DOMAIN Plan.entries : k \notin pass.late => page[k] = Plan.entries[k]
      BY <1>1, <1>3, <1>7 DEF CommitSound
    <3>4. AllEntered'
      BY <1>1, <2>1, <2>2, <2>3, <3>1, <3>2, <3>3 DEF AllEntered
    <3> QED
      BY <1>1, <1>6, <2>1, <2>2, <3>1, <3>4 DEF CommitSound
  <2> QED
    BY <1>1, <1>7, <2>1, <2>2, <2>4, <2>5, <2>6, MovesOn
<1> QED
  BY <1>2, <1>4, <1>7

\* A hosted form is read at the end of a dry run only: none is ever found ready.
LEMMA ReadHostedKeeps ==
  ASSUME FormsInv, ReadHosted
  PROVE  FormsInv'
<1>1. /\ portal.adapter = "hosted" /\ pass.at = "fill"
      /\ UNCHANGED <<portal, form, approved, revoked, packet>>
      /\ Aborts \/ (Advances([pass EXCEPT !.at = "done"]) /\ page' = page)
  BY DEF ReadHosted
<1>2. PassShape /\ PassTyped /\ CommitSound /\ ReadySound /\ pass.kind = "prepare"
  BY <1>1 DEF FormsInv, PassShape, NoPass, PassTyped, PassType, CommitSound, ReadySound
<1>3. CASE Aborts
  BY <1>1, <1>2, <1>3, GivenUp
<1>4. CASE Advances([pass EXCEPT !.at = "done"]) /\ page' = page
  <2>1. /\ pass' = [pass EXCEPT !.at = "done"]
        /\ UNCHANGED <<blocked, prepared, wire, outcome, page>>
    BY <1>4 DEF Advances
  <2>2. /\ pass' \in PassType /\ pass'.snaps = pass.snaps /\ pass'.plans = pass.plans
        /\ pass'.kind = pass.kind /\ pass'.at = "done" /\ pass'.permit = pass.permit
        /\ pass'.todo = pass.todo
    BY <2>1, MovedTyped
  <2>3. PassTyped' /\ PassShape'
    BY <1>1, <1>2, <2>1, <2>2, FillingShape DEF PassTyped
  <2>4. PrepareSound' /\ CommitSound'
    BY <1>1, <1>2, <2>2 DEF PrepareSound, CommitSound
  <2> QED
    BY <1>1, <1>2, <1>4, <2>1, <2>2, <2>3, <2>4, MovesOn
<1> QED
  BY <1>1, <1>3, <1>4

Status == CASE portal.adapter = "mock" -> MockStatus
            [] portal.adapter = "greenhouse" -> GreenhouseStatus
            [] portal.adapter = "hosted" -> HostedStatus
            [] portal.adapter = "recruitee" -> RecruiteeStatus

LEMMA StatusMeans ==
  ASSUME portal.adapter \in {"mock", "greenhouse", "hosted", "recruitee"}
  PROVE  /\ Status \in {"none", "challenge", "upload_failed", "needs_input", "unsupported",
                        "ready"}
         /\ Status = "ready" =>
              /\ portal.adapter # "hosted"
              /\ portal.adapter = "mock" =>
                   ~Blocked("challenge") /\ ~Unresolved /\ pass.faults = {}
<1>1. CASE portal.adapter = "mock"
  BY <1>1 DEF Status, MockStatus
<1>2. CASE portal.adapter = "greenhouse"
  BY <1>2 DEF Status, GreenhouseStatus
<1>3. CASE portal.adapter = "hosted"
  BY <1>3 DEF Status, HostedStatus
<1>4. CASE portal.adapter = "recruitee"
  BY <1>4 DEF Status, RecruiteeStatus
<1> QED
  BY <1>1, <1>2, <1>3, <1>4

LEMMA ReportKeeps ==
  ASSUME FormsInv, Report
  PROVE  FormsInv'
<1>1. /\ pass.kind = "prepare" /\ pass.at = "done" /\ pass' = NoPass
      /\ prepared' = [status |-> Status, snaps |-> pass.snaps, plans |-> pass.plans]
      /\ UNCHANGED <<portal, form, approved, revoked, packet, page, blocked, wire, outcome>>
  BY DEF Report, Status
<1>2. /\ PortalTyped /\ PassTyped /\ SentTyped /\ PassShape /\ PrepareSound /\ WireSound
      /\ portal.adapter \in {"mock", "greenhouse", "hosted", "recruitee"}
  BY FormTyped DEF FormsInv
<1>3. /\ pass.snaps \in Seq(SnapType) /\ pass.plans \in Seq(PlanType)
  BY <1>2 DEF PassTyped, PassType
<1>4. /\ PassShape' /\ PrepareSound' /\ CommitSound' /\ PassTyped' /\ PortalTyped'
  BY <1>1, <1>2, IdleSound DEF PassTyped, PortalTyped
<1>5. SentTyped'
  BY <1>1, <1>2, <1>3, StatusMeans DEF SentTyped
<1>6. wire = << >> /\ outcome \in {"none", "aborted"}
  BY <1>1, <1>2 DEF WireSound
<1>7. WireSound' /\ SentIsPrepared' /\ OutcomeIsTrue'
  BY <1>1, <1>6 DEF WireSound, NoPass, SentIsPrepared, OutcomeIsTrue
<1>8. ReadySound'
  <2> SUFFICES ASSUME Status = "ready" PROVE ReadySound'
    BY <1>1 DEF ReadySound
  <2>1. /\ portal.adapter # "hosted"
        /\ portal.adapter = "mock" =>
                   ~Blocked("challenge") /\ ~Unresolved /\ pass.faults = {}
    BY <1>2, StatusMeans
  <2>2. /\ Step \in {1, 2} /\ DOMAIN pass.plans = 1 .. Step /\ Steps \in {1, 2}
        /\ Step <= Steps /\ (Steps = 2 <=> portal.adapter = "mock")
        /\ Len(pass.plans) = Step /\ Len(pass.snaps) = Step
    BY <1>1, <1>2, PlanAtHand DEF PassShape, Step
  <2>3. portal.adapter = "mock" => Step = 2 /\ ~LosesName(pass.plans)
    BY <1>1, <1>2, <2>1 DEF PrepareSound
  <2>4. Step = Steps
    BY <2>2, <2>3
  <2>5. portal.adapter = "mock" => \A i \in 1 .. 2 : pass.plans[i].unresolved = {}
    BY <2>1, <2>2, <2>3 DEF Unresolved
  <2>6. portal.adapter = "mock" =>
          \A i \in 1 .. 2 : pass.plans[i].entries = Planned(pass.snaps[i], Values).entries
    BY <1>1, <1>2, <2>2, <2>3, <2>5 DEF PrepareSound
  <2>7. Fixture("implicit-submit") =>
          \A i \in 1 .. 2 : "country" \notin DOMAIN pass.plans[i].entries
    BY <1>1, <1>2, <2>1, <2>2, <2>3 DEF PrepareSound, Fixture
  <2>8. /\ Steps' = Steps /\ Values' = Values /\ \A f : Fixture(f)' = Fixture(f)
        /\ \A p : LosesName(p)' = LosesName(p)
        /\ prepared'.snaps = pass.snaps /\ prepared'.plans = pass.plans
    BY <1>1 DEF Steps, Values, Fixture, LosesName
  <2>9. LosesName(prepared.plans)' = LosesName(pass.plans)
    BY <1>1, <2>8 DEF LosesName
  <2> QED
    BY <1>1, <2>1, <2>2, <2>3, <2>4, <2>6, <2>7, <2>8, <2>9 DEF ReadySound
<1> QED
  BY <1>4, <1>5, <1>7, <1>8 DEF FormsInv

LEMMA ImplicitSubmitKeeps ==
  ASSUME FormsInv, ImplicitSubmit
  PROVE  FormsInv'
<1>1. /\ Fixture("implicit-submit") /\ pass.at = "fill" /\ "country" \in pass.todo
      /\ pass' = NoPass
      /\ UNCHANGED <<portal, form, approved, revoked, packet, page, prepared>>
  BY DEF ImplicitSubmit, Fixture
<1>2. /\ PortalTyped /\ PassTyped /\ SentTyped /\ PassShape /\ WireSound /\ CommitSound
      /\ ReadySound
  BY DEF FormsInv
<1>3. pass.kind = "prepare"
  <2>1. pass.kind \in {"prepare", "commit"}
    BY <1>1, <1>2 DEF PassTyped, PassType, PassShape, NoPass
  <2>2. ASSUME pass.kind = "commit" PROVE FALSE
    <3>1. "country" \in DOMAIN Plan.entries
      BY <1>1, <1>2 DEF PassShape
    <3>2. Step \in 1 .. 2 /\ Plan.entries = prepared.plans[Step].entries
      BY <1>1, <1>2, <2>2, PlanAtHand DEF CommitSound
    <3>3. prepared.status = "ready"
      BY <1>2, <2>2 DEF CommitSound
    <3> QED
      BY <1>1, <1>2, <3>1, <3>2, <3>3 DEF ReadySound
  <2> QED
    BY <2>1, <2>2
<1>4. blocked' = 1 /\ UNCHANGED <<wire, outcome>>
  BY <1>3 DEF ImplicitSubmit
<1>5. /\ PassShape' /\ PrepareSound' /\ CommitSound' /\ PassTyped' /\ PortalTyped'
      /\ SentTyped' /\ ReadySound'
  BY <1>1, <1>2, <1>4, IdleSound, ReadyStands DEF PassTyped, PortalTyped, SentTyped
<1>6. wire = << >> /\ outcome \in {"none", "aborted"}
  BY <1>1, <1>2, <1>3 DEF WireSound
<1>7. WireSound' /\ SentIsPrepared' /\ OutcomeIsTrue'
  BY <1>1, <1>4, <1>6 DEF WireSound, NoPass, SentIsPrepared, OutcomeIsTrue
<1> QED
  BY <1>5, <1>7 DEF FormsInv

LEMMA InspectToCommitKeeps ==
  ASSUME FormsInv, InspectToCommit
  PROVE  FormsInv'
<1> DEFINE snap == Snapshot(Step + 1)
           plan == PlanToCommit(snap)
           at == IF portal.adapter = "recruitee" THEN "permit" ELSE "fill"
           next == InspectedAgain(snap, plan, at)
<1>1. /\ pass.kind = "commit" /\ pass.at = "open" /\ pass \in PassType
      /\ UNCHANGED <<portal, form, approved, revoked, packet>>
  BY DEF InspectToCommit, FormsInv, PassTyped
<1>2. \/ Aborts
      \/ /\ Advances([pass EXCEPT !.snaps = Append(@, snap), !.plans = Append(@, plan),
                                  !.at = at, !.todo = DOMAIN plan.entries])
         /\ page' = page /\ SameForm(snap)
  BY DEF InspectToCommit
<1>3. snap \in SnapType
  BY SnapshotTyped DEF FormsInv
<1> HIDE DEF snap
<1>4. /\ PassShape /\ CommitSound /\ ReadySound /\ PortalTyped /\ prepared.status = "ready"
      /\ prepared.plans \in Seq(PlanType) /\ prepared.snaps \in Seq(SnapType)
  BY <1>1 DEF FormsInv, CommitSound, SentTyped
<1>5. /\ Step \in {0, 1} /\ Steps \in {1, 2} /\ Step < Steps
      /\ (portal.adapter = "mock" <=> Steps = 2)
  <2>1. Steps \in {1, 2} /\ (portal.adapter = "mock" <=> Steps = 2)
    BY <1>4, FormTyped
  <2>2. Step < Steps
    BY <1>1, <1>4 DEF PassShape
  <2>3. Step \in Nat
    BY <1>1 DEF PassType, Step
  <2> QED
    BY <2>1, <2>2, <2>3
<1>6. /\ DOMAIN prepared.plans = 1 .. Steps /\ Step + 1 \in 1 .. Steps
      /\ \A i \in 1 .. Steps : prepared.plans[i] \in PlanType
  BY <1>4, <1>5 DEF ReadySound
<1>7. plan \in PlanType
  <2>1. PlanFields(snap) \in PlanType
    BY <1>3, <1>4, PlanTyped
  <2>2. 1 \in 1 .. Steps /\ prepared.plans[1] \in PlanType
    BY <1>5, <1>6
  <2> QED
    BY <2>1, <2>2 DEF PlanToCommit
<1>8. SameForm(snap) => plan.entries = prepared.plans[Step + 1].entries
  <2>1. CASE portal.adapter = "mock"
    <3> SUFFICES ASSUME SameForm(snap) PROVE plan.entries = prepared.plans[Step + 1].entries
      OBVIOUS
    <3>1. snap.fields = prepared.snaps[Step + 1].fields
      BY DEF SameForm, Fingerprint
    <3>2. plan = Planned(snap, Values)
      BY <1>3, <1>4, <2>1, PlanTyped DEF PlanToCommit
    <3>3. Planned(snap, Values) = Planned(prepared.snaps[Step + 1], Values)
      BY <3>1, SamePlan
    <3>4. prepared.plans[Step + 1].entries = Planned(prepared.snaps[Step + 1], Values).entries
      BY <1>4, <1>5, <2>1 DEF ReadySound
    <3> QED
      BY ONLY <3>2, <3>3, <3>4
  <2>2. CASE portal.adapter # "mock"
    BY <1>5, <2>2 DEF PlanToCommit
  <2> QED
    BY <2>1, <2>2
<1> HIDE DEF plan
<1>9. [pass EXCEPT !.snaps = Append(@, snap), !.plans = Append(@, plan), !.at = at,
                   !.todo = DOMAIN plan.entries] = next
  BY DEF InspectedAgain
<1>10. CASE Aborts
  BY <1>1, <1>10, GivenUp
<1>11. CASE Advances(next) /\ page' = page /\ SameForm(snap)
  <2>1. /\ pass' = next /\ UNCHANGED <<blocked, prepared, wire, outcome, page>>
    BY <1>11 DEF Advances
  <2>2. /\ at \in {"fill", "permit"} /\ (at = "permit" <=> portal.adapter = "recruitee")
    OBVIOUS
  <2> HIDE DEF at
  <2>3. /\ PassTyped' /\ PassShape'
        /\ Step' = Step + 1 /\ Step \in {0, 1} /\ (Step = 1 => portal.adapter = "mock")
        /\ pass'.snaps[Step'] = snap /\ pass'.plans[Step'] = plan
        /\ DOMAIN pass.plans = 1 .. Step /\ DOMAIN pass'.plans = 1 .. Step'
        /\ \A i \in 1 .. Step : /\ pass'.snaps[i] = pass.snaps[i]
                                /\ pass'.plans[i] = pass.plans[i]
        /\ pass'.kind = pass.kind /\ pass'.at = at /\ pass'.todo = DOMAIN plan.entries
    <3>1. /\ at \in {"fill", "done", "permit"} /\ TRUE \in BOOLEAN /\ pass.kind # "idle"
          /\ (at = "done" => pass.kind = "prepare")
          /\ (at = "permit" => pass.kind = "commit" /\ Steps = 1)
          /\ pass' \in {Inspected(snap, plan, at, TRUE), InspectedAgain(snap, plan, at)}
      BY <1>1, <1>5, <2>1, <2>2
    <3> QED
      BY <1>1, <1>3, <1>7, <2>1, <3>1, InspectedShape
  <2>4. PrepareSound'
    BY <1>1, <2>3 DEF PrepareSound
  <2>5. plan.entries = prepared.plans[Step + 1].entries
    BY <1>8, <1>11
  <2>6. \A i \in DOMAIN pass'.plans : pass'.plans[i].entries = prepared.plans[i].entries
    BY <1>1, <1>4, <2>3, <2>5 DEF CommitSound
  <2>7. ASSUME portal.adapter = "mock", NEW i \in 1 .. Step, NEW k \in DOMAIN pass.plans[i].entries
        PROVE  \/ page[k] = pass.plans[i].entries[k]
               \/ /\ Fixture("resume-overwrite") /\ k = "name" /\ i = 1
                  /\ "name" \in DOMAIN plan.entries
    <3>1. \/ page[k] = pass.plans[i].entries[k]
          \/ Fixture("resume-overwrite") /\ k = "name" /\ i = 1
      BY <1>1, <1>4, <2>3, <2>7 DEF CommitSound
    <3>2. i = 1 /\ Step = 1 /\ ~LosesName(prepared.plans)
      BY <1>4, <2>3, <2>7 DEF ReadySound
    <3>3. pass.plans[i].entries = prepared.plans[i].entries
      BY <1>1, <1>4, <2>3, <2>7 DEF CommitSound
    <3> QED
      BY <2>5, <2>7, <3>1, <3>2, <3>3 DEF LosesName
  <2>8. portal.adapter = "mock" =>
          \A i \in DOMAIN pass'.plans : \A k \in DOMAIN pass'.plans[i].entries :
            \/ page'[k] = pass'.plans[i].entries[k]
            \/ i = Step' /\ pass'.at = "fill" /\ k \in pass'.todo
            \/ /\ Fixture("resume-overwrite")' /\ k = "name" /\ i = 1
               /\ Step' = 1 \/ (pass'.at = "fill" /\ "name" \in pass'.todo)
    <3> SUFFICES ASSUME portal.adapter = "mock", NEW i \in DOMAIN pass'.plans,
                        NEW k \in DOMAIN pass'.plans[i].entries
                 PROVE  \/ page'[k] = pass'.plans[i].entries[k]
                        \/ i = Step' /\ pass'.at = "fill" /\ k \in pass'.todo
                        \/ /\ Fixture("resume-overwrite")' /\ k = "name" /\ i = 1
                           /\ pass'.at = "fill" /\ "name" \in pass'.todo
      OBVIOUS
    <3>1. i \in 1 .. Step \/ i = Step'
      BY <2>3
    <3>2. pass'.at = "fill" /\ Fixture("resume-overwrite")' = Fixture("resume-overwrite")
      BY <1>1, <2>2, <2>3 DEF Fixture
    <3>3. CASE i = Step'
      BY <2>3, <3>2, <3>3
    <3>4. CASE i \in 1 .. Step
      <4>1. pass'.plans[i] = pass.plans[i] /\ k \in DOMAIN pass.plans[i].entries
        BY <2>3, <3>4
      <4> QED
        BY <2>1, <2>3, <2>7, <3>2, <3>4, <4>1
    <3> QED
      BY <3>1, <3>3, <3>4
  <2>9. at = "permit" => AllEntered'
    <3> SUFFICES ASSUME portal.adapter = "recruitee" PROVE AllEntered'
      BY <2>2
    <3>1. Step = 0 /\ DOMAIN prepared.plans = 1 .. 1 /\ Plan' = plan
      BY <1>5, <1>6, <2>3 DEF Plan
    <3> QED
      BY <1>1, <2>1, <2>5, <3>1 DEF AllEntered
  <2>10. CommitSound'
    BY <1>1, <1>4, <2>1, <2>2, <2>3, <2>6, <2>8, <2>9 DEF CommitSound
  <2> QED
    BY <1>1, <1>11, <2>1, <2>3, <2>4, <2>10, MovesOn
<1> QED
  BY <1>2, <1>9, <1>10, <1>11

LEMMA Permitted ==
  ASSUME FormsInv, pass' = [pass EXCEPT !.at = "click", !.permit = <<approved>>]
  PROVE  /\ pass' \in PassType /\ pass'.snaps = pass.snaps /\ pass'.plans = pass.plans
         /\ pass'.kind = pass.kind /\ pass'.at = "click" /\ pass'.permit = <<approved>>
         /\ pass'.todo = pass.todo /\ pass'.late = pass.late
<1>1. <<approved>> \in Seq(Answers)
  BY DEF FormsInv, PortalTyped
<1> DEFINE permit == <<approved>>
<1> HIDE DEF permit
<1>2. permit \in Seq(Answers) /\ pass' = [pass EXCEPT !.at = "click", !.permit = permit]
  BY <1>1 DEF permit
<1>3. /\ pass' \in PassType /\ pass'.snaps = pass.snaps /\ pass'.plans = pass.plans
      /\ pass'.kind = pass.kind /\ pass'.at = "click" /\ pass'.permit = permit
      /\ pass'.todo = pass.todo /\ pass'.late = pass.late
  BY <1>2 DEF FormsInv, PassTyped, PassType
<1> QED
  BY <1>3 DEF permit

LEMMA AuthorizeKeeps ==
  ASSUME FormsInv, Authorize
  PROVE  FormsInv'
<1>1. /\ pass.kind = "commit" /\ pass.at = "permit"
      /\ UNCHANGED <<portal, form, approved, revoked, packet>>
  BY DEF Authorize
<1>2. \/ Aborts
      \/ /\ Advances([pass EXCEPT !.at = "click", !.permit = <<approved>>]) /\ page' = page
         /\ \A i \in DOMAIN prepared.plans : Supported(prepared.snaps[i], prepared.plans[i])
  BY DEF Authorize
<1>3. /\ PassShape /\ PassTyped /\ CommitSound /\ SentTyped
      /\ prepared.plans \in Seq(PlanType)
  BY DEF FormsInv, SentTyped
<1>4. CASE Aborts
  BY <1>1, <1>4, GivenUp
<1>5. CASE /\ Advances([pass EXCEPT !.at = "click", !.permit = <<approved>>]) /\ page' = page
           /\ \A i \in DOMAIN prepared.plans :
                Supported(prepared.snaps[i], prepared.plans[i])
  <2>1. /\ pass' = [pass EXCEPT !.at = "click", !.permit = <<approved>>]
        /\ UNCHANGED <<blocked, prepared, wire, outcome, page>>
    BY <1>5 DEF Advances
  <2>2. /\ pass' \in PassType /\ pass'.snaps = pass.snaps /\ pass'.plans = pass.plans
        /\ pass'.kind = pass.kind /\ pass'.at = "click" /\ pass'.permit = <<approved>>
        /\ pass'.todo = pass.todo /\ pass'.late = pass.late
    BY <2>1, Permitted
  <2>3. Step' = Step /\ Steps' = Steps /\ Plan' = Plan /\ \A f : Fixture(f)' = Fixture(f)
    BY <1>1, <2>2 DEF Step, Steps, Plan, Fixture
  <2>4. PassTyped' /\ PassShape' /\ PrepareSound'
    BY <1>1, <1>3, <2>1, <2>2, <2>3 DEF PassTyped, PassShape, PrepareSound
  <2>5. AllApproved(approved)
    <3> SUFFICES ASSUME NEW j \in DOMAIN prepared.plans,
                        NEW k \in DOMAIN prepared.plans[j].entries, k \in Questions
                 PROVE  approved[k] = prepared.plans[j].entries[k]
      BY DEF AllApproved
    <3>1. prepared.plans[j] \in PlanType
      BY <1>3
    <3> QED
      BY <1>5, <3>1, SupportedIsApproved
  <2>6. /\ AllEntered' /\ Len(pass'.permit) = 1 /\ pass'.permit[1] = approved
        /\ AllApproved(approved)' = AllApproved(approved)
    BY <1>1, <1>3, <2>1, <2>2, <2>3 DEF AllEntered, AllApproved, CommitSound
  <2>7. CommitSound'
    BY <1>1, <1>3, <2>1, <2>2, <2>3, <2>5, <2>6 DEF CommitSound, AllApproved
  <2> QED
    BY <1>1, <1>5, <2>1, <2>2, <2>4, <2>7, MovesOn
<1> QED
  BY <1>2, <1>4, <1>5

\* What leaves under a permit is what was prepared, and was approved when it was given.
Sound(post) ==
  /\ post.permit # << >>
  /\ \A j \in DOMAIN post.plans : \A k \in DOMAIN post.plans[j].entries :
       /\ k \notin post.late => post.values[k] = post.plans[j].entries[k]
       /\ k \in Questions => post.permit[1][k] = post.plans[j].entries[k]

LEMMA PostedSound ==
  ASSUME FormsInv, pass.at = "click", NEW kept \in BOOLEAN
  PROVE  Posted(kept) \in PostType /\ Posted(kept).kept = kept /\ Sound(Posted(kept))
<1>1. /\ pass \in PassType /\ page \in [FieldKeys -> Shows] /\ prepared.plans \in Seq(PlanType)
      /\ pass.kind = "commit" /\ CommitSound
  BY DEF FormsInv, PassTyped, SentTyped, PassShape
<1>2. /\ pass.permit \in Seq(Answers) /\ Len(pass.permit) = 1 /\ AllEntered
      /\ AllApproved(pass.permit[1])
  BY <1>1 DEF CommitSound, PassType
<1> DEFINE values == IF portal.adapter = "recruitee" THEN Plan.entries ELSE page
<1>3. values \in Entries
  <2>1. Plan.entries \in Entries
    BY PlanAtHand DEF PlanType
  <2>2. page \in Entries
    BY <1>1 DEF Entries
  <2> QED
    BY <2>1, <2>2
<1>4. \A j \in DOMAIN prepared.plans : \A k \in DOMAIN prepared.plans[j].entries :
        k \notin pass.late => values[k] = prepared.plans[j].entries[k]
  BY <1>2 DEF AllEntered
<1>5. Posted(kept) = [values |-> values, plans |-> prepared.plans, permit |-> pass.permit,
                      kept |-> kept, late |-> pass.late]
  BY DEF Posted
<1> HIDE DEF values
<1>6. pass.permit # << >> /\ pass.late \in SUBSET FieldKeys
  BY <1>1, <1>2 DEF PassType
<1> QED
  BY <1>1, <1>2, <1>3, <1>4, <1>5, <1>6 DEF PostType, Sound, AllApproved

\* The first application that is posted.
LEMMA PostedFirst ==
  ASSUME FormsInv, pass.at = "click", wire = << >>, NEW kept \in BOOLEAN,
         wire' = Append(wire, Posted(kept))
  PROVE  /\ wire' \in Seq(PostType) /\ SentIsPrepared'
         /\ Len(wire') = 1 /\ DOMAIN wire' = {1} /\ wire'[1].kept = kept
<1> DEFINE post == Posted(kept)
<1>1. post \in PostType /\ post.kept = kept /\ Sound(post)
  BY PostedSound
<1> HIDE DEF post
<1>2. wire' = <<post>>
  BY DEF post
<1>3. wire' \in Seq(PostType) /\ Len(wire') = 1 /\ DOMAIN wire' = {1} /\ wire'[1] = post
  BY <1>1, <1>2
<1>4. SentIsPrepared'
  BY <1>1, <1>3 DEF SentIsPrepared, Sound
<1> QED
  BY <1>1, <1>3, <1>4

\* A script of the page posts, in a commit that holds its permit or in vain.
LEMMA PageWritesKeeps ==
  ASSUME FormsInv, NEW own \in BOOLEAN, PageWrites(own)
  PROVE  FormsInv'
<1>1. /\ pass.kind # "idle" /\ blocked = 0 /\ blocked' = 1
      /\ UNCHANGED <<portal, form, approved, revoked, packet, pass, page, prepared, outcome>>
  BY DEF PageWrites
<1>2. \/ wire' = wire
      \/ pass.permit # << >> /\ \E kept \in BOOLEAN : wire' = Append(wire, Posted(kept))
  BY DEF PageWrites, Passes
<1>3. /\ PassShape /\ PassTyped /\ SentTyped /\ WireSound /\ PrepareSound /\ CommitSound
      /\ ReadySound /\ PortalTyped /\ SentIsPrepared /\ OutcomeIsTrue
      /\ wire = << >>
  BY <1>1 DEF FormsInv, WireSound
<1>4. PassTyped' /\ PortalTyped' /\ ReadySound'
  BY <1>1, <1>3, ReadyStands DEF PassTyped, PortalTyped
<1>5. PassShape' /\ PrepareSound' /\ CommitSound'
  BY <1>1, <1>3, PassStands
<1>6. CASE wire' = wire
  <2>1. SentTyped' /\ WireSound' /\ SentIsPrepared' /\ OutcomeIsTrue'
    BY <1>1, <1>3, <1>6 DEF SentTyped, WireSound, SentIsPrepared, OutcomeIsTrue
  <2> QED
    BY <1>4, <1>5, <2>1 DEF FormsInv
<1>7. CASE pass.permit # << >> /\ \E kept \in BOOLEAN : wire' = Append(wire, Posted(kept))
  <2>1. pass.at = "click" /\ pass.kind = "commit" /\ outcome = "none"
    BY <1>3, <1>7 DEF PassShape, WireSound
  <2>2. wire' \in Seq(PostType) /\ SentIsPrepared'
    BY <1>3, <1>7, <2>1, PostedFirst
  <2>3. SentTyped' /\ WireSound' /\ OutcomeIsTrue'
    BY <1>1, <1>3, <2>1, <2>2 DEF SentTyped, WireSound, OutcomeIsTrue
  <2> QED
    BY <1>4, <1>5, <2>2, <2>3 DEF FormsInv
<1> QED
  BY <1>2, <1>6, <1>7

\* An answer says that the application was kept, or that it was not, when it says anything.
LEMMA AnswersMean ==
  ASSUME NEW kept \in BOOLEAN, NEW answer \in AnswersTo(kept)
  PROVE  /\ Concluded(answer) \in {"confirmed", "rejected", "unknown"}
         /\ Concluded(answer) = "confirmed" => kept
         /\ Concluded(answer) = "rejected" => ~kept
<1>1. answer \in {"receipt", "refused", "other"} /\ (answer = "receipt" => kept)
      /\ (answer = "refused" => ~kept)
  BY DEF AnswersTo
<1> QED
  BY <1>1 DEF Concluded

LEMMA ClickKeeps ==
  ASSUME FormsInv, Click
  PROVE  FormsInv'
<1>1. /\ pass.at = "click" /\ blocked = 0 /\ pass' = NoPass
      /\ UNCHANGED <<portal, form, approved, revoked, packet, page, blocked, prepared>>
  BY DEF Click
<1>2. PICK kept \in BOOLEAN :
        /\ wire' = Append(wire, Posted(kept))
        /\ \E answer \in AnswersTo(kept) : outcome' = Concluded(answer)
  BY DEF Click, Keeps
<1>3. /\ PassTyped /\ SentTyped /\ WireSound /\ ReadySound /\ PortalTyped
      /\ pass.kind = "commit" /\ wire = << >>
  BY <1>1 DEF FormsInv, WireSound, PassShape
<1>4. /\ outcome' \in {"confirmed", "rejected", "unknown"}
      /\ outcome' = "confirmed" => kept
      /\ outcome' = "rejected" => ~kept
  BY <1>2, AnswersMean
<1>5. /\ wire' \in Seq(PostType) /\ SentIsPrepared'
      /\ Len(wire') = 1 /\ DOMAIN wire' = {1} /\ wire'[1].kept = kept
  BY <1>1, <1>2, <1>3, PostedFirst
<1>6. PortalTyped' /\ ReadySound' /\ PassShape' /\ PrepareSound' /\ CommitSound' /\ PassTyped'
  BY <1>1, <1>3, ReadyStands, IdleSound DEF PortalTyped, PassTyped
<1>7. SentTyped'
  BY <1>1, <1>3, <1>4, <1>5 DEF SentTyped
<1>8. WireSound' /\ OutcomeIsTrue'
  BY <1>1, <1>4, <1>5 DEF WireSound, NoPass, OutcomeIsTrue
<1> QED
  BY <1>5, <1>6, <1>7, <1>8 DEF FormsInv

LEMMA SingleElement ==
  ASSUME NEW S, NEW seq \in Seq(S), seq # << >>, Len(seq) <= 1
  PROVE  Len(seq) = 1 /\ DOMAIN seq = {1} /\ seq[1] \in S
<1>1. Len(seq) \in Nat \ {0}
  BY EmptySeq
<1>2. Len(seq) = 1
  BY <1>1
<1>3. DOMAIN seq = 1 .. 1
  BY <1>2
<1> QED
  BY <1>2, <1>3

LEMMA ClickBlockedKeeps ==
  ASSUME FormsInv, ClickBlocked
  PROVE  FormsInv'
<1>1. /\ pass.at = "click" /\ pass' = NoPass
      /\ UNCHANGED <<portal, form, approved, revoked, packet, page, blocked, prepared, wire>>
      /\ \E answer \in IF wire = << >> THEN {"other"} ELSE AnswersTo(wire[Len(wire)].kept) :
           outcome' = Concluded(answer)
  BY DEF ClickBlocked
<1>2. /\ PassTyped /\ SentTyped /\ WireSound /\ ReadySound /\ PortalTyped /\ SentIsPrepared
      /\ wire \in Seq(PostType) /\ Len(wire) <= 1
  BY <1>1 DEF FormsInv, SentTyped, SentIsPrepared
<1>3. /\ outcome' \in {"confirmed", "rejected", "unknown"}
      /\ wire = << >> => outcome' = "unknown"
      /\ wire # << >> => /\ DOMAIN wire = {1}
                         /\ outcome' = "confirmed" => wire[1].kept
                         /\ outcome' = "rejected" => ~wire[1].kept
  <2>1. CASE wire = << >>
    BY <1>1, <2>1 DEF Concluded
  <2>2. CASE wire # << >>
    <3>1. Len(wire) = 1 /\ DOMAIN wire = {1} /\ wire[1] \in PostType
      BY <1>2, <2>2, SingleElement
    <3>2. wire[1].kept \in BOOLEAN
      BY <3>1 DEF PostType
    <3>3. \E answer \in AnswersTo(wire[1].kept) : outcome' = Concluded(answer)
      BY <1>1, <2>2, <3>1
    <3>4. /\ outcome' \in {"confirmed", "rejected", "unknown"}
          /\ outcome' = "confirmed" => wire[1].kept
          /\ outcome' = "rejected" => ~wire[1].kept
      BY ONLY <3>2, <3>3, AnswersMean
    <3> QED
      BY <2>2, <3>1, <3>4
  <2> QED
    BY <2>1, <2>2
<1>4. PortalTyped' /\ ReadySound' /\ PassShape' /\ PrepareSound' /\ CommitSound' /\ PassTyped'
  BY <1>1, <1>2, ReadyStands, IdleSound DEF PortalTyped, PassTyped
<1>5. SentTyped' /\ SentIsPrepared'
  BY <1>1, <1>2, <1>3 DEF SentTyped, SentIsPrepared
<1>6. WireSound'
  BY <1>1, <1>3 DEF WireSound, NoPass
<1>7. OutcomeIsTrue'
  <2>1. CASE wire = << >>
    BY <1>1, <1>3, <2>1 DEF OutcomeIsTrue
  <2>2. CASE wire # << >>
    BY <1>1, <1>3, <2>2 DEF OutcomeIsTrue
  <2> QED
    BY <2>1, <2>2
<1> QED
  BY <1>4, <1>5, <1>6, <1>7 DEF FormsInv

LEMMA FormsInitially ==
  ASSUME FormsInit
  PROVE  FormsInv
<1>1. /\ portal \in Portals /\ form = 1 /\ pass = NoPass /\ page = Empty /\ blocked = 0
      /\ approved = [q \in Questions |-> 0] /\ packet = approved
      /\ prepared = None /\ wire = << >> /\ outcome = "none"
  BY DEF FormsInit
<1>2. portal.forms \in Seq(FormType) /\ portal.forms # << >>
  BY <1>1, FormsAssumption
<1>3. PortalTyped
  BY <1>1, <1>2 DEF PortalTyped, Answers
<1>4. pass.kind = "idle" /\ pass.at = "open" /\ pass.plans = << >> /\ pass.snaps = << >>
      /\ pass.permit = << >>
  BY <1>1 DEF NoPass
<1>5. Step = 0 /\ Steps > 0 /\ Len(pass.plans) = 0
  BY <1>4 DEF Step, Steps
<1>6. PassTyped
  BY <1>1 DEF PassTyped, PassType, NoPass, Empty, Blank, Shows
<1>7. PassShape
  BY <1>1, <1>4, <1>5 DEF PassShape, Steps
<1>8. SentTyped /\ ReadySound
  BY <1>1 DEF SentTyped, None, ReadySound
<1>9. PrepareSound /\ CommitSound
  BY <1>4 DEF PrepareSound, CommitSound
<1>10. WireSound /\ SentIsPrepared /\ OutcomeIsTrue
  BY <1>1, <1>4 DEF WireSound, SentIsPrepared, OutcomeIsTrue
<1> QED
  BY <1>3, <1>6, <1>7, <1>8, <1>9, <1>10 DEF FormsInv

LEMMA FormsStands ==
  ASSUME FormsInv, UNCHANGED formVars
  PROVE  FormsInv'
<1>1. PortalTyped'
  BY DEF formVars, FormsInv, PortalTyped
<1> QED
  BY <1>1, OwnerKeeps DEF formVars

LEMMA FormsStep ==
  ASSUME FormsInv, FormsNext
  PROVE  FormsInv'
<1>1. ASSUME NEW q \in Asked, NEW answer \in 0 .. Limits[q], Approve(q, answer)
      PROVE  FormsInv'
  BY <1>1, ApproveKeeps DEF Asked
<1>2. CASE Revoke \/ Reform
  BY <1>2, RevokeOrReformKeeps
<1>3. CASE Draft
  BY <1>3, DraftKeeps
<1>4. ASSUME NEW k \in FieldKeys, Overwrite(k) \/ FillMock(k) \/ FillGreenhouse(k) \/ FillHosted(k)
      PROVE  FormsInv'
  BY <1>4, OverwriteKeeps, FillMockKeeps, FillGreenhouseKeeps, FillHostedKeeps
<1>5. CASE StartPrepare \/ StartCommit
  BY <1>5, StartKeeps
<1>6. CASE InspectToPrepare
  BY <1>6, InspectToPrepareKeeps
<1>7. CASE Report
  BY <1>7, ReportKeeps
<1>8. CASE ImplicitSubmit
  BY <1>8, ImplicitSubmitKeeps
<1>9. CASE ReadMock
  BY <1>9, ReadMockKeeps
<1>10. CASE ReinspectGreenhouse \/ FinishGreenhouse
  BY <1>10, ReinspectGreenhouseKeeps, FinishGreenhouseKeeps
<1>18. ASSUME NEW k \in FieldKeys, ReadControl(k)
       PROVE  FormsInv'
  BY <1>18, ReadControlKeeps
<1>11. CASE ReadHosted
  BY <1>11, ReadHostedKeeps
<1>12. CASE InspectToCommit
  BY <1>12, InspectToCommitKeeps
<1>13. CASE Authorize
  BY <1>13, AuthorizeKeeps
<1>14. ASSUME NEW own \in BOOLEAN, PageWrites(own)
       PROVE  FormsInv'
  BY <1>14, PageWritesKeeps
<1>15. CASE Click
  BY <1>15, ClickKeeps
<1>16. CASE ClickBlocked
  BY <1>16, ClickBlockedKeeps
<1>17. CASE Breaks
  BY <1>17, GivenUp DEF Breaks
<1> QED
  BY <1>1, <1>2, <1>3, <1>4, <1>5, <1>6, <1>7, <1>8, <1>9, <1>10, <1>11, <1>12, <1>13, <1>14,
     <1>15, <1>16, <1>17, <1>18 DEF FormsNext

\* Whatever the portal serves, however answers are replaced between any two steps and
\* pages overwrite what was entered, one application at most is posted, under a permit; it
\* holds what a dry run of the same form found ready, with answers approved when the permit
\* was given.  Only what the page overwrote after it was read back is not covered: that is
\* posted as the page left it.
THEOREM PreparedIsSent == FormsSpec => []SentIsPrepared
<1>1. FormsInit => FormsInv
  BY FormsInitially
<1>2. FormsInv /\ [FormsNext]_formVars => FormsInv'
  BY FormsStep, FormsStands
<1>3. FormsInv => SentIsPrepared
  BY DEF FormsInv
<1> QED
  BY <1>1, <1>2, <1>3, PTL DEF FormsSpec

\* A commit that was given up before dispatch, or that the portal refused, left no
\* application there, and one that is confirmed left one.
THEOREM OutcomesAreTrue == FormsSpec => []OutcomeIsTrue
<1>1. FormsInit => FormsInv
  BY FormsInitially
<1>2. FormsInv /\ [FormsNext]_formVars => FormsInv'
  BY FormsStep, FormsStands
<1>3. FormsInv => OutcomeIsTrue
  BY DEF FormsInv
<1> QED
  BY <1>1, <1>2, <1>3, PTL DEF FormsSpec

-----------------------------------------------------------------------------
(* Types                                                                    *)

Caps == [tokens : Nat, requests : {0, 1}]
NodeRows == [kind : Contents(Nodes), state : {"running", "completed"}, cap : Caps]
RunRows == [state : {"running", "completed", "failed"}, started : Nat, tokens : Nat,
            requests : Nat, nodes : Seq(NodeRows)]
Walks == [pc : {"next", "asking", "answered", "completed", "failing", "over"},
          cached : BOOLEAN, used : Nat]

GraphTypes ==
  /\ tick \in Nat
  /\ runs \in Seq(RunRows) /\ graph \in Seq(Walks) /\ spent \in Seq(Nat)
  /\ Len(graph) = Len(runs) /\ Len(spent) = Len(runs)

\* What is reserved for the node under way covers what it may still be charged:
\* a run has been charged no more than its own count says, and that count is
\* within the budget.
Covered(run, walk, charge) ==
  /\ charge <= run.tokens /\ run.tokens <= GraphTokens /\ run.requests <= GraphRequests
  /\ Len(run.nodes) <= Len(Nodes)
  /\ walk.pc \in {"asking", "answered", "completed"} => run.nodes # << >>
  /\ walk.pc = "asking" => walk.used = 0 /\ ~walk.cached
  /\ walk.pc \in {"asking", "answered"} =>
       LET cap == run.nodes[Len(run.nodes)].cap IN
       /\ walk.used <= cap.tokens
       /\ charge - walk.used + cap.tokens <= run.tokens
       /\ cap.requests = (IF walk.cached THEN 0 ELSE 1) /\ cap.requests <= run.requests

RunsCovered == \A r \in RunIds : Covered(runs[r], graph[r], spent[r])

GraphInv == GraphTypes /\ RunsCovered

-----------------------------------------------------------------------------
(* Runs                                                                     *)

\* The charge of a node before it is asked.
LEMMA ReserveRow ==
  ASSUME NEW run \in RunRows, NEW walk \in Walks, NEW charge \in Nat,
         Covered(run, walk, charge), Len(run.nodes) < Len(Nodes),
         NEW node \in NodeRows, NEW cached \in BOOLEAN,
         node.cap.requests = IF cached THEN 0 ELSE 1,
         run.tokens + node.cap.tokens <= GraphTokens,
         run.requests + node.cap.requests <= GraphRequests
  PROVE  LET new == [run EXCEPT !.tokens = @ + node.cap.tokens,
                                !.requests = @ + node.cap.requests,
                                !.nodes = Append(@, node)]
         IN  /\ new \in RunRows
             /\ Covered(new, [pc |-> IF cached THEN "answered" ELSE "asking",
                              cached |-> cached, used |-> 0], charge)
<1> DEFINE tokens == run.tokens + node.cap.tokens
           requests == run.requests + node.cap.requests
           nodes == Append(run.nodes, node)
           new == [run EXCEPT !.tokens = tokens, !.requests = requests, !.nodes = nodes]
<1>1. run.nodes \in Seq(NodeRows) /\ run.tokens \in Nat /\ run.requests \in Nat
  BY DEF RunRows
<1>2. node.cap.tokens \in Nat /\ node.cap.requests \in {0, 1}
  BY DEF NodeRows, Caps
<1>3. /\ nodes \in Seq(NodeRows) /\ Len(nodes) = Len(run.nodes) + 1
      /\ nodes[Len(nodes)] = node /\ nodes # << >>
  BY <1>1
<1>4. tokens \in Nat /\ requests \in Nat
  BY <1>1, <1>2
<1>5. Len(nodes) <= Len(Nodes)
  BY <1>1, <1>3, GraphAssumption
<1>6. charge <= tokens /\ charge - 0 + node.cap.tokens <= tokens /\ node.cap.requests <= requests
  BY <1>1, <1>2 DEF Covered
<1> HIDE DEF nodes, tokens, requests
<1>7. /\ new \in RunRows
      /\ new.tokens = tokens /\ new.requests = requests /\ new.nodes = nodes
  BY <1>3, <1>4 DEF RunRows
<1> DEFINE next == [pc |-> IF cached THEN "answered" ELSE "asking",
                    cached |-> cached, used |-> 0]
<1> HIDE DEF new
<1>8. tokens <= GraphTokens /\ requests <= GraphRequests
  BY DEF tokens, requests
<1>9. Covered(new, next, charge)
  BY <1>2, <1>3, <1>5, <1>6, <1>7, <1>8 DEF Covered
<1> QED
  BY <1>7, <1>9 DEF new, tokens, requests, nodes

\* The answer: what it used was reserved.
LEMMA AskRow ==
  ASSUME NEW run \in RunRows, NEW walk \in Walks, NEW charge \in Nat,
         Covered(run, walk, charge), walk.pc = "asking",
         NEW used \in 0 .. run.nodes[Len(run.nodes)].cap.tokens,
         NEW next \in Walks, next.pc \in {"failing", "answered"}, next.used = used,
         next.cached = walk.cached
  PROVE  charge + used \in Nat /\ Covered(run, next, charge + used)
<1> DEFINE cap == run.nodes[Len(run.nodes)].cap
<1>1. run.nodes \in Seq(NodeRows) /\ run.nodes # << >> /\ run.tokens \in Nat
  BY DEF RunRows, Covered
<1>2. cap \in Caps
  <2>1. run.nodes[Len(run.nodes)] \in NodeRows
    BY <1>1
  <2> QED
    BY <2>1 DEF NodeRows
<1>3. used \in Nat /\ used <= cap.tokens /\ cap.tokens \in Nat
  BY <1>2 DEF Caps
<1>4. charge + cap.tokens <= run.tokens /\ ~walk.cached
  BY <1>2, <1>3 DEF Covered
<1> HIDE DEF cap
<1>5. charge + used \in Nat /\ charge + used <= run.tokens
      /\ (charge + used) - used + cap.tokens <= run.tokens
  BY <1>1, <1>3, <1>4
<1> QED
  BY <1>1, <1>3, <1>4, <1>5 DEF Covered, cap

\* The node is completed, and what it did not use is given back.
LEMMA CompleteRow ==
  ASSUME NEW run \in RunRows, NEW walk \in Walks, NEW charge \in Nat,
         Covered(run, walk, charge), walk.pc = "answered"
  PROVE  LET n == Len(run.nodes)
             new == [run EXCEPT
                  !.nodes[n].state = "completed",
                  !.tokens = @ - run.nodes[n].cap.tokens + walk.used,
                  !.requests = @ - run.nodes[n].cap.requests + (IF walk.cached THEN 0 ELSE 1)]
         IN  /\ new \in RunRows
             /\ \A pc \in {"next", "completed"} : Covered(new, [walk EXCEPT !.pc = pc], charge)
<1> DEFINE n == Len(run.nodes)
           cap == run.nodes[n].cap
           nodes == [run.nodes EXCEPT ![n].state = "completed"]
           tokens == run.tokens - cap.tokens + walk.used
           requests == run.requests - cap.requests + (IF walk.cached THEN 0 ELSE 1)
           new == [run EXCEPT !.nodes = nodes, !.tokens = tokens, !.requests = requests]
<1>1. /\ run.nodes \in Seq(NodeRows) /\ n \in DOMAIN run.nodes /\ run.nodes[n] \in NodeRows
      /\ run.tokens \in Nat /\ run.requests \in Nat
  <2>1. run.nodes \in Seq(NodeRows) /\ run.nodes # << >>
    BY DEF RunRows, Covered
  <2> QED
    BY <2>1 DEF RunRows
<1>2. cap.tokens \in Nat /\ cap.requests \in {0, 1}
  BY <1>1 DEF NodeRows, Caps
<1>3. nodes \in Seq(NodeRows) /\ Len(nodes) = n /\ nodes # << >>
  <2>1. [run.nodes[n] EXCEPT !.state = "completed"] \in NodeRows
    BY <1>1 DEF NodeRows
  <2> QED
    BY <1>1, <2>1
<1>4. tokens \in Nat /\ charge <= tokens /\ tokens <= run.tokens
  BY <1>1, <1>2 DEF Covered, Walks
<1>5. requests = run.requests
  BY <1>1, <1>2 DEF Covered
<1> HIDE DEF nodes, tokens, requests
<1>6. new \in RunRows /\ new.nodes = nodes /\ new.tokens = tokens /\ new.requests = requests
  BY <1>1, <1>3, <1>4, <1>5 DEF RunRows
<1>7. Len(nodes) <= Len(Nodes)
  BY <1>3 DEF Covered
<1> HIDE DEF new
<1>8. tokens <= GraphTokens /\ requests <= GraphRequests
  <2>1. run.tokens <= GraphTokens /\ run.requests <= GraphRequests
    BY DEF Covered
  <2>2. GraphTokens \in Nat
    BY GraphAssumption
  <2> QED
    BY <1>1, <1>4, <1>5, <2>1, <2>2
<1>9. ASSUME NEW pc \in {"next", "completed"}
      PROVE  Covered(new, [walk EXCEPT !.pc = pc], charge)
  <2>1. [walk EXCEPT !.pc = pc].pc = pc
    BY DEF Walks
  <2> QED
    BY <2>1, <1>3, <1>4, <1>6, <1>7, <1>8 DEF Covered
<1> QED
  BY <1>6, <1>9 DEF new, nodes, tokens, requests

\* A step of one run leaves the others as they are.
LEMMA OneRun ==
  ASSUME GraphInv, tick' = tick, NEW r \in RunIds,
         NEW run \in RunRows, NEW walk \in Walks, NEW charge \in Nat,
         Covered(run, walk, charge),
         runs' = [runs EXCEPT ![r] = run],
         graph' = [graph EXCEPT ![r] = walk],
         spent' = [spent EXCEPT ![r] = charge]
  PROVE  GraphInv'
<1>1. r \in DOMAIN runs /\ r \in DOMAIN graph /\ r \in DOMAIN spent
  BY DEF GraphInv, GraphTypes, RunIds
<1>2. GraphTypes'
  BY <1>1 DEF GraphInv, GraphTypes
<1>3. ASSUME NEW i \in RunIds' PROVE Covered(runs'[i], graph'[i], spent'[i])
  <2>1. i \in RunIds /\ i \in DOMAIN graph /\ i \in DOMAIN spent
    BY DEF GraphInv, GraphTypes, RunIds
  <2>2. CASE i = r
    BY <1>1, <2>2
  <2>3. CASE i # r
    BY <2>1, <2>3 DEF GraphInv, RunsCovered
  <2> QED
    BY <2>2, <2>3
<1> QED
  BY <1>2, <1>3 DEF GraphInv, RunsCovered, Covered

\* What is known of one run.
LEMMA TheRun ==
  ASSUME GraphInv, NEW r \in RunIds
  PROVE  /\ runs[r] \in RunRows /\ graph[r] \in Walks /\ spent[r] \in Nat
         /\ Covered(runs[r], graph[r], spent[r])
         /\ runs = [runs EXCEPT ![r] = runs[r]] /\ spent = [spent EXCEPT ![r] = spent[r]]
         /\ graph = [graph EXCEPT ![r] = graph[r]]
BY DEF GraphInv, GraphTypes, RunsCovered, RunIds

LEMMA StartGraphKeeps == ASSUME GraphInv, StartGraph PROVE GraphInv'
<1> DEFINE next == Len(runs) + 1
           row == [state |-> "running", started |-> tick, tokens |-> 0,
                   requests |-> 0, nodes |-> << >>]
           walk == [pc |-> "next", cached |-> FALSE, used |-> 0]
<1>1. /\ runs \in Seq(RunRows) /\ graph \in Seq(Walks) /\ spent \in Seq(Nat) /\ tick \in Nat
      /\ Len(graph) = Len(runs) /\ Len(spent) = Len(runs)
  BY DEF GraphInv, GraphTypes
<1>2. row \in RunRows /\ walk \in Walks /\ row.nodes = << >> /\ row.tokens = 0
      /\ row.requests = 0 /\ walk.pc = "next"
  BY <1>1 DEF RunRows, Walks
<1>3. Covered(row, walk, 0)
  <2>1. Len(Nodes) \in Nat
    BY GraphAssumption
  <2> HIDE DEF row, walk
  <2> QED
    BY <1>2, <2>1, GraphAssumption DEF Covered
<1> HIDE DEF row, walk
<1>4. graph' = Append(graph, walk) /\ spent' = Append(spent, 0) /\ tick' = tick
  BY DEF StartGraph, walk
<1>5. /\ DOMAIN runs' = 1 .. next /\ runs'[next] = row
      /\ \A i \in 1 .. Len(runs) : \/ runs'[i] = runs[i]
                                   \/ runs'[i] = [runs[i] EXCEPT !.state = "failed"]
      /\ runs' = [i \in 1 .. next |-> runs'[i]]
  BY <1>1 DEF StartGraph, row
<1>6. ASSUME NEW i \in 1 .. Len(runs)
      PROVE  runs'[i] \in RunRows /\ Covered(runs'[i], graph[i], spent[i])
  <2>1. i \in RunIds
    BY <1>1 DEF RunIds
  <2>2. runs[i] \in RunRows /\ Covered(runs[i], graph[i], spent[i])
    BY <2>1, TheRun
  <2>3. LET new == [runs[i] EXCEPT !.state = "failed"]
        IN  new \in RunRows /\ Covered(new, graph[i], spent[i])
    BY <2>2 DEF RunRows, Covered
  <2> QED
    BY <1>5, <2>2, <2>3
<1>7. runs' \in Seq(RunRows) /\ Len(runs') = next
  <2>1. \A i \in 1 .. next : runs'[i] \in RunRows
    BY <1>1, <1>2, <1>5, <1>6
  <2> QED
    BY <1>1, <1>5, <2>1
<1>8. /\ graph' \in Seq(Walks) /\ spent' \in Seq(Nat) /\ Len(graph') = next /\ Len(spent') = next
      /\ graph'[next] = walk /\ spent'[next] = 0
      /\ \A i \in 1 .. Len(runs) : graph'[i] = graph[i] /\ spent'[i] = spent[i]
  BY <1>1, <1>2, <1>4
<1>9. ASSUME NEW i \in RunIds' PROVE Covered(runs'[i], graph'[i], spent'[i])
  <2>1. i \in 1 .. Len(runs) \/ i = next
    BY <1>1, <1>7 DEF RunIds
  <2> QED
    BY <1>3, <1>5, <1>6, <1>8, <2>1
<1> QED
  BY <1>1, <1>4, <1>7, <1>8, <1>9 DEF GraphInv, GraphTypes, RunsCovered, Covered

LEMMA GraphStepKeeps ==
  ASSUME GraphInv, NEW r \in RunIds, GraphStep(r)
  PROVE  GraphInv'
<1> DEFINE run == runs[r]
           walk == graph[r]
           charge == spent[r]
           n == Len(run.nodes)
<1>1. /\ run \in RunRows /\ walk \in Walks /\ charge \in Nat /\ Covered(run, walk, charge)
      /\ runs = [runs EXCEPT ![r] = run] /\ graph = [graph EXCEPT ![r] = walk]
      /\ spent = [spent EXCEPT ![r] = charge]
  BY TheRun
<1>2. tick' = tick
  BY DEF GraphStep, ReserveNode, AskNode, AskFails, CompleteNode, Checkpoint, FinishGraph,
         GraphStops
\* A run whose row and charge stay goes on where nothing is under way.
<1>3. ASSUME NEW pc \in {"next", "failing", "over"}, GoesOn(r, pc),
             UNCHANGED <<runs, spent>>
      PROVE  GraphInv'
  <2>1. [walk EXCEPT !.pc = pc] \in Walks /\ Covered(run, [walk EXCEPT !.pc = pc], charge)
    BY <1>1 DEF Walks, Covered
  <2>2. graph' = [graph EXCEPT ![r] = [walk EXCEPT !.pc = pc]]
    BY <1>3 DEF GoesOn
  <2> QED
    BY <1>1, <1>2, <1>3, <2>1, <2>2, OneRun
<1>4. CASE ReserveNode(r)
  <2>1. CASE GoesOn(r, "failing") /\ UNCHANGED runs
    BY <1>3, <1>4, <2>1 DEF ReserveNode
  <2>2. CASE ~(GoesOn(r, "failing") /\ UNCHANGED runs)
    <3>1. PICK cached \in BOOLEAN :
            LET cap == IF cached THEN [tokens |-> 0, requests |-> 0]
                                 ELSE [tokens |-> NodeTokens, requests |-> 1]
                node == [kind |-> Turn(r), state |-> "running", cap |-> cap]
            IN  /\ Fits(r, cap)
                /\ runs' = [runs EXCEPT
                     ![r].tokens = @ + cap.tokens, ![r].requests = @ + cap.requests,
                     ![r].nodes = Append(@, node)]
                /\ graph' = [graph EXCEPT ![r] =
                     [pc |-> IF cached THEN "answered" ELSE "asking",
                      cached |-> cached, used |-> 0]]
      BY <1>4, <2>2 DEF ReserveNode
    <3> DEFINE cap == IF cached THEN [tokens |-> 0, requests |-> 0]
                                ELSE [tokens |-> NodeTokens, requests |-> 1]
               node == [kind |-> Turn(r), state |-> "running", cap |-> cap]
               next == [pc |-> IF cached THEN "answered" ELSE "asking",
                        cached |-> cached, used |-> 0]
               new == [run EXCEPT !.tokens = @ + node.cap.tokens,
                                  !.requests = @ + node.cap.requests,
                                  !.nodes = Append(@, node)]
    <3>2. n < Len(Nodes)
      <4>1. n # Len(Nodes)
        BY <1>4 DEF ReserveNode, AllAsked, LastNode
      <4>2. run.nodes \in Seq(NodeRows) /\ n <= Len(Nodes)
        <5>1. run.nodes \in Seq(NodeRows)
          BY <1>1 DEF RunRows
        <5>2. Len(run.nodes) <= Len(Nodes)
          BY <1>1 DEF Covered
        <5> QED
          BY <5>1, <5>2
      <4>3. n \in Nat /\ Len(Nodes) \in Nat
        BY <4>2, GraphAssumption
      <4> QED
        BY <4>1, <4>2, <4>3
    <3>3. node \in NodeRows /\ node.cap = cap /\ cap.requests = IF cached THEN 0 ELSE 1
      <4>1. n + 1 \in DOMAIN Nodes
        <5>1. n \in Nat
          <6>1. run.nodes \in Seq(NodeRows)
            BY <1>1 DEF RunRows
          <6> QED
            BY <6>1
        <5>2. Len(Nodes) \in Nat /\ DOMAIN Nodes = 1 .. Len(Nodes)
          BY GraphAssumption
        <5> HIDE DEF n
        <5> QED
          BY <3>2, <5>1, <5>2
      <4>2. Turn(r) \in Contents(Nodes)
        BY <4>1 DEF Turn, Contents
      <4>3. cap \in Caps
        BY GraphAssumption DEF Caps
      <4> QED
        BY <4>2, <4>3 DEF NodeRows
    <3>4. run.tokens + cap.tokens <= GraphTokens /\ run.requests + cap.requests <= GraphRequests
      BY <3>1 DEF Fits
    <3>5. next \in Walks
      BY DEF Walks
    <3>6. runs' = [runs EXCEPT ![r] = new] /\ graph' = [graph EXCEPT ![r] = next]
      <4>1. runs' = [runs EXCEPT
              ![r].tokens = @ + cap.tokens, ![r].requests = @ + cap.requests,
              ![r].nodes = Append(@, node)]
        BY <3>1
      <4>2. graph' = [graph EXCEPT ![r] = next]
        BY <3>1
      <4>3. node.cap = cap
        BY <3>3
      <4> HIDE DEF cap, node
      <4>4. runs' = [runs EXCEPT ![r] = new]
        BY ONLY <1>1, <4>1, <4>3 DEF RunRows
      <4> QED
        BY <4>2, <4>4
    <3>7. new \in RunRows /\ Covered(new, next, charge)
      <4> HIDE DEF node, cap
      <4> QED
        BY <1>1, <3>2, <3>3, <3>4, ReserveRow
    <3>8. spent' = [spent EXCEPT ![r] = charge]
      BY <1>1, <1>4 DEF ReserveNode
    <3> HIDE DEF new, next
    <3> QED
      BY <1>1, <1>2, <3>5, <3>6, <3>7, <3>8, OneRun
  <2> QED
    BY <2>1, <2>2
<1>5. CASE AskNode(r)
  <2>1. PICK used \in 0 .. run.nodes[n].cap.tokens :
          /\ spent' = [spent EXCEPT ![r] = @ + used]
          /\ graph' = [graph EXCEPT ![r].pc = IF Overdue(r) THEN "failing" ELSE "answered",
                                    ![r].used = used]
    BY <1>5 DEF AskNode, LastNode
  <2> DEFINE next == [walk EXCEPT !.pc = IF Overdue(r) THEN "failing" ELSE "answered",
                                  !.used = used]
  <2>2. walk.pc = "asking" /\ runs' = [runs EXCEPT ![r] = run]
    BY <1>1, <1>5 DEF AskNode
  <2>3. next \in Walks /\ next.pc \in {"failing", "answered"} /\ next.used = used
        /\ next.cached = walk.cached
    <3>1. run.nodes[n].cap \in Caps
      <4>1. run.nodes \in Seq(NodeRows) /\ run.nodes # << >>
        BY <1>1, <2>2 DEF RunRows, Covered
      <4>2. run.nodes[n] \in NodeRows
        BY <4>1
      <4> QED
        BY <4>2 DEF NodeRows
    <3>2. used \in Nat
      BY <3>1 DEF Caps
    <3> QED
      BY <1>1, <3>2 DEF Walks
  <2> HIDE DEF next
  <2>4. charge + used \in Nat /\ Covered(run, next, charge + used)
    BY <1>1, <2>2, <2>3, AskRow
  <2>5. graph' = [graph EXCEPT ![r] = next] /\ spent' = [spent EXCEPT ![r] = charge + used]
    BY <2>1 DEF next
  <2> QED
    BY <1>1, <1>2, <2>2, <2>3, <2>4, <2>5, OneRun
<1>6. CASE AskFails(r)
  BY <1>3, <1>6 DEF AskFails
<1>7. CASE CompleteNode(r)
  <2>1. CASE GoesOn(r, "failing") /\ UNCHANGED runs
    BY <1>3, <1>7, <2>1 DEF CompleteNode
  <2>2. CASE ~(GoesOn(r, "failing") /\ UNCHANGED runs)
    <3> DEFINE new == [run EXCEPT
                  !.nodes[n].state = "completed",
                  !.tokens = @ - run.nodes[n].cap.tokens + walk.used,
                  !.requests = @ - run.nodes[n].cap.requests + (IF walk.cached THEN 0 ELSE 1)]
               pc == IF walk.cached THEN "next" ELSE "completed"
               next == [walk EXCEPT !.pc = pc]
    <3>1. runs' = [runs EXCEPT ![r] = new] /\ graph' = [graph EXCEPT ![r] = next]
          /\ walk.pc = "answered"
      BY <1>7, <2>2 DEF CompleteNode, LastNode, GoesOn
    <3>2. new \in RunRows /\ Covered(new, next, charge)
      BY <1>1, <3>1, CompleteRow
    <3>3. next \in Walks /\ spent' = [spent EXCEPT ![r] = charge]
      BY <1>1, <1>7 DEF CompleteNode, Walks
    <3> HIDE DEF new, next
    <3> QED
      BY <1>1, <1>2, <3>1, <3>2, <3>3, OneRun
  <2> QED
    BY <2>1, <2>2
<1>8. CASE Checkpoint(r)
  BY <1>3, <1>8 DEF Checkpoint
<1>9. CASE FinishGraph(r)
  <2> DEFINE state == IF run.state # "running" THEN run.state
                      ELSE IF walk.pc = "next" /\ ~Overdue(r) THEN "completed" ELSE "failed"
             new == [run EXCEPT !.state = state]
             next == [walk EXCEPT !.pc = "over"]
  <2>1. runs' = [runs EXCEPT ![r] = new] /\ graph' = [graph EXCEPT ![r] = next]
        /\ spent' = [spent EXCEPT ![r] = charge]
    BY <1>1, <1>9 DEF FinishGraph, GoesOn
  <2>2. state \in {"running", "completed", "failed"}
    BY <1>1 DEF RunRows
  <2> HIDE DEF state
  <2>3. new \in RunRows /\ next \in Walks /\ Covered(new, next, charge)
    BY <1>1, <2>2 DEF RunRows, Walks, Covered
  <2> HIDE DEF new, next
  <2> QED
    BY <1>1, <1>2, <2>1, <2>3, OneRun
<1>10. CASE GraphStops(r)
  BY <1>3, <1>10 DEF GraphStops
<1> QED
  BY <1>4, <1>5, <1>6, <1>7, <1>8, <1>9, <1>10 DEF GraphStep

-----------------------------------------------------------------------------
(* Batches                                                                  *)

Things == Contents(Items)
Refusals == {"budget_exhausted", "route_unavailable"}
Outcomes == {"output", "invalid_output", "context_pressure"} \cup Refusals
Batches == [rest : Seq(Things), groups : Seq(Seq(Things)),
            results : [Things -> Outcomes \cup {"none"}],
            calls : Nat, deferred : Refusals \cup {"none"}, faulted : SUBSET Things]

\* What the answers were charged is in the ledger, and that is within the budget.
LedgerInv ==
  /\ ledger \in [requests : Nat, tokens : Nat] /\ charged \in Nat
  /\ charged <= ledger.tokens /\ ledger.tokens <= BatchTokens

\* An item without a result is in a group still to be run, or in none yet.
NoneLost(b) ==
  \A i \in Things : b.results[i] = "none" =>
    \/ i \in Contents(b.rest)
    \/ \E g \in DOMAIN b.groups : i \in Contents(b.groups[g])

Marred == Spoiling \cup Invalid \cup Oversized

\* Results are what the items deserve: an output they do not spoil; and until
\* calls run out or are deferred, no refusal but for what they are, or for a call
\* in which they were alone.
DeservedBy(b, i) ==
  /\ b.results[i] = "output" => i \notin Marred
  /\ (b.deferred = "none" /\ b.calls < MaxCalls) =>
       (b.results[i] \notin {"none", "output"} => i \in Marred \cup b.faulted)
Deserved(b) == \A i \in Things : DeservedBy(b, i)

BatchInv == batch \in Batches /\ NoneLost(batch) /\ Deserved(batch)

\* The halves of a group are sequences of its items, and hold all of them.
LEMMA HalvesHold ==
  ASSUME NEW S, NEW group \in Seq(S)
  PROVE  /\ Halves(group) \in Seq(Seq(S)) /\ Len(Halves(group)) = 2
         /\ \A i \in Contents(group) : \E h \in 1 .. 2 : i \in Contents(Halves(group)[h])
<1> DEFINE n == Len(group)
           middle == (n + 1) \div 2
           left == SubSeq(group, 1, middle)
           right == SubSeq(group, middle + 1, n)
<1>1. n \in Nat /\ middle \in 0 .. n
  BY Z3
<1> HIDE DEF middle
<1>2. /\ left \in Seq(S) /\ Len(left) = middle
      /\ \A k \in 1 .. middle : left[k] = group[k]
  BY <1>1
<1>3. /\ right \in Seq(S) /\ Len(right) = n - middle
      /\ \A k \in 1 .. n - middle : right[k] = group[middle + k]
  BY <1>1
<1>4. Halves(group) = <<left, right>>
  BY DEF Halves, middle
<1> HIDE DEF left, right
<1>5. ASSUME NEW i \in Contents(group) PROVE i \in Contents(left) \/ i \in Contents(right)
  <2>1. PICK k \in 1 .. n : i = group[k]
    BY DEF Contents
  <2>2. CASE k <= middle
    <3>1. k \in DOMAIN left /\ left[k] = i
      BY <1>1, <1>2, <2>1, <2>2
    <3> QED
      BY <3>1 DEF Contents
  <2>3. CASE k > middle
    <3>1. k - middle \in DOMAIN right /\ right[k - middle] = i
      BY <1>1, <1>3, <2>1, <2>3
    <3> QED
      BY <3>1 DEF Contents
  <2> QED
    BY <1>1, <2>1, <2>2, <2>3
<1> QED
  BY <1>2, <1>3, <1>4, <1>5

\* Two put in the place of the first.
LEMMA PutFirst ==
  ASSUME NEW S, NEW list \in Seq(S), Len(list) > 0, NEW pair \in Seq(S), Len(pair) = 2
  PROVE  LET new == pair \o Tail(list)
         IN  /\ new \in Seq(S) /\ Len(new) = 1 + Len(list)
             /\ \A h \in 1 .. 2 : new[h] = pair[h]
             /\ \A g \in 2 .. Len(list) : new[g + 1] = list[g]
<1> DEFINE rest == Tail(list)
           new == pair \o rest
<1>1. /\ rest \in Seq(S) /\ Len(rest) = Len(list) - 1
      /\ \A g \in 2 .. Len(list) : rest[g - 1] = list[g]
  OBVIOUS
<1> HIDE DEF rest
<1>2. /\ new \in Seq(S) /\ Len(new) = 2 + Len(rest)
      /\ \A i \in 1 .. 2 + Len(rest) : new[i] = IF i <= 2 THEN pair[i] ELSE rest[i - 2]
  <2>1. /\ new \in Seq(S) /\ Len(new) = Len(pair) + Len(rest)
        /\ \A i \in 1 .. Len(pair) + Len(rest) :
             new[i] = IF i <= Len(pair) THEN pair[i] ELSE rest[i - Len(pair)]
    BY ONLY <1>1, pair \in Seq(S), ConcatProperties, Zenon DEF new
  <2> QED
    BY <2>1
<1> HIDE DEF new
<1>3. \A h \in 1 .. 2 : new[h] = pair[h]
  BY <1>1, <1>2
<1>4. ASSUME NEW g \in 2 .. Len(list) PROVE new[g + 1] = list[g]
  <2>1. g + 1 \in 1 .. 2 + Len(rest) /\ ~(g + 1 <= 2) /\ (g + 1) - 2 = g - 1
    BY <1>1
  <2> QED
    BY <1>1, <1>2, <2>1
<1>5. Len(new) = 1 + Len(list)
  BY <1>1, <1>2
<1> QED
  BY <1>2, <1>3, <1>4, <1>5 DEF new, rest

\* The first items of a list and the others are all of it.
LEMMA CutHolds ==
  ASSUME NEW S, NEW list \in Seq(S), NEW n \in 1 .. Len(list)
  PROVE  /\ SubSeq(list, 1, n) \in Seq(S) /\ SubSeq(list, n + 1, Len(list)) \in Seq(S)
         /\ Len(SubSeq(list, 1, n)) = n
         /\ \A i \in Contents(list) :
              i \in Contents(SubSeq(list, 1, n)) \/ i \in Contents(SubSeq(list, n + 1, Len(list)))
<1> DEFINE left == SubSeq(list, 1, n)
           right == SubSeq(list, n + 1, Len(list))
<1>1. /\ left \in Seq(S) /\ Len(left) = n /\ \A k \in 1 .. n : left[k] = list[k]
  OBVIOUS
<1>2. /\ right \in Seq(S) /\ Len(right) = Len(list) - n
      /\ \A k \in 1 .. Len(list) - n : right[k] = list[n + k]
  OBVIOUS
<1> HIDE DEF left, right
<1>3. ASSUME NEW i \in Contents(list) PROVE i \in Contents(left) \/ i \in Contents(right)
  <2>1. PICK k \in 1 .. Len(list) : i = list[k]
    BY DEF Contents
  <2>2. CASE k <= n
    <3>1. k \in DOMAIN left /\ left[k] = i
      BY <1>1, <2>1, <2>2
    <3> QED
      BY <3>1 DEF Contents
  <2>3. CASE k > n
    <3>1. k - n \in DOMAIN right /\ right[k - n] = i
      BY <1>2, <2>1, <2>3
    <3> QED
      BY <3>1 DEF Contents
  <2> QED
    BY <2>1, <2>2, <2>3
<1> QED
  BY <1>1, <1>2, <1>3 DEF left, right

LEMMA TheGroup ==
  ASSUME BatchInv, Pending
  PROVE  /\ batch.groups \in Seq(Seq(Things)) /\ Len(batch.groups) > 0
         /\ Group \in Seq(Things) /\ Group = batch.groups[1]
         /\ Tail(batch.groups) \in Seq(Seq(Things))
         /\ Contents(Group) \subseteq Things
         /\ \A i \in Contents(Group) : \E k \in 1 .. Len(Group) : i = Group[k]
         /\ \A i \in Things : batch.results[i] = "none" =>
              \/ i \in Contents(batch.rest)
              \/ \E g \in 1 .. Len(batch.groups) : i \in Contents(batch.groups[g])
<1>1. batch.groups \in Seq(Seq(Things)) /\ batch.groups # << >>
  BY DEF BatchInv, Batches, Pending
<1>2. Group \in Seq(Things) /\ Group = batch.groups[1] /\ Len(batch.groups) > 0
      /\ Tail(batch.groups) \in Seq(Seq(Things))
  BY <1>1 DEF Group
<1>3. Contents(Group) \subseteq Things
  BY <1>2 DEF Contents
<1>4. \A i \in Things : batch.results[i] = "none" =>
        \/ i \in Contents(batch.rest)
        \/ \E g \in 1 .. Len(batch.groups) : i \in Contents(batch.groups[g])
  <2>1. DOMAIN batch.groups = 1 .. Len(batch.groups)
    BY <1>1
  <2> QED
    BY <2>1, Zenon DEF BatchInv, NoneLost
<1>5. \A i \in Contents(Group) : \E k \in 1 .. Len(Group) : i = Group[k]
  BY <1>2 DEF Contents
<1> QED
  BY <1>1, <1>2, <1>3, <1>4, <1>5

\* The others of a group of one.
LEMMA AloneInIt ==
  ASSUME BatchInv, Pending, Len(Group) <= 1, NEW i \in Contents(Group), NEW j \in Contents(Group)
  PROVE  i = j /\ Len(Group) = 1
<1>1. Len(Group) \in Nat
  BY TheGroup
<1>2. PICK k \in 1 .. Len(Group) : i = Group[k]
  BY TheGroup
<1>3. PICK m \in 1 .. Len(Group) : j = Group[m]
  BY TheGroup
<1>4. k = m /\ Len(Group) = 1
  BY <1>1, <1>2, <1>3
<1> QED
  BY <1>2, <1>3, <1>4

\* What a step leaves alone of a batch.
SameButGroups(b) ==
  /\ b.calls = batch.calls /\ b.deferred = batch.deferred /\ b.faulted = batch.faulted
  /\ b.rest = batch.rest

\* A group that is over leaves each of its items a result, and the rest alone.
LEMMA OverKeeps ==
  ASSUME BatchInv, Pending, NEW given, \A i \in Contents(Group) : given[i] \in Outcomes
  PROVE  /\ Over(given) \in Batches /\ NoneLost(Over(given)) /\ SameButGroups(Over(given))
         /\ \A i \in Things : Over(given).results[i] =
              IF i \in Contents(Group) THEN given[i] ELSE batch.results[i]
<1> DEFINE results == Settle(Group, given)
           groups == Tail(batch.groups)
           new == [batch EXCEPT !.groups = groups, !.results = results]
<1>1. /\ batch.groups \in Seq(Seq(Things)) /\ Len(batch.groups) > 0 /\ Group = batch.groups[1]
      /\ groups \in Seq(Seq(Things)) /\ Contents(Group) \subseteq Things
  BY TheGroup
<1>2. DOMAIN batch.results = Things /\ batch.results \in [Things -> Outcomes \cup {"none"}]
  BY DEF BatchInv, Batches
<1>3. /\ results \in [Things -> Outcomes \cup {"none"}]
      /\ \A i \in Things : results[i] =
           IF i \in Contents(Group) THEN given[i] ELSE batch.results[i]
  BY <1>2 DEF Settle
<1>4. Over(given) = new
  BY DEF Over
<1> HIDE DEF results
<1>5. /\ new \in Batches /\ new.groups = groups /\ new.results = results
      /\ SameButGroups(new)
  BY <1>1, <1>3 DEF BatchInv, Batches, SameButGroups
<1>6. ASSUME NEW i \in Things, results[i] = "none", i \notin Contents(batch.rest)
      PROVE  \E g \in DOMAIN groups : i \in Contents(groups[g])
  <2>1. i \notin Contents(Group) /\ batch.results[i] = "none"
    BY <1>3, <1>6 DEF Outcomes, Refusals
  <2>2. PICK g \in 1 .. Len(batch.groups) : i \in Contents(batch.groups[g])
    BY <1>6, <2>1, TheGroup
  <2>3. g # 1
    BY <1>1, <2>1, <2>2
  <2>4. g - 1 \in DOMAIN groups /\ groups[g - 1] = batch.groups[g]
    BY <1>1, <2>2, <2>3
  <2> QED
    BY <2>2, <2>4
<1> QED
  BY <1>3, <1>4, <1>5, <1>6 DEF NoneLost, SameButGroups

\* One that is split keeps its items among the groups; only an item that is
\* alone gets a result.
LEMMA AgainKeeps ==
  ASSUME BatchInv, Pending, NEW why \in Outcomes
  PROVE  /\ Again(why) \in Batches /\ NoneLost(Again(why)) /\ SameButGroups(Again(why))
         /\ \A i \in Things : Again(why).results[i] =
              IF Len(Group) <= 1 /\ i \in Contents(Group) THEN why ELSE batch.results[i]
<1>1. CASE Len(Group) > 1
  <2> DEFINE halves == Halves(Group)
             rest == Tail(batch.groups)
             groups == halves \o rest
             new == [batch EXCEPT !.groups = groups]
  <2>1. /\ batch.groups \in Seq(Seq(Things)) /\ Len(batch.groups) > 0
        /\ Group \in Seq(Things) /\ Group = batch.groups[1] /\ rest \in Seq(Seq(Things))
    BY TheGroup
  <2>2. /\ halves \in Seq(Seq(Things)) /\ Len(halves) = 2
        /\ \A i \in Contents(Group) : \E h \in 1 .. 2 : i \in Contents(halves[h])
    BY <2>1, HalvesHold
  <2> HIDE DEF halves
  <2>3. /\ groups \in Seq(Seq(Things)) /\ Len(groups) = 1 + Len(batch.groups)
        /\ \A h \in 1 .. 2 : groups[h] = halves[h]
        /\ \A g \in 2 .. Len(batch.groups) : groups[g + 1] = batch.groups[g]
    BY <2>1, <2>2, PutFirst
  <2> HIDE DEF groups
  <2>4. Again(why) = new
    BY <1>1 DEF Again, groups, halves
  <2>5. /\ new \in Batches /\ new.groups = groups /\ new.results = batch.results
        /\ SameButGroups(new)
    BY <2>3 DEF BatchInv, Batches, SameButGroups
  <2>6. ASSUME NEW i \in Things, batch.results[i] = "none", i \notin Contents(batch.rest)
        PROVE  \E g \in DOMAIN groups : i \in Contents(groups[g])
    <3>1. PICK g \in 1 .. Len(batch.groups) : i \in Contents(batch.groups[g])
      BY <2>6, TheGroup
    <3>2. CASE g = 1
      <4>1. PICK h \in 1 .. 2 : i \in Contents(halves[h])
        <5>1. i \in Contents(Group)
          BY <2>1, <3>1, <3>2
        <5> QED
          BY <2>2, <5>1
      <4>2. h \in DOMAIN groups /\ groups[h] = halves[h]
        <5>1. Len(groups) \in Nat /\ 2 <= Len(groups)
          BY <2>1, <2>3
        <5>2. h \in 1 .. Len(groups)
          BY <5>1
        <5> QED
          BY <2>3, <5>2
      <4> QED
        BY <4>1, <4>2
    <3>3. CASE g # 1
      <4>1. g \in 2 .. Len(batch.groups) /\ g + 1 \in 1 .. 1 + Len(batch.groups)
        BY <2>1, <3>1, <3>3
      <4>2. g + 1 \in DOMAIN groups /\ groups[g + 1] = batch.groups[g]
        BY <2>3, <4>1
      <4> QED
        BY <3>1, <4>2
    <3> QED
      BY <3>2, <3>3
  <2>7. NoneLost(new)
    BY <2>5, <2>6 DEF NoneLost, SameButGroups
  <2> QED
    BY <1>1, <2>4, <2>5, <2>7, <2>1
<1>2. CASE ~(Len(Group) > 1)
  <2>1. \A i \in Contents(Group) : All(Group, why)[i] = why
    BY DEF All
  <2>2. Again(why) = Over(All(Group, why))
    BY <1>2 DEF Again
  <2>3. Len(Group) <= 1
    BY <1>2, TheGroup
  <2> HIDE DEF All
  <2> QED
    BY <2>1, <2>2, <2>3, OverKeeps
<1> QED
  BY <1>1, <1>2

\* A call that has failed: what is left is deferred, or the group is run again,
\* and an item alone in it blamed for it.
LEMMA FailureKeeps ==
  ASSUME BatchInv, Pending, batch' \in Failures
  PROVE  BatchInv'
<1>0. batch.calls + 1 \in Nat /\ batch.calls \in Nat /\ MaxCalls \in Nat
  BY GraphAssumption DEF BatchInv, Batches
<1>1. ASSUME NEW why \in Refusals, batch' = Defer(why) PROVE BatchInv'
  <2> DEFINE over == Over(All(Group, why))
  <2>1. \A i \in Contents(Group) : All(Group, why)[i] = why /\ why \in Outcomes
    BY DEF All, Outcomes
  <2> HIDE DEF All
  <2>2. /\ over \in Batches /\ NoneLost(over)
        /\ \A i \in Things : over.results[i] =
             IF i \in Contents(Group) THEN why ELSE batch.results[i]
    BY <2>1, OverKeeps
  <2> HIDE DEF over
  <2>3. batch' = [over EXCEPT !.calls = batch.calls + 1, !.deferred = why]
    BY <1>1 DEF Defer, over
  <2>4. /\ batch' \in Batches /\ NoneLost(batch') /\ batch'.deferred = why
        /\ batch'.results = over.results
    BY <1>0, <2>2, <2>3 DEF Batches, NoneLost
  <2>5. ASSUME NEW i \in Things PROVE DeservedBy(batch', i)
    <3>1. batch.results[i] = "output" => i \notin Marred
      BY DEF BatchInv, Deserved, DeservedBy
    <3>2. why # "output" /\ why # "none"
      BY DEF Refusals
    <3> QED
      BY <2>2, <2>4, <3>1, <3>2 DEF DeservedBy
  <2> QED
    BY <2>4, <2>5 DEF BatchInv, Deserved, NoneLost, DeservedBy
<1>2. ASSUME batch' = Fault PROVE BatchInv'
  <2> DEFINE next == Again("invalid_output")
             faulted == IF Len(Group) = 1 THEN batch.faulted \cup Contents(Group)
                                          ELSE batch.faulted
  <2>1. "invalid_output" \in Outcomes
    BY DEF Outcomes
  <2>2. /\ next \in Batches /\ NoneLost(next) /\ SameButGroups(next)
        /\ \A i \in Things : next.results[i] =
             IF Len(Group) <= 1 /\ i \in Contents(Group) THEN "invalid_output"
                                                         ELSE batch.results[i]
    BY <2>1, AgainKeeps
  <2>3. batch' = [next EXCEPT !.calls = batch.calls + 1, !.faulted = faulted]
    <3>1. next.faulted = batch.faulted
      BY <2>2 DEF SameButGroups
    <3> HIDE DEF next
    <3>2. batch' = [next EXCEPT !.calls = batch.calls + 1,
                      !.faulted = IF Len(Group) = 1 THEN next.faulted \cup Contents(Group)
                                                    ELSE next.faulted]
      BY <1>2 DEF Fault, next
    <3> QED
      BY <3>1, <3>2
  <2>4. faulted \in SUBSET Things /\ batch.faulted \subseteq faulted
    BY TheGroup DEF BatchInv, Batches
  <2> HIDE DEF next
  <2>5. \A i \in Contents(Group) : Len(Group) <= 1 => i \in faulted
    BY AloneInIt
  <2> HIDE DEF faulted
  <2>6. /\ batch' \in Batches /\ NoneLost(batch') /\ batch'.deferred = batch.deferred
        /\ batch'.calls = batch.calls + 1 /\ batch'.results = next.results
        /\ batch'.faulted = faulted
    BY <1>0, <2>2, <2>3, <2>4 DEF Batches, NoneLost, SameButGroups
  <2>7. ASSUME NEW i \in Things PROVE DeservedBy(batch', i)
    <3>1. DeservedBy(batch, i)
      BY DEF BatchInv, Deserved
    <3>2. batch'.calls < MaxCalls => batch.calls < MaxCalls
      BY <1>0, <2>6
    <3>3. CASE Len(Group) <= 1 /\ i \in Contents(Group)
      <4>1. batch'.results[i] = "invalid_output" /\ i \in batch'.faulted
        BY <2>2, <2>5, <2>6, <3>3
      <4> QED
        BY <4>1 DEF DeservedBy
    <3>4. CASE ~(Len(Group) <= 1 /\ i \in Contents(Group))
      <4>1. batch'.results[i] = batch.results[i]
        BY <2>2, <2>6, <3>4
      <4> QED
        BY <2>4, <2>6, <3>1, <3>2, <4>1 DEF DeservedBy
    <3> QED
      BY <3>3, <3>4
  <2> QED
    BY <2>6, <2>7 DEF BatchInv, Deserved, NoneLost, DeservedBy
<1> QED
  BY <1>1, <1>2 DEF Failures, Refusals

\* Until calls run out or are deferred, the results are as before.
LEMMA DeservedStill ==
  ASSUME BatchInv, batch'.deferred = batch.deferred, batch'.faulted = batch.faulted,
         batch'.calls \in {batch.calls, batch.calls + 1},
         NEW i \in Things, batch'.results[i] = batch.results[i]
  PROVE  DeservedBy(batch', i)
<1>1. DeservedBy(batch, i) /\ batch.calls \in Nat /\ MaxCalls \in Nat
  BY GraphAssumption DEF BatchInv, Deserved, Batches
<1>2. batch'.calls < MaxCalls => batch.calls < MaxCalls
  BY <1>1
<1> QED
  BY <1>1, <1>2 DEF DeservedBy

LEMMA TakeGroupKeeps == ASSUME BatchInv, TakeGroup PROVE BatchInv'
<1>1. PICK n \in 1 .. Len(batch.rest) :
        batch' = [batch EXCEPT !.groups = <<SubSeq(batch.rest, 1, n)>>,
                               !.rest = SubSeq(batch.rest, n + 1, Len(batch.rest))]
  BY DEF TakeGroup
<1> DEFINE group == SubSeq(batch.rest, 1, n)
           rest == SubSeq(batch.rest, n + 1, Len(batch.rest))
           groups == <<group>>
<1>2. batch \in Batches /\ batch.rest \in Seq(Things)
  BY DEF BatchInv, Batches
<1>3. /\ group \in Seq(Things) /\ rest \in Seq(Things)
      /\ \A i \in Contents(batch.rest) : i \in Contents(group) \/ i \in Contents(rest)
  BY <1>2, CutHolds
<1> HIDE DEF group, rest
<1>4. groups \in Seq(Seq(Things)) /\ 1 \in DOMAIN groups /\ groups[1] = group
  BY <1>3
<1> HIDE DEF groups
<1>5. batch' = [batch EXCEPT !.groups = groups, !.rest = rest]
  BY <1>1 DEF group, rest, groups
<1>6. /\ batch' \in Batches /\ batch'.groups = groups /\ batch'.rest = rest
      /\ batch'.results = batch.results /\ batch'.calls = batch.calls
      /\ batch'.deferred = batch.deferred /\ batch'.faulted = batch.faulted
  BY <1>2, <1>3, <1>4, <1>5 DEF Batches
<1>7. ASSUME NEW i \in Things, batch.results[i] = "none" PROVE i \in Contents(batch.rest)
  <2>1. batch.groups = << >>
    BY DEF TakeGroup, Pending
  <2>2. DOMAIN batch.groups = {}
    BY <2>1
  <2> QED
    BY <1>7, <2>2 DEF BatchInv, NoneLost
<1>8. NoneLost(batch')
  <2> SUFFICES ASSUME NEW i \in Things, batch'.results[i] = "none",
                      i \notin Contents(batch'.rest)
               PROVE  \E g \in DOMAIN batch'.groups : i \in Contents(batch'.groups[g])
    BY DEF NoneLost
  <2>1. i \in Contents(group)
    BY <1>3, <1>6, <1>7
  <2> QED
    BY <1>4, <1>6, <2>1
<1>9. Deserved(batch')
  BY <1>6, DeservedStill DEF Deserved
<1> QED
  BY <1>6, <1>8, <1>9 DEF BatchInv, NoneLost, Deserved, DeservedBy

LEMMA BatchKeeps == ASSUME BatchInv, BatchNext PROVE BatchInv'
<1>1. CASE PassGroup
  <2> DEFINE given == All(Group, Put(batch.deferred))
  <2>1. \A i \in Contents(Group) : given[i] \in Outcomes /\ given[i] # "output"
    BY DEF All, Put, Outcomes, Refusals, BatchInv, Batches
  <2>2. Pending /\ batch' = Over(given) /\ ~(batch.deferred = "none" /\ batch.calls < MaxCalls)
    <3>1. batch.calls \in Nat /\ MaxCalls \in Nat
      BY GraphAssumption DEF BatchInv, Batches
    <3> QED
      BY <1>1, <3>1 DEF PassGroup, Exhausted
  <2> HIDE DEF given
  <2>3. /\ batch' \in Batches /\ NoneLost(batch') /\ SameButGroups(batch')
        /\ \A i \in Things : batch'.results[i] =
             IF i \in Contents(Group) THEN given[i] ELSE batch.results[i]
    BY <2>1, <2>2, OverKeeps
  <2>4. ASSUME NEW i \in Things PROVE DeservedBy(batch', i)
    <3>1. DeservedBy(batch, i)
      BY DEF BatchInv, Deserved
    <3>2. batch'.results[i] = "output" => batch.results[i] = "output"
      BY <2>1, <2>3
    <3> QED
      BY <2>2, <2>3, <3>1, <3>2 DEF DeservedBy, SameButGroups
  <2> QED
    BY <2>3, <2>4 DEF BatchInv, Deserved, NoneLost, DeservedBy
<1>2. CASE SplitGroup
  <2>1. Pending /\ batch' = Again("context_pressure") /\ "context_pressure" \in Outcomes
    BY <1>2 DEF SplitGroup, Outcomes
  <2>2. /\ batch' \in Batches /\ NoneLost(batch') /\ SameButGroups(batch')
        /\ \A i \in Things : batch'.results[i] =
             IF Len(Group) <= 1 /\ i \in Contents(Group) THEN "context_pressure"
                                                         ELSE batch.results[i]
    BY <2>1, AgainKeeps
  <2>3. ASSUME NEW i \in Contents(Group), Len(Group) <= 1 PROVE i \in Marred
    <3>1. Len(Group) \in Nat /\ ContextItems \in Nat \ {0}
      BY <2>1, TheGroup, GraphAssumption
    <3>2. PICK j \in Contents(Group) : j \in Oversized
      BY <1>2, <2>3, <3>1 DEF SplitGroup, TooLarge
    <3>3. i = j
      BY <2>1, <2>3, <3>2, AloneInIt
    <3> QED
      BY <3>2, <3>3 DEF Marred
  <2>4. ASSUME NEW i \in Things PROVE DeservedBy(batch', i)
    <3>1. CASE Len(Group) <= 1 /\ i \in Contents(Group)
      <4>1. batch'.results[i] = "context_pressure" /\ i \in Marred
        BY <2>2, <2>3, <3>1
      <4> QED
        BY <4>1 DEF DeservedBy
    <3>2. CASE ~(Len(Group) <= 1 /\ i \in Contents(Group))
      BY <2>2, <3>2, DeservedStill DEF SameButGroups
    <3> QED
      BY <3>1, <3>2
  <2> QED
    BY <2>2, <2>4 DEF BatchInv, Deserved, NoneLost, DeservedBy
<1>3. CASE WallTimeEnds
  <2>1. batch \in Batches /\ batch' = [batch EXCEPT !.deferred = "budget_exhausted"]
    BY <1>3 DEF WallTimeEnds, BatchInv
  <2>2. /\ batch' \in Batches /\ batch'.results = batch.results /\ batch'.rest = batch.rest
        /\ batch'.groups = batch.groups /\ batch'.deferred # "none"
    BY <2>1 DEF Batches, Refusals
  <2> QED
    BY <2>2 DEF BatchInv, NoneLost, Deserved, DeservedBy
<1>4. CASE NotDispatched
  BY <1>4, FailureKeeps DEF NotDispatched, Sends, Failures
<1>5. CASE Unanswered
  BY <1>5, FailureKeeps DEF Unanswered, Sends
<1>6. CASE Answered
  <2> DEFINE spoiled == Contents(Group) \cap Spoiling # {}
             given == [i \in Contents(Group) |->
                           IF i \in Invalid THEN "invalid_output" ELSE "output"]
             next == IF spoiled THEN Again("invalid_output") ELSE Over(given)
  <2>1. Pending /\ batch' = [next EXCEPT !.calls = batch.calls + 1] /\ ~TooLarge(Group)
    BY <1>6 DEF Answered, Sends
  <2>2. \A i \in Contents(Group) : given[i] \in Outcomes
    BY DEF Outcomes
  <2>3. "invalid_output" \in Outcomes
    BY DEF Outcomes
  <2>4. next \in Batches /\ NoneLost(next) /\ SameButGroups(next)
    <3> HIDE DEF spoiled, given
    <3> QED
      BY <2>1, <2>2, <2>3, OverKeeps, AgainKeeps
  <2>5. ASSUME NEW i \in Things, next.results[i] # batch.results[i]
        PROVE  \/ next.results[i] = "output" /\ i \notin Marred
               \/ next.results[i] = "invalid_output" /\ i \in Marred
    <3>1. CASE spoiled
      <4>1. Len(Group) <= 1 /\ i \in Contents(Group) /\ next.results[i] = "invalid_output"
        BY <2>1, <2>3, <2>5, <3>1, AgainKeeps
      <4>2. PICK j \in Contents(Group) : j \in Spoiling
        BY <3>1
      <4>3. i = j
        BY <2>1, <4>1, <4>2, AloneInIt
      <4> QED
        BY <4>1, <4>2, <4>3 DEF Marred
    <3>2. CASE ~spoiled
      <4>1. next.results[i] = IF i \in Contents(Group) THEN given[i] ELSE batch.results[i]
        <5> HIDE DEF spoiled, given
        <5> QED
          BY <2>1, <2>2, <3>2, OverKeeps
      <4>2. i \in Contents(Group) /\ i \notin Spoiling /\ next.results[i] = given[i]
        BY <2>5, <3>2, <4>1
      <4>3. i \notin Oversized
        BY <2>1, <4>2 DEF TooLarge
      <4> QED
        BY <4>2, <4>3 DEF Marred
    <3> QED
      BY <3>1, <3>2
  <2> HIDE DEF next
  <2>6. batch.calls + 1 \in Nat
    BY DEF BatchInv, Batches
  <2>7. /\ batch' \in Batches /\ NoneLost(batch') /\ batch'.results = next.results
        /\ batch'.calls = batch.calls + 1 /\ batch'.deferred = batch.deferred
        /\ batch'.faulted = batch.faulted
    <3>1. /\ batch' \in Batches /\ batch'.results = next.results /\ batch'.groups = next.groups
          /\ batch'.rest = next.rest
          /\ batch'.calls = batch.calls + 1 /\ batch'.deferred = batch.deferred
          /\ batch'.faulted = batch.faulted
      BY <2>1, <2>4, <2>6 DEF Batches, SameButGroups
    <3> QED
      BY <2>4, <3>1 DEF NoneLost
  <2>8. ASSUME NEW i \in Things PROVE DeservedBy(batch', i)
    <3>1. CASE batch'.results[i] = batch.results[i]
      BY <2>7, <3>1, DeservedStill
    <3>2. CASE batch'.results[i] # batch.results[i]
      BY <2>5, <2>7, <3>2 DEF DeservedBy
    <3> QED
      BY <3>1, <3>2
  <2> QED
    BY <2>7, <2>8 DEF BatchInv, Deserved, NoneLost, DeservedBy
<1> QED
  BY <1>1, <1>2, <1>3, <1>4, <1>5, <1>6, TakeGroupKeeps DEF BatchNext

\* What may be spent on an answer is what is left.
LEMMA LedgerKeeps == ASSUME LedgerInv, BatchNext PROVE LedgerInv'
<1>1. /\ ledger \in [requests : Nat, tokens : Nat]
      /\ ledger.requests \in Nat /\ ledger.tokens \in Nat /\ charged \in Nat
      /\ charged <= ledger.tokens /\ ledger.tokens <= BatchTokens
  BY DEF LedgerInv
<1>2. BatchTokens \in Nat /\ RequestTokens \in Nat
  BY GraphAssumption
<1> DEFINE spend == Allowance
<1>3. spend \in Nat /\ ledger.tokens + spend <= BatchTokens
  BY <1>1, <1>2 DEF Allowance
<1> HIDE DEF spend
<1>4. CASE TakeGroup \/ PassGroup \/ SplitGroup \/ WallTimeEnds \/ NotDispatched
  BY <1>4 DEF TakeGroup, PassGroup, SplitGroup, WallTimeEnds, NotDispatched, LedgerInv
<1>6. CASE Unanswered
  <2>1. PICK used \in 0 .. spend : \E tokens \in {ledger.tokens + used, BatchTokens} :
          /\ ledger' = [requests |-> ledger.requests + 1, tokens |-> tokens]
          /\ charged' = charged + used
    BY <1>6 DEF Unanswered, spend
  <2>0. PICK tokens \in {ledger.tokens + used, BatchTokens} :
          /\ ledger' = [requests |-> ledger.requests + 1, tokens |-> tokens]
          /\ charged' = charged + used
    BY <2>1
  <2>2. tokens \in Nat /\ charged + used <= tokens /\ tokens <= BatchTokens
    BY <1>1, <1>2, <1>3
  <2> QED
    BY <1>1, <1>3, <2>0, <2>2 DEF LedgerInv
<1>7. CASE Answered
  <2>1. PICK used \in 0 .. spend :
          /\ ledger' = [requests |-> ledger.requests + 1, tokens |-> ledger.tokens + used]
          /\ charged' = charged + used
    BY <1>7 DEF Answered, spend
  <2> QED
    BY <1>1, <1>2, <1>3, <2>1 DEF LedgerInv
<1> QED
  BY <1>4, <1>6, <1>7 DEF BatchNext

-----------------------------------------------------------------------------
(* The theorems                                                             *)

LEMMA GraphNextKeeps == ASSUME GraphInv, GraphNext PROVE GraphInv'
<1>1. CASE Ticks
  BY <1>1 DEF Ticks, GraphInv, GraphTypes, RunsCovered, Covered, RunIds
<1> QED
  BY <1>1, StartGraphKeeps, GraphStepKeeps DEF GraphNext

LEMMA GraphInitially == ASSUME GraphInit PROVE GraphInv /\ LedgerInv /\ BatchInv
<1> USE GraphAssumption
<1>1. GraphInv
  BY DEF GraphInit, GraphInv, GraphTypes, RunsCovered, RunIds
<1>2. LedgerInv
  BY DEF GraphInit, LedgerInv
<1>3. BatchInv
  <2> DEFINE results == All(Items, "none")
  <2>1. Items \in Seq(Things) /\ << >> \in Seq(Seq(Things))
    BY DEF Things
  <2>2. results \in [Things -> Outcomes \cup {"none"}] /\ \A i \in Things : results[i] = "none"
    BY DEF All, Things
  <2> HIDE DEF results
  <2>3. batch = [rest |-> Items, groups |-> << >>, results |-> results, calls |-> 0,
                 deferred |-> "none", faulted |-> {}]
    BY DEF GraphInit, results
  <2>4. batch \in Batches /\ batch.results = results /\ batch.rest = Items
    BY <2>1, <2>2, <2>3 DEF Batches
  <2> QED
    BY <2>2, <2>4 DEF BatchInv, NoneLost, Deserved, DeservedBy, Things
<1> QED
  BY <1>1, <1>2, <1>3

LEMMA GraphAndBatchStep ==
  ASSUME GraphInv, LedgerInv, BatchInv, [GraphNext \/ BatchNext]_graphVars
  PROVE  GraphInv' /\ LedgerInv' /\ BatchInv'
<1>1. CASE GraphNext
  <2>1. UNCHANGED batchVars
    BY <1>1 DEF GraphNext, StartGraph, Ticks, GraphStep, ReserveNode, AskNode, AskFails,
                CompleteNode, Checkpoint, FinishGraph, GraphStops
  <2> QED
    BY <1>1, <2>1, GraphNextKeeps DEF batchVars, LedgerInv, BatchInv, NoneLost, Deserved, DeservedBy
<1>2. CASE BatchNext
  <2>1. UNCHANGED <<tick, runs, graph, spent>>
    BY <1>2 DEF BatchNext, TakeGroup, PassGroup, SplitGroup, WallTimeEnds, NotDispatched,
                Unanswered, Answered
  <2> QED
    BY <1>2, <2>1, BatchKeeps, LedgerKeeps
       DEF GraphInv, GraphTypes, RunsCovered, Covered, RunIds
<1>3. CASE UNCHANGED graphVars
  BY <1>3 DEF graphVars, GraphInv, GraphTypes, RunsCovered, Covered, RunIds, LedgerInv,
              BatchInv, NoneLost, Deserved, DeservedBy
<1> QED
  BY <1>1, <1>2, <1>3

GraphBatchInv == GraphInv /\ LedgerInv /\ BatchInv

LEMMA InvKeepsBudget == GraphBatchInv => WithinDeclaredBudget
<1> SUFFICES ASSUME GraphBatchInv PROVE WithinDeclaredBudget
  OBVIOUS
<1>1. ASSUME NEW r \in RunIds PROVE spent[r] <= GraphTokens
  <2>1. /\ spent[r] \in Nat /\ runs[r].tokens \in Nat
        /\ spent[r] <= runs[r].tokens /\ runs[r].tokens <= GraphTokens
    BY TheRun DEF GraphBatchInv, Covered, RunRows
  <2> QED
    BY <2>1, GraphAssumption
<1>2. charged <= BatchTokens
  BY GraphAssumption DEF GraphBatchInv, LedgerInv
<1> QED
  BY <1>1, <1>2 DEF WithinDeclaredBudget

LEMMA InvIsolates == GraphBatchInv => BatchIsolates
<1> SUFFICES ASSUME GraphBatchInv, ~Pending, batch.rest = << >>, NEW i \in Contents(Items)
             PROVE  LET marred == i \in Spoiling \cup Invalid \cup Oversized IN
                    /\ batch.results[i] # "none"
                    /\ batch.results[i] = "output" => ~marred
                    /\ ~Exhausted /\ batch.results[i] # "output" => marred \/ i \in batch.faulted
  BY Zenon DEF BatchIsolates
<1>1. DOMAIN batch.groups = {} /\ Contents(batch.rest) = {}
  BY DEF Pending, Contents
<1>2. i \in Things /\ NoneLost(batch) /\ DeservedBy(batch, i)
  BY DEF GraphBatchInv, BatchInv, Deserved, Things
<1>3. batch.results[i] # "none"
  BY <1>1, <1>2 DEF NoneLost
<1>4. ~Exhausted => batch.deferred = "none" /\ batch.calls < MaxCalls
  BY GraphAssumption DEF Exhausted, GraphBatchInv, BatchInv, Batches
<1> QED
  BY <1>2, <1>3, <1>4 DEF DeservedBy, Marred

\* A run of the graph and a batch are charged no more than was declared for
\* them, whatever fails, stops, comes late or is answered by a checkpoint.
THEOREM BudgetKept == GraphSpec => []WithinDeclaredBudget
<1>1. GraphSpec => []GraphBatchInv
  BY GraphInitially, GraphAndBatchStep, PTL DEF GraphBatchInv, GraphSpec
<1> QED
  BY <1>1, InvKeepsBudget, PTL

\* Whatever the items, however the batch is grouped and split and whichever calls
\* fail, every item ends with a result, none with an output that it spoils; and
\* unless calls, time or quota ran out, an item goes without one only for what it
\* is itself, or for a call that failed while it was alone in it.
THEOREM BatchesIsolate == GraphSpec => []BatchIsolates
<1>1. GraphSpec => []GraphBatchInv
  BY GraphInitially, GraphAndBatchStep, PTL DEF GraphBatchInv, GraphSpec
<1> QED
  BY <1>1, InvIsolates, PTL
==============================================================================
