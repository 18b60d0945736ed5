-------------------------- MODULE PreparationGraph --------------------------
(***************************************************************************)
(* The bounded ways to ask for preparation proposals: runs of a graph of   *)
(* nodes (packages/inference/src/graph.ts over                             *)
(* packages/persistence/src/graph-repository.ts), each node asked once and *)
(* kept as a checkpoint, and batches of items that are split until what    *)
(* spoils them is alone (packages/inference/src/batch.ts over              *)
(* packages/inference/src/batch-gateway.ts).  The quota of the             *)
(* installation, which both also spend, is module Inference.               *)
(***************************************************************************)
EXTENDS Integers, Sequences, FiniteSets

CONSTANTS
  Nodes,                     \* kinds of the nodes of a run, in order
  NodeTokens, GraphTokens, GraphRequests, WallTime, ActiveRuns,
  Items,                     \* items of a batch, in order
  Spoiling, Invalid,         \* items that spoil an answer, or only their own
  Oversized, ContextItems,   \* items that fit no request; how many fit one
  MaxCalls, BatchRequests, BatchTokens, RequestTokens,
  MaxTick, MaxRuns           \* bounds

Contents(s) == {s[i] : i \in DOMAIN s}

ASSUME GraphAssumption ==
  /\ Nodes \in Seq(Contents(Nodes)) /\ Items \in Seq(Contents(Items))
  /\ {NodeTokens, GraphTokens, GraphRequests, WallTime, ActiveRuns} \subseteq Nat \ {0}
  /\ {ContextItems, MaxCalls, BatchRequests, BatchTokens, RequestTokens} \subseteq Nat \ {0}
  /\ {MaxTick, MaxRuns} \subseteq Nat
  /\ Spoiling \cup Invalid \cup Oversized \subseteq Contents(Items)

VARIABLES
  tick,        \* the clock
  runs,        \* graph_runs with their graph_nodes, oldest first
  checkpoints, \* kinds in graph_checkpoints, for the one binding and input
  graph,       \* the runs that are executed, in memory
  spent,       \* tokens each run was charged by the provider (history)
  batch,       \* runIsolatedBatch; `faulted` is history: alone in a call that failed
  ledger,      \* the allocation of the dispatcher
  charged      \* tokens of the answers it took (history)

graphVars == <<tick, runs, checkpoints, graph, spent, batch, ledger, charged>>
batchVars == <<batch, ledger, charged>>

RunIds == DOMAIN runs
Overdue(r) == tick - runs[r].started >= WallTime

-----------------------------------------------------------------------------
(* A run of the graph                                                       *)

\* start: runs left behind are failed first, unless there are too many left.
StartGraph ==
  LET kept == {r \in RunIds : runs[r].state = "running" /\ ~Overdue(r)}
      next == Len(runs) + 1 IN
  /\ next <= MaxRuns /\ Cardinality(kept) < ActiveRuns
  /\ runs' = [r \in 1 .. next |->
       IF r = next THEN [state |-> "running", started |-> tick, tokens |-> 0,
                         requests |-> 0, nodes |-> << >>]
       ELSE IF r \in kept \/ runs[r].state # "running" THEN runs[r]
       ELSE [runs[r] EXCEPT !.state = "failed"]]
  /\ graph' = Append(graph, [pc |-> "next", cached |-> FALSE, used |-> 0])
  /\ spent' = Append(spent, 0)
  /\ UNCHANGED <<tick, checkpoints>> /\ UNCHANGED batchVars

GoesOn(r, pc) == graph' = [graph EXCEPT ![r].pc = pc]

\* The node whose turn it is, and the last one.
Turn(r) == Nodes[Len(runs[r].nodes) + 1]
LastNode(r) == Len(runs[r].nodes)
AllAsked(r) == LastNode(r) = Len(Nodes)

\* Faulty: only what is already counted is compared with the budget.
FitsSoFar(r, cap) == runs[r].tokens < GraphTokens

\* The caps of the node still fit the budget of its run.
Fits(r, cap) ==
  /\ runs[r].tokens + cap.tokens <= GraphTokens
  /\ runs[r].requests + cap.requests <= GraphRequests

\* reserveNode charges the caps before the node is asked.  Its checkpoint was
\* looked up before.
ReserveNode(r) ==
  /\ graph[r].pc = "next" /\ ~AllAsked(r)
  /\ \E cached \in BOOLEAN :
       LET cap == IF cached THEN [tokens |-> 0, requests |-> 0]
                            ELSE [tokens |-> NodeTokens, requests |-> 1] IN
       /\ cached => Turn(r) \in checkpoints
       /\ IF /\ runs[r].state = "running" /\ ~Overdue(r) /\ Fits(r, cap)
             /\ \A i \in DOMAIN runs[r].nodes : runs[r].nodes[i].state # "running"
          THEN /\ runs' = [runs EXCEPT
                    ![r].tokens = @ + cap.tokens, ![r].requests = @ + cap.requests,
                    ![r].nodes = Append(@, [kind |-> Turn(r), state |-> "running", cap |-> cap])]
               /\ graph' = [graph EXCEPT ![r] = [pc |-> IF cached THEN "answered" ELSE "asking",
                                                 cached |-> cached, used |-> 0]]
          ELSE GoesOn(r, "failing") /\ UNCHANGED runs
  /\ UNCHANGED <<tick, checkpoints, spent>> /\ UNCHANGED batchVars

\* The handler: what was used is within the cap, or the answer is refused; an
\* answer that comes after the wall time is not waited for, and is paid.
AskNode(r) ==
  /\ graph[r].pc = "asking"
  /\ \E used \in 0 .. runs[r].nodes[LastNode(r)].cap.tokens :
       /\ spent' = [spent EXCEPT ![r] = @ + used]
       /\ graph' = [graph EXCEPT ![r].pc = IF Overdue(r) THEN "failing" ELSE "answered",
                                 ![r].used = used]
  /\ UNCHANGED <<tick, runs, checkpoints>> /\ UNCHANGED batchVars

AskFails(r) ==
  /\ graph[r].pc = "asking" /\ GoesOn(r, "failing")
  /\ UNCHANGED <<tick, runs, checkpoints, spent>> /\ UNCHANGED batchVars

\* completeNode gives back what the cap allowed and the node did not use.
CompleteNode(r) ==
  LET node == runs[r].nodes[LastNode(r)] IN
  /\ graph[r].pc = "answered"
  /\ IF runs[r].state = "running" /\ ~Overdue(r)
     THEN /\ runs' = [runs EXCEPT
               ![r].nodes[LastNode(r)].state = "completed",
               ![r].tokens = @ - node.cap.tokens + graph[r].used,
               ![r].requests = @ - node.cap.requests + (IF graph[r].cached THEN 0 ELSE 1)]
          /\ GoesOn(r, IF graph[r].cached THEN "next" ELSE "completed")
     ELSE GoesOn(r, "failing") /\ UNCHANGED runs
  /\ UNCHANGED <<tick, checkpoints, spent>> /\ UNCHANGED batchVars

Checkpoint(r) ==
  /\ graph[r].pc = "completed"
  /\ checkpoints' = checkpoints \cup {runs[r].nodes[LastNode(r)].kind}
  /\ GoesOn(r, "next")
  /\ UNCHANGED <<tick, runs, spent>> /\ UNCHANGED batchVars

\* finish, once every node is completed, in time; a run that another start has
\* failed is left as it is.
FinishGraph(r) ==
  /\ \/ graph[r].pc = "failing"
     \/ graph[r].pc = "next" /\ AllAsked(r)
  /\ runs' = [runs EXCEPT ![r].state =
       IF @ # "running" THEN @
       ELSE IF graph[r].pc = "next" /\ ~Overdue(r) THEN "completed" ELSE "failed"]
  /\ GoesOn(r, "over")
  /\ UNCHANGED <<tick, checkpoints, spent>> /\ UNCHANGED batchVars

GraphStops(r) ==
  /\ graph[r].pc # "over" /\ GoesOn(r, "over")
  /\ UNCHANGED <<tick, runs, checkpoints, spent>> /\ UNCHANGED batchVars

Ticks ==
  /\ tick < MaxTick /\ tick' = tick + 1
  /\ UNCHANGED <<runs, checkpoints, graph, spent>> /\ UNCHANGED batchVars

GraphStep(r) ==
  \/ ReserveNode(r) \/ AskNode(r) \/ AskFails(r) \/ CompleteNode(r) \/ Checkpoint(r)
  \/ FinishGraph(r) \/ GraphStops(r)

-----------------------------------------------------------------------------
(* A batch                                                                  *)

Settle(group, outcome) ==
  [i \in DOMAIN batch.results |->
     IF i \in Contents(group) THEN outcome[i] ELSE batch.results[i]]
All(group, why) == [i \in Contents(group) |-> why]

\* Faulty: an odd item out is forgotten.
HalvesEven(group) ==
  LET middle == Len(group) \div 2
  IN <<SubSeq(group, 1, middle), SubSeq(group, middle + 1, 2 * middle)>>

Halves(group) ==
  LET middle == (Len(group) + 1) \div 2
  IN <<SubSeq(group, 1, middle), SubSeq(group, middle + 1, Len(group))>>

Pending == batch.groups # << >>
Group == Head(batch.groups)
TooLarge(group) == Len(group) > ContextItems \/ Contents(group) \cap Oversized # {}

\* The next items, as many as are alike and fit one request, or one alone.
TakeGroup ==
  /\ ~Pending
  /\ \E n \in 1 .. Len(batch.rest) :
       LET group == SubSeq(batch.rest, 1, n) IN
       /\ n > 1 => ~TooLarge(group)
       /\ batch' = [batch EXCEPT !.groups = <<group>>,
                                !.rest = SubSeq(@, n + 1, Len(@))]
  /\ UNCHANGED <<tick, runs, checkpoints, graph, spent, ledger, charged>>

\* Groups still to be run: this one is over, or is run again in halves; alone,
\* what spoiled it is to blame.
Over(outcome) == [batch EXCEPT !.groups = Tail(@), !.results = Settle(Group, outcome)]
Again(why) ==
  IF Len(Group) > 1 THEN [batch EXCEPT !.groups = Halves(Group) \o Tail(@)]
                    ELSE Over(All(Group, why))
Exhausted == batch.deferred # "none" \/ batch.calls >= MaxCalls
Put(why) == IF why = "none" THEN "budget_exhausted" ELSE why

PassGroup ==
  /\ Pending /\ Exhausted
  /\ batch' = Over(All(Group, Put(batch.deferred)))
  /\ UNCHANGED <<tick, runs, checkpoints, graph, spent, ledger, charged>>

\* What does not fit one request is split without a call.
SplitGroup ==
  /\ Pending /\ ~Exhausted /\ TooLarge(Group)
  /\ batch' = Again("context_pressure")
  /\ UNCHANGED <<tick, runs, checkpoints, graph, spent, ledger, charged>>

\* The wall time of the batch ends between two calls; one that it ends in is
\* among those deferred below.
WallTimeEnds ==
  /\ Pending /\ ~Exhausted
  /\ batch' = [batch EXCEPT !.deferred = "budget_exhausted"]
  /\ UNCHANGED <<tick, runs, checkpoints, graph, spent, ledger, charged>>

Sends == Pending /\ ~Exhausted /\ ~TooLarge(Group)
Allowance == IF RequestTokens < BatchTokens - ledger.tokens
             THEN RequestTokens ELSE BatchTokens - ledger.tokens
Funded == ledger.requests < BatchRequests /\ ledger.tokens < BatchTokens

\* A call that fails.  For want of quota, of time or of a route it defers all
\* that is left; for any other reason (a reservation gone stale, the database,
\* an answer out of bounds) its group is run again in halves, and an item that
\* was alone in it is blamed for it, whatever it is.
Defer(why) == [Over(All(Group, why)) EXCEPT !.calls = batch.calls + 1, !.deferred = why]
Fault == [Again("invalid_output") EXCEPT
            !.calls = batch.calls + 1,
            !.faulted = IF Len(Group) = 1 THEN @ \cup Contents(Group) ELSE @]
Failures == {Defer("budget_exhausted"), Defer("route_unavailable"), Fault}

\* Before it is sent: refused by the allocation of this dispatcher, or, when that
\* allows it, by the route or the quota of the installation, or failed.
NotDispatched ==
  /\ Sends
  /\ batch' \in IF Funded THEN Failures ELSE {Defer("budget_exhausted")}
  /\ UNCHANGED <<tick, runs, checkpoints, graph, spent, ledger, charged>>

\* Sent: its whole allowance is spent until the answer says otherwise.  One that
\* used more is refused, and uses the allocation up.
Unanswered ==
  /\ Sends /\ Funded /\ batch' \in Failures
  /\ \E used \in 0 .. Allowance : \E tokens \in {ledger.tokens + used, BatchTokens} :
       /\ ledger' = [requests |-> ledger.requests + 1, tokens |-> tokens]
       /\ charged' = charged + used
  /\ UNCHANGED <<tick, runs, checkpoints, graph, spent>>

\* An answer: used whole, or asked again in halves.  A used allowance is final.
Answered ==
  /\ Sends /\ Funded
  /\ \E used \in 0 .. Allowance :
       /\ ledger' = [requests |-> ledger.requests + 1, tokens |-> ledger.tokens + used]
       /\ charged' = charged + used
  /\ batch' = [ (IF Contents(Group) \cap Spoiling # {} THEN Again("invalid_output")
                 ELSE Over([i \in Contents(Group) |->
                        IF i \in Invalid THEN "invalid_output" ELSE "output"]))
                EXCEPT !.calls = batch.calls + 1 ]
  /\ UNCHANGED <<tick, runs, checkpoints, graph, spent>>

-----------------------------------------------------------------------------
GraphInit ==
  /\ tick = 0 /\ runs = << >> /\ checkpoints = {} /\ graph = << >> /\ spent = << >>
  /\ batch = [rest |-> Items, groups |-> << >>, results |-> All(Items, "none"),
              calls |-> 0, deferred |-> "none", faulted |-> {}]
  /\ ledger = [requests |-> 0, tokens |-> 0] /\ charged = 0

GraphNext == StartGraph \/ Ticks \/ \E r \in RunIds : GraphStep(r)

BatchNext ==
  \/ TakeGroup \/ PassGroup \/ SplitGroup \/ WallTimeEnds
  \/ NotDispatched \/ Unanswered \/ Answered

\* A run and a batch of one owner, at once.
GraphSpec == GraphInit /\ [][GraphNext \/ BatchNext]_graphVars

-----------------------------------------------------------------------------
(* Properties                                                               *)

GraphTypeOK ==
  /\ \A r \in RunIds :
       /\ runs[r].state \in {"running", "completed", "failed"}
       /\ runs[r].tokens \in 0 .. GraphTokens /\ runs[r].requests \in 0 .. GraphRequests
  /\ Len(graph) = Len(runs) /\ Len(spent) = Len(runs)
  /\ checkpoints \subseteq Contents(Nodes)
  /\ DOMAIN batch.results = Contents(Items)
  /\ ledger.tokens \in 0 .. BatchTokens /\ ledger.requests \in 0 .. BatchRequests

\* What a run is charged for the answers it takes, those that come too late
\* among them, and what a batch is, never exceed what was declared, however
\* nodes and calls fail, stop or are answered by a checkpoint.
WithinDeclaredBudget ==
  /\ \A r \in RunIds : spent[r] <= GraphTokens
  /\ charged <= BatchTokens

\* However a batch is split, every item gets a result.  None gets an output that
\* it spoils; and unless calls, time or quota ran out, one goes without only for
\* what it is itself, or because a call failed in which it was alone: an item is
\* never blamed for what it was sent with.
BatchIsolates ==
  (~Pending /\ batch.rest = << >>) => \A i \in Contents(Items) :
    LET marred == i \in Spoiling \cup Invalid \cup Oversized IN
    /\ batch.results[i] # "none"
    /\ batch.results[i] = "output" => ~marred
    /\ ~Exhausted /\ batch.results[i] # "output" => marred \/ i \in batch.faulted
=============================================================================
