------------------------------ MODULE Lifecycle ------------------------------
(***************************************************************************)
(* The lifecycle of one job application: its states and the transitions    *)
(* that packages/domain/src/state.ts permits.  Every repository that moves *)
(* an application through assertTransition consults this table; the ones   *)
(* that write a state with a plain UPDATE are noted where they do.         *)
(***************************************************************************)

ApplicationStates ==
  { "DISCOVERED", "NORMALIZED", "ASSESSED", "ELIGIBLE", "PREPARING",
    "PREPARED", "INSPECTING", "READY", "INTENT_RECORDED", "IN_FLIGHT",
    "UNKNOWN", "RECONCILING", "NEEDS_REVIEW", "CONFIRMED",
    "DEFINITIVE_FAILURE", "HISTORICAL_SUBMITTED", "SKIPPED", "CLOSED",
    "DUPLICATE", "NEEDS_INPUT", "CHALLENGE_REQUIRED", "UNSUPPORTED",
    "PAUSED", "RETRY_WAIT" }

\* Stages before a final action has been recorded: any of them may divert to
\* an exceptional state.
Precommit ==
  { "DISCOVERED", "NORMALIZED", "ASSESSED", "ELIGIBLE", "PREPARING",
    "PREPARED", "INSPECTING", "READY", "INTENT_RECORDED" }

Exceptional ==
  { "SKIPPED", "CLOSED", "DUPLICATE", "NEEDS_INPUT", "CHALLENGE_REQUIRED",
    "UNSUPPORTED", "PAUSED", "RETRY_WAIT" }

\* The transition table, as the set of permitted (from, to) pairs.
Transitions ==
  { <<"DISCOVERED", "NORMALIZED">>, <<"NORMALIZED", "ASSESSED">>,
    <<"ASSESSED", "ELIGIBLE">>, <<"ASSESSED", "SKIPPED">>,
    <<"ELIGIBLE", "PREPARING">>, <<"PREPARING", "PREPARED">>,
    <<"PREPARED", "INSPECTING">>, <<"INSPECTING", "READY">>,
    <<"READY", "INSPECTING">>, <<"READY", "INTENT_RECORDED">>,
    <<"INTENT_RECORDED", "IN_FLIGHT">>, <<"INTENT_RECORDED", "READY">>,
    <<"IN_FLIGHT", "CONFIRMED">>, <<"IN_FLIGHT", "DEFINITIVE_FAILURE">>,
    <<"IN_FLIGHT", "UNKNOWN">>, <<"IN_FLIGHT", "UNSUPPORTED">>,
    <<"UNKNOWN", "RECONCILING">>, <<"RECONCILING", "CONFIRMED">>,
    <<"RECONCILING", "NEEDS_REVIEW">>, <<"NEEDS_REVIEW", "RECONCILING">>,
    <<"DEFINITIVE_FAILURE", "INSPECTING">>, <<"NEEDS_INPUT", "ASSESSED">>,
    <<"NEEDS_INPUT", "INSPECTING">>, <<"UNSUPPORTED", "INSPECTING">>,
    <<"CHALLENGE_REQUIRED", "INSPECTING">>, <<"RETRY_WAIT", "NORMALIZED">>,
    <<"RETRY_WAIT", "PREPARING">>, <<"RETRY_WAIT", "INSPECTING">>,
    <<"PAUSED", "ASSESSED">>, <<"PAUSED", "INSPECTING">> }

\* assertTransition returns instead of throwing.
CanTransition(from, to) ==
  \/ <<from, to>> \in Transitions
  \/ from \in Precommit /\ to \in Exceptional

\* States in which an employer may already have been reached without a stored
\* receipt: a submit task found in one of them hands over to reconciliation.
Uncertain == { "IN_FLIGHT", "UNKNOWN", "RECONCILING", "NEEDS_REVIEW" }

\* States that no submit task may be claimed in.
Parked ==
  Uncertain \cup
  { "CONFIRMED", "HISTORICAL_SUBMITTED", "CLOSED", "SKIPPED", "DUPLICATE" }
=============================================================================
