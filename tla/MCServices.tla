------------------------------ MODULE MCServices ------------------------------
(***************************************************************************)
(* One instance of each of the components that share no state: a behaviour *)
(* is one of the component that `part` names, beside which the others      *)
(* stand still.                                                            *)
(***************************************************************************)
EXTENDS Handoffs, Inference, PreparationGraph, Discovery, Identities, Mailbox,
        Experiments, Recovery, Forms, Outcomes, TLC

CONSTANTS worker, api,           \* callers of models
          i1, i2, i3, i4, i5,    \* items of a batch
          j1, j2, j3             \* jobs

VARIABLE part

Parts == {"handoffs", "inference", "graph", "batch", "discovery", "identities",
          "mailbox", "experiments", "recovery", "forms", "outcomes"}
servicesVars == <<part, handoffVars, inferenceVars, graphVars, discoveryVars,
                  identityVars, mailVars, experimentVars, recoveryVars, formVars, outcomeVars>>

MCKindOf == worker :> "letter" @@ api :> "triage"
MCClassLimit == [semantic_triage |-> 2, packet_drafting |-> 1, independent_critique |-> 1,
                 repairs |-> 1]
MCNodes == <<"drafter", "critic">>
MCItems == <<i1, i2, i3, i4, i5>>
MCFeeds == {<<"a", "b">>, <<"b">>, <<>>}
MCMailOf == << << <<"m1">>, <<"m2">> >>, << <<"m2", "m3">> >>, << <<"m3">> >> >>

(* Every kind of portal, with forms small enough to enter in any order.     *)
Field(key, step, kind, required) ==
  [key |-> key, step |-> step, kind |-> kind, required |-> required, when |-> << >>]
Detail(step) == [Field("detail", step, "plain", TRUE) EXCEPT !.when = <<"visa", 2>>]
FormOf(fields, blocker) == [fields |-> fields, blocker |-> blocker]

SyntheticForm == {Field("name", 1, "plain", TRUE), Field("country", 1, "plain", TRUE),
                  Field("cv", 1, "file", TRUE), Field("visa", 2, "plain", TRUE), Detail(2)}
Fixtures == {"standard", "upload-fail", "resume-overwrite", "challenge", "disabled-submit",
             "implicit-submit", "response-loss", "validation-reject"}
Synthetic(fixture) ==
  [adapter |-> "mock", fixture |-> fixture, pinned |-> << >>,
   forms |-> IF fixture = "challenge"
             THEN <<FormOf(SyntheticForm, "challenge"), FormOf(SyntheticForm, "none")>>
             ELSE <<FormOf(SyntheticForm, "none")>>]

BoardForm == {Field("name", 1, "plain", TRUE), Field("cv", 1, "file", TRUE),
              Field("visa", 1, "plain", TRUE), Field("letter", 1, "plain", FALSE)}
Board ==
  [adapter |-> "greenhouse", fixture |-> "real", pinned |-> <<BoardForm, {}>>,
   forms |-> <<FormOf(BoardForm, "none"), FormOf(BoardForm, "challenge"),
               FormOf(BoardForm \cup {Detail(1)}, "none")>>]

OfferForm == {Field("name", 1, "plain", TRUE), Field("cv", 1, "file", TRUE),
              Field("visa", 1, "radio", TRUE), Field("letter", 1, "plain", TRUE)}
Offer ==
  [adapter |-> "recruitee", fixture |-> "real", pinned |-> << >>,
   forms |-> <<FormOf(OfferForm, "none"),
               FormOf(OfferForm \cup {Field("detail", 1, "alien", FALSE)}, "none"),
               FormOf(OfferForm, "unsupported")>>]

HostedForm == {Field("name", 1, "plain", TRUE)}
Hosted ==
  [adapter |-> "hosted", fixture |-> "real", pinned |-> << >>,
   forms |-> <<FormOf(HostedForm, "none"),
               FormOf(HostedForm \cup {Field("visa", 1, "plain", TRUE)}, "none")>>]

MCBacked == {"name", "cv", "letter"}
MCLimits == [country |-> 1, visa |-> 2, detail |-> 0]
MCPortals == {Synthetic(fixture) : fixture \in Fixtures} \cup {Board, Offer, Hosted}

\* An interview, and the receipt of the application, which came later.
MCReceivedAt == <<1, 2>>
MCClassified == <<"INTERVIEW", "RECEIVED">>
MCWindows == {<<0, 1>>}

ServicesInit ==
  /\ part \in Parts
  /\ HandoffInit /\ InferenceInit /\ GraphInit /\ DiscoveryInit /\ IdentitiesInit
  /\ MailInit /\ ExperimentsInit /\ RecoveryInit /\ FormsInit
  /\ OutcomesInit
  /\ part = "forms" \/ portal = Hosted
  /\ part = "discovery" \/ (feed = << >> /\ connector = "paged")

\* Those whose turn it is not.
OthersStand ==
  /\ part' = part
  /\ part # "handoffs" => UNCHANGED handoffVars
  /\ part # "inference" => UNCHANGED inferenceVars
  /\ part \notin {"graph", "batch"} => UNCHANGED graphVars
  /\ part # "discovery" => UNCHANGED discoveryVars
  /\ part # "identities" => UNCHANGED identityVars
  /\ part # "mailbox" => UNCHANGED mailVars
  /\ part # "experiments" => UNCHANGED experimentVars
  /\ part # "recovery" => UNCHANGED recoveryVars
  /\ part # "forms" => UNCHANGED formVars
  /\ part # "outcomes" => UNCHANGED outcomeVars

ServicesNext ==
  /\ OthersStand
  /\ \/ part = "handoffs" /\ HandoffNext
     \/ part = "inference" /\ InferenceNext
     \/ part = "graph" /\ GraphNext
     \/ part = "batch" /\ BatchNext
     \/ part = "discovery" /\ DiscoveryNext
     \/ part = "identities" /\ IdentitiesNext
     \/ part = "mailbox" /\ MailNext
     \/ part = "experiments" /\ ExperimentsNext
     \/ part = "recovery" /\ RecoveryNext
     \/ part = "forms" /\ FormsNext
     \/ part = "outcomes" /\ OutcomesNext

\* What tells two states apart: the others stand where they began.
Standing ==
  << part,
     CASE part = "handoffs" -> handoffVars
       [] part = "inference" -> inferenceVars
       [] part \in {"graph", "batch"} -> graphVars
       [] part = "discovery" -> discoveryVars
       [] part = "identities" -> identityVars
       [] part = "mailbox" -> mailVars
       [] part = "experiments" -> experimentVars
       [] part = "recovery" -> recoveryVars
       [] part = "forms" -> formVars
       [] part = "outcomes" -> outcomeVars >>

ServicesSpec == ServicesInit /\ [][ServicesNext]_servicesVars

\* The types of the component that takes its steps.
ServicesTypeOK ==
  CASE part = "handoffs" -> HandoffsTypeOK
    [] part = "inference" -> InferenceTypeOK
    [] part \in {"graph", "batch"} -> GraphTypeOK
    [] part = "discovery" -> DiscoveryTypeOK
    [] part = "identities" -> IdentitiesTypeOK
    [] part = "mailbox" -> ScanTypeOK
    [] part = "experiments" -> ExperimentsTypeOK
    [] part = "recovery" -> RecoveryTypeOK
    [] part = "forms" -> FormsTypeOK
    [] part = "outcomes" -> OutcomesTypeOK
=============================================================================
