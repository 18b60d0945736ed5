----------------------------- MODULE SubmitOnce ------------------------------
(***************************************************************************)
(* What the submission engine promises its owner, without tasks, leases,   *)
(* fences or workers (ADR-001 of docs/architecture.md): for each           *)
(* application the final button is pressed at most once, only after the    *)
(* intent has been recorded and the dispatch has been permitted; losing    *)
(* track of what happened makes the outcome uncertain, never open again;   *)
(* and an uncertain outcome may only be settled by a record the employer   *)
(* really holds.                                                           *)
(***************************************************************************)
EXTENDS Naturals

CONSTANT Apps

VARIABLES
  phase,   \* how far the application's submission has come
  acts,    \* how often its final button was pressed
  answer   \* what became of that at the employer

vars == <<phase, acts, answer>>

Phases == {"open", "recorded", "permitted", "uncertain", "confirmed", "rejected"}
Answers == {"none", "sent", "recorded", "rejected", "lost"}

Init ==
  /\ phase = [a \in Apps |-> "open"]
  /\ acts = [a \in Apps |-> 0]
  /\ answer = [a \in Apps |-> "none"]

\* How one application's submission may proceed: the intent is recorded, and
\* withdrawn or dispatched; a dispatched one is answered or becomes uncertain.
Steps ==
  { <<"open", "recorded">>, <<"recorded", "open">>, <<"recorded", "permitted">>,
    <<"permitted", "confirmed">>, <<"permitted", "rejected">>,
    <<"uncertain", "confirmed">> }

\* What the employer must have answered for the outcome to be settled.
Settled == [confirmed |-> "recorded", rejected |-> "rejected"]

Proceed(a) ==
  /\ <<phase[a], phase'[a]>> \in Steps
  /\ phase'[a] \in DOMAIN Settled => answer[a] = Settled[phase'[a]]
  /\ \A b \in Apps \ {a} : phase'[b] = phase[b]

\* A pause or a recovery may interrupt several applications at once.
Lose ==
  \A a \in Apps :
    phase'[a] # phase[a] =>
      phase[a] \in {"recorded", "permitted"} /\ phase'[a] = "uncertain"

\* Whoever was granted the permit may still use it after the outcome has been
\* given up as uncertain.
Act(a) ==
  /\ acts[a] = 0
  /\ acts' = [acts EXCEPT ![a] = 1]
  /\ phase[a] \in {"permitted", "uncertain"}
  /\ answer' = [answer EXCEPT ![a] = "sent"]

Reply(a) ==
  /\ answer[a] = "sent"
  /\ \E reply \in Answers \ {"none", "sent"} : answer' = [answer EXCEPT ![a] = reply]
  /\ UNCHANGED acts

Next ==
  \/ /\ phase' # phase
     /\ UNCHANGED <<acts, answer>>
     /\ Lose \/ \E a \in Apps : Proceed(a)
  \/ /\ \E a \in Apps : Act(a) \/ Reply(a)
     /\ UNCHANGED phase

Spec == Init /\ [][Next]_vars
=============================================================================
