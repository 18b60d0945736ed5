------------------------ MODULE EmployerAccountsProofs ------------------------
(***************************************************************************)
(* Proofs about EmployerAccounts, for any number of accounts, requests,    *)
(* mails, dispatchers and restores: every variable keeps its type, the     *)
(* signup of an account is posted at most once, an account in use is real, *)
(* and at most one of its links is opened, which a stop cuts short.        *)
(***************************************************************************)
EXTENDS EmployerAccounts, TLAPS

-----------------------------------------------------------------------------
(* Types                                                                    *)

\* A row of each kind keeps its shape under the updates the actions make.
LEMMA AttemptUpdates ==
  ASSUME NEW r \in AttemptRows
  PROVE  /\ \A s \in AttemptStates : [r EXCEPT !.state = s] \in AttemptRows
         /\ [r EXCEPT !.state = "IN_FLIGHT", !.dispatched = TRUE] \in AttemptRows
         /\ [r EXCEPT !.state = "UNKNOWN", !.fence = @ + 1] \in AttemptRows
         /\ \A n \in Nat : [state |-> "INTENT_RECORDED", fence |-> n, dispatched |-> FALSE]
                             \in AttemptRows
<1>1. \A s \in AttemptStates : [r EXCEPT !.state = s] \in AttemptRows
  BY DEF AttemptRows
<1>2. [r EXCEPT !.state = "IN_FLIGHT", !.dispatched = TRUE] \in AttemptRows
  BY DEF AttemptRows, AttemptStates
<1>3. [r EXCEPT !.state = "UNKNOWN", !.fence = @ + 1] \in AttemptRows
  <2>1. r.fence + 1 \in Nat
    BY DEF AttemptRows
  <2> QED
    BY <2>1 DEF AttemptRows, AttemptStates
<1>4. \A n \in Nat : [state |-> "INTENT_RECORDED", fence |-> n, dispatched |-> FALSE]
                             \in AttemptRows
  BY DEF AttemptRows, AttemptStates
<1> QED
  BY <1>1, <1>2, <1>3, <1>4

LEMMA LinkUpdates ==
  ASSUME NEW r \in LinkRows
  PROVE  /\ \A s \in LinkStates : [r EXCEPT !.state = s] \in LinkRows
         /\ [r EXCEPT !.expired = TRUE] \in LinkRows
BY DEF LinkRows, LinkStates

LEMMA CallUpdates ==
  ASSUME NEW r \in CallRecords
  PROVE  /\ \A pc \in {"keyed", "permitted", "posted", "accepted", "unproven"} :
               [r EXCEPT !.pc = pc] \in CallRecords
         /\ r.account \in Accounts /\ r.fence \in Nat
BY DEF CallRecords

LEMMA FollowUpdates ==
  ASSUME NEW r \in FollowRecords
  PROVE  /\ \A v \in Contents : LET n == [r EXCEPT !.pc = "get", !.rule = v]
                               IN  n \in FollowRecords /\ n.message = r.message
         /\ \A pc \in {"proven", "failed"} : LET n == [r EXCEPT !.pc = pc]
                                             IN  n \in FollowRecords /\ n.message = r.message
         /\ \A p \in Paths : r.hops < MaxHops =>
               LET n == [r EXCEPT !.pc = "hop", !.path = p, !.hops = @ + 1]
               IN  n \in FollowRecords /\ n.message = r.message
         /\ r.message \in Messages
<1>1. \A v \in Contents : LET n == [r EXCEPT !.pc = "get", !.rule = v]
                         IN  n \in FollowRecords /\ n.message = r.message
  BY DEF FollowRecords
<1>2. \A pc \in {"proven", "failed"} : LET n == [r EXCEPT !.pc = pc]
                                       IN  n \in FollowRecords /\ n.message = r.message
  BY DEF FollowRecords
<1>3. ASSUME NEW p \in Paths, r.hops < MaxHops
      PROVE  LET n == [r EXCEPT !.pc = "hop", !.path = p, !.hops = @ + 1]
             IN  n \in FollowRecords /\ n.message = r.message
  <2>1. r.hops + 1 \in 0..MaxHops
    BY <1>3, AccountsAssumption DEF FollowRecords
  <2> QED
    BY <2>1 DEF FollowRecords
<1>4. r.message \in Messages
  BY DEF FollowRecords
<1> QED
  BY <1>1, <1>2, <1>3, <1>4

LEMMA FollowStarts ==
  ASSUME NEW m \in Messages
  PROVE  LET r == [IdleFollow EXCEPT !.pc = "hop", !.message = m]
         IN  r \in FollowRecords /\ r.message = m
<1> DEFINE Idle == [pc : {"idle"}, message : {None}, path : Paths,
                    hops : 0..MaxHops, rule : Contents]
<1>1. IdleFollow \in Idle
  <2>1. 0 \in 0..MaxHops /\ "link" \in Paths /\ None \in Contents
    BY AccountsAssumption DEF Paths, Contents
  <2> QED
    BY <2>1 DEF IdleFollow
<1>2. ASSUME NEW q \in Idle
      PROVE  LET r == [q EXCEPT !.pc = "hop", !.message = m]
             IN  r \in FollowRecords /\ r.message = m
  BY DEF FollowRecords
<1> QED
  BY <1>1, <1>2

LEMMA RowIsNoStub == \A r \in LinkRows : r # NoLink
<1>1. \A r \in LinkRows : r.state \in LinkStates
  BY DEF LinkRows
<1>2. NoLink.state = "absent" /\ "absent" \notin LinkStates
  BY DEF NoLink, LinkStates
<1> QED
  BY <1>1, <1>2

\* Who is at work has a record of the other shape than the idle one.
LEMMA Busy ==
  ASSUME TypeOK
  PROVE  /\ \A c \in Calls : call[c].pc # "idle" =>
              call[c] \in CallRecords /\ call[c].account \in Accounts
         /\ \A f \in Followers : follow[f].pc # "idle" =>
              /\ follow[f] \in FollowRecords
              /\ link[follow[f].message] \in LinkRows
         /\ \A m \in Messages : link[m].state # "absent" => link[m] \in LinkRows
<1>1. IdleCall.pc = "idle" /\ IdleFollow.pc = "idle" /\ NoLink.state = "absent"
  BY DEF IdleCall, IdleFollow, NoLink
<1>2. \A f \in Followers : follow[f].pc # "idle" => follow[f] \in FollowRecords
  BY <1>1 DEF TypeOK
<1>3. \A r \in FollowRecords : r.message \in Messages /\ r # IdleFollow
  BY DEF FollowRecords, IdleFollow
<1>4. \A c \in Calls : call[c].pc # "idle" => call[c] \in CallRecords
  BY <1>1 DEF TypeOK
<1>5. \A r \in CallRecords : r.account \in Accounts
  BY DEF CallRecords
<1> QED
  BY <1>1, <1>2, <1>3, <1>4, <1>5 DEF TypeOK

LEMMA TypeInit == Init => TypeOK
<1> SUFFICES ASSUME Init PROVE TypeOK
  OBVIOUS
<1>1. attempt \in [Accounts -> AttemptRows]
  BY DEF Init, NoAttempt, AttemptRows, AttemptStates
<1>2. account \in [Accounts -> AccountStates] /\ rules \in [Employers -> [Paths -> Contents]]
  BY DEF Init, AccountStates, Contents
<1> QED
  BY <1>1, <1>2 DEF Init, TypeOK

\* Steps of signup requests.
LEMMA TypeSignup ==
  ASSUME TypeOK, NEW c \in Calls, SignupStep(c)
  PROVE  TypeOK'
<1> USE DEF TypeOK, historyVars, siteVars, rowVars
<1>1. ASSUME NEW a \in Accounts, BeginSignup(c, a) PROVE TypeOK'
  <2>1. nextFence' \in Nat /\ call' \in [Calls -> CallRecords \cup {IdleCall}]
    BY <1>1 DEF BeginSignup, CallRecords
  <2>2. attempt' \in [Accounts -> AttemptRows]
    BY <1>1, <2>1, AttemptUpdates DEF BeginSignup
  <2> QED
    BY <1>1, <2>1, <2>2 DEF BeginSignup
<1>2. CASE Credential(c)
  <2>1. call[c] \in CallRecords /\ call[c].account \in Accounts
    BY <1>2, Busy DEF Credential
  <2>2. \/ CallAt(c, "keyed") /\ UNCHANGED replied
        \/ Return(c)
    BY <1>2 DEF Credential
  <2>3. call' \in [Calls -> CallRecords \cup {IdleCall}]
    BY <2>2, <2>1, CallUpdates DEF CallAt, Return
  <2>4. replied' \subseteq Accounts
    BY <2>2, <2>1 DEF CallAt, Return
  <2> QED
    BY <1>2, <2>3, <2>4 DEF Credential
<1>3. CASE AuthorizeSignup(c)
  <2>1. call[c] \in CallRecords
    BY <1>3, Busy DEF AuthorizeSignup
  <2>2. call' \in [Calls -> CallRecords \cup {IdleCall}]
    BY <1>3, <2>1, CallUpdates DEF AuthorizeSignup, CallAt
  <2>3. attempt' \in [Accounts -> AttemptRows]
    <3>1. [attempt EXCEPT ![call[c].account].state = "IN_FLIGHT",
                          ![call[c].account].dispatched = TRUE]
            = [attempt EXCEPT ![call[c].account] =
                 [attempt[call[c].account] EXCEPT !.state = "IN_FLIGHT", !.dispatched = TRUE]]
      BY <2>1, CallUpdates DEF AttemptRows
    <3>2. attempt[call[c].account] \in AttemptRows
      BY <2>1, CallUpdates
    <3>3. [attempt[call[c].account] EXCEPT !.state = "IN_FLIGHT", !.dispatched = TRUE]
            \in AttemptRows
      BY <3>2, AttemptUpdates
    <3> QED
      BY <1>3, <3>1, <3>3 DEF AuthorizeSignup
  <2>4. account' \in [Accounts -> AccountStates]
    BY <1>3 DEF AuthorizeSignup, AccountStates
  <2> QED
    BY <1>3, <2>2, <2>3, <2>4 DEF AuthorizeSignup
<1>4. CASE PermitExpires(c) \/ Accepted(c) \/ Unproven(c)
  <2>1. call[c] \in CallRecords
    BY <1>4, Busy DEF PermitExpires, Accepted, Unproven
  <2>2. call' \in [Calls -> CallRecords \cup {IdleCall}]
    BY <1>4, <2>1, CallUpdates DEF PermitExpires, Accepted, Unproven, CallAt
  <2> QED
    BY <1>4, <2>2 DEF PermitExpires, Accepted, Unproven
<1>5. CASE Post(c)
  <2>1. call[c] \in CallRecords /\ call[c].account \in Accounts
    BY <1>5, Busy DEF Post
  <2>2. call' \in [Calls -> CallRecords \cup {IdleCall}]
    BY <1>5, <2>1, CallUpdates DEF Post, CallAt
  <2>3. posts' \in [Accounts -> Nat]
    <3>1. posts[call[c].account] + 1 \in Nat
      BY <2>1
    <3> QED
      BY <1>5, <3>1 DEF Post
  <2>4. registered' \subseteq Accounts /\ gated' \subseteq Accounts
    BY <1>5, <2>1, CallUpdates DEF Post
  <2> QED
    BY <1>5, <2>2, <2>3, <2>4 DEF Post
<1>6. CASE Malformed(c)
  <2>1. call[c] \in CallRecords
    BY <1>6, Busy DEF Malformed
  <2> QED
    BY <1>6, <2>1, CallUpdates DEF Malformed, Return
<1>7. ASSUME ConfirmSignup(c) \/ MarkSignupUnknown(c) PROVE TypeOK'
  <2>1. call[c] \in CallRecords
    BY <1>7, Busy DEF ConfirmSignup, MarkSignupUnknown
  <2>2. call' \in [Calls -> CallRecords \cup {IdleCall}] /\ replied' \subseteq Accounts
    BY <1>7, <2>1, CallUpdates DEF ConfirmSignup, MarkSignupUnknown, CallAt, Return
  <2>3. attempt' \in [Accounts -> AttemptRows]
    <3>1. \A s \in {"CONFIRMED", "UNKNOWN"} :
            [attempt EXCEPT ![call[c].account].state = s] \in [Accounts -> AttemptRows]
      BY <2>1, CallUpdates, AttemptUpdates DEF AttemptStates
    <3> QED
      BY <1>7, <3>1 DEF ConfirmSignup, MarkSignupUnknown, FinishSignup
  <2>4. account' \in [Accounts -> AccountStates]
    BY <1>7 DEF ConfirmSignup, MarkSignupUnknown, FinishSignup, SignedUp, AccountStates
  <2> QED
    BY <1>7, <2>2, <2>3, <2>4 DEF ConfirmSignup, MarkSignupUnknown
<1> QED
  BY <1>1, <1>2, <1>3, <1>4, <1>5, <1>6, <1>7 DEF SignupStep

\* What TypeOK says of the dispatchers.
Dispatchers ==
  /\ follow \in [Followers -> FollowRecords \cup {IdleFollow}]
  /\ \A f \in Followers : follow[f] # IdleFollow => link[follow[f].message] # NoLink

\* It outlives a step that forgets no link, and moves one dispatcher on with
\* its message, gives it one that has a link, or lets it rest.
LEMMA DispatcherMoves ==
  ASSUME TypeOK, NEW f \in Followers,
         \A m \in Messages : link[m] # NoLink => link'[m] # NoLink,
         \/ \E r \in FollowRecords : /\ follow' = [follow EXCEPT ![f] = r]
                                    /\ link'[r.message] # NoLink
         \/ follow' = [follow EXCEPT ![f] = IdleFollow]
         \/ follow' = follow
  PROVE  Dispatchers'
<1>1. follow' \in [Followers -> FollowRecords \cup {IdleFollow}]
  BY DEF TypeOK
<1>2. \A g \in Followers : follow[g] # IdleFollow => follow[g].message \in Messages
  BY FollowUpdates DEF TypeOK
<1>3. ASSUME NEW g \in Followers, follow'[g] # IdleFollow
      PROVE  link'[follow'[g].message] # NoLink
  <2>1. CASE follow'[g] = follow[g]
    BY <1>2, <1>3, <2>1 DEF TypeOK
  <2>2. CASE follow'[g] # follow[g]
    BY <1>3, <2>2 DEF TypeOK
  <2> QED
    BY <2>1, <2>2
<1> QED
  BY <1>1, <1>3 DEF Dispatchers

\* Steps of the link dispatchers.
LEMMA TypeFollow ==
  ASSUME TypeOK, NEW f \in Followers, FollowStep(f)
  PROVE  TypeOK'
<1> USE DEF TypeOK, historyVars, siteVars, rowVars
<1>1. ASSUME NEW m \in Messages, BeginLink(f, m) PROVE TypeOK'
  <2>1. link[m] \in LinkRows
    BY <1>1, Busy DEF BeginLink, InContext
  <2>2. [link[m] EXCEPT !.state = "in_flight"] \in LinkRows
    BY <2>1, LinkUpdates DEF LinkStates
  <2>3. link' = [link EXCEPT ![m] = [link[m] EXCEPT !.state = "in_flight"]]
    BY <1>1 DEF BeginLink
  <2>4. /\ link' \in [Messages -> LinkRows \cup {NoLink}]
        /\ \A n \in Messages : link[n] # NoLink => link'[n] # NoLink
        /\ link'[m] # NoLink
    BY <2>2, <2>3, RowIsNoStub
  <2>5. \E r \in FollowRecords : /\ follow' = [follow EXCEPT ![f] = r]
                                /\ link'[r.message] # NoLink
    <3> DEFINE r == [IdleFollow EXCEPT !.pc = "hop", !.message = m]
    <3>1. r \in FollowRecords /\ r.message = m
      BY FollowStarts
    <3>2. follow' = [follow EXCEPT ![f] = r]
      BY <1>1 DEF BeginLink
    <3> HIDE DEF r
    <3> QED
      BY <2>4, <3>1, <3>2
  <2>6. Dispatchers'
    BY <2>4, <2>5, DispatcherMoves
  <2> QED
    BY <1>1, <2>4, <2>6 DEF BeginLink, Dispatchers
<1>2. CASE Destination(f)
  <2>1. follow[f] \in FollowRecords /\ link[follow[f].message] \in LinkRows
    BY <1>2, Busy DEF Destination
  <2> DEFINE v == rules[EmployerOf[link[follow[f].message].account]][follow[f].path]
             get == [follow[f] EXCEPT !.pc = "get", !.rule = v]
             failed == [follow[f] EXCEPT !.pc = "failed"]
  <2>2. v \in Contents
    <3>1. /\ EmployerOf[link[follow[f].message].account] \in Employers
          /\ follow[f].path \in Paths
      BY <2>1, AccountsAssumption DEF LinkRows, FollowRecords
    <3> QED
      BY <3>1
  <2>3. \/ follow' = [follow EXCEPT ![f] = get]
        \/ follow' = [follow EXCEPT ![f] = failed]
    BY <1>2 DEF Destination
  <2>4. /\ get \in FollowRecords /\ get.message = follow[f].message
        /\ failed \in FollowRecords /\ failed.message = follow[f].message
    BY <2>1, <2>2, FollowUpdates
  <2>5. link[follow[f].message] # NoLink /\ link' = link
    BY <1>2, <2>1, RowIsNoStub DEF Destination
  <2> HIDE DEF get, failed
  <2>6. Dispatchers'
    BY <2>3, <2>4, <2>5, DispatcherMoves
  <2> QED
    BY <1>2, <2>6 DEF Destination, Dispatchers
<1>3. CASE Get(f)
  <2> DEFINE m == follow[f].message
             to(p) == [follow[f] EXCEPT !.pc = "hop", !.path = p, !.hops = @ + 1]
             proven == [follow[f] EXCEPT !.pc = "proven"]
             failed == [follow[f] EXCEPT !.pc = "failed"]
  <2>1. follow[f] \in FollowRecords /\ link[m] \in LinkRows
    BY <1>3, Busy DEF Get
  <2>2. m \in Messages /\ link[m].account \in Accounts
    BY <2>1, FollowUpdates DEF LinkRows
  <2>3. opened' \subseteq Messages \X Accounts /\ verified' \subseteq Accounts
    <3>1. opened' = opened \cup {<<m, link[m].account>>}
      BY <1>3 DEF Get
    <3>2. <<m, link[m].account>> \in Messages \X Accounts
      BY <2>2
    <3>3. verified' = verified \/ verified' = verified \cup {link[m].account}
      BY <1>3 DEF Get
    <3> QED
      BY <2>2, <3>1, <3>2, <3>3
  <2>4. late' \in [Messages -> Nat]
    <3>1. late[m] + 1 \in Nat
      BY <2>2
    <3> QED
      BY <1>3, <3>1 DEF Get
  <2>5. link[m] # NoLink /\ link' = link
    BY <1>3, <2>1, RowIsNoStub DEF Get
  <2>6. \E r \in FollowRecords : follow' = [follow EXCEPT ![f] = r] /\ r.message = m
    <3>1. CASE /\ follow[f].hops < MaxHops
               /\ \E p \in Paths : follow' =
                    [follow EXCEPT ![f].pc = "hop", ![f].path = p, ![f].hops = @ + 1]
      <4>1. PICK p \in Paths : follow' =
                    [follow EXCEPT ![f].pc = "hop", ![f].path = p, ![f].hops = @ + 1]
        BY <3>1
      <4>2. follow' = [follow EXCEPT ![f] = to(p)]
        BY <2>1, <4>1 DEF FollowRecords
      <4>3. to(p) \in FollowRecords /\ to(p).message = m
        BY <2>1, <3>1, FollowUpdates
      <4> QED
        BY <4>2, <4>3
    <3>2. CASE \/ follow' = [follow EXCEPT ![f] = proven]
               \/ follow' = [follow EXCEPT ![f] = failed]
      BY <2>1, <3>2, FollowUpdates
    <3> QED
      BY <1>3, <3>1, <3>2 DEF Get
  <2>7. Dispatchers'
    BY <2>5, <2>6, DispatcherMoves
  <2> QED
    BY <1>3, <2>3, <2>4, <2>7 DEF Get, Dispatchers
<1>4. CASE Verify(f)
  <2> DEFINE m == follow[f].message
  <2>1. follow[f] \in FollowRecords /\ link[m] \in LinkRows
    BY <1>4, Busy DEF Verify
  <2>2. [link[m] EXCEPT !.state = "verified"] \in LinkRows
    BY <2>1, LinkUpdates DEF LinkStates
  <2>3. link' = [link EXCEPT ![m] = [link[m] EXCEPT !.state = "verified"]]
    BY <1>4 DEF Verify
  <2>4. /\ link' \in [Messages -> LinkRows \cup {NoLink}]
        /\ \A n \in Messages : link[n] # NoLink => link'[n] # NoLink
    BY <2>2, <2>3, RowIsNoStub
  <2>5. Dispatchers'
    BY <1>4, <2>4, DispatcherMoves DEF Verify
  <2>6. account' \in [Accounts -> AccountStates]
    BY <1>4 DEF Verify, AccountStates
  <2> QED
    BY <1>4, <2>4, <2>5, <2>6 DEF Verify, Dispatchers
<1>5. CASE Unverified(f)
  <2> DEFINE failed == [follow[f] EXCEPT !.pc = "failed"]
  <2>1. follow[f] \in FollowRecords /\ link[follow[f].message] \in LinkRows
    BY <1>5, Busy DEF Unverified
  <2>2. failed \in FollowRecords /\ failed.message = follow[f].message
    BY <2>1, FollowUpdates
  <2>3. /\ link[follow[f].message] # NoLink /\ link' = link
        /\ follow' = [follow EXCEPT ![f] = failed]
    BY <1>5, <2>1, RowIsNoStub DEF Unverified
  <2> HIDE DEF failed
  <2>4. Dispatchers'
    BY <2>2, <2>3, DispatcherMoves
  <2> QED
    BY <1>5, <2>4 DEF Unverified, Dispatchers
<1>6. CASE LinkFails(f)
  <2> DEFINE m == follow[f].message
             row == [link[m] EXCEPT !.state = IF @ = "in_flight" THEN "unknown" ELSE @]
  <2>1. follow[f] \in FollowRecords /\ link[m] \in LinkRows
    BY <1>6, Busy DEF LinkFails
  <2>2. row \in LinkRows
    <3>1. (IF link[m].state = "in_flight" THEN "unknown" ELSE link[m].state) \in LinkStates
      BY <2>1 DEF LinkRows, LinkStates
    <3> QED
      BY <2>1, <3>1, LinkUpdates
  <2>3. link' = [link EXCEPT ![m] = row]
    BY <1>6 DEF LinkFails
  <2> HIDE DEF row
  <2>4. /\ link' \in [Messages -> LinkRows \cup {NoLink}]
        /\ \A n \in Messages : link[n] # NoLink => link'[n] # NoLink
    BY <2>2, <2>3, RowIsNoStub
  <2>5. Dispatchers'
    BY <1>6, <2>4, DispatcherMoves DEF LinkFails
  <2> QED
    BY <1>6, <2>4, <2>5 DEF LinkFails, Dispatchers
<1> QED
  BY <1>1, <1>2, <1>3, <1>4, <1>5, <1>6 DEF FollowStep

\* Steps of the owner and of the mails.
LEMMA TypeOwner ==
  ASSUME TypeOK, OwnerStep
  PROVE  TypeOK'
<1> USE DEF TypeOK, historyVars, siteVars, rowVars
<1>1. CASE Control
  <2>1. late' \in [Messages -> Nat]
    BY <1>1 DEF Control, Reopen
  <2>2. changes' \in Nat
    BY <1>1 DEF Control, Change
  <2>3. /\ stopped' = stopped \/ stopped' = ~stopped
        /\ granted' = granted \/ granted' = ~granted
        /\ restoreBlocked' = restoreBlocked \/ restoreBlocked' = FALSE
    BY <1>1, Zenon DEF Control
  <2>4. stopped' \in BOOLEAN
    BY <2>3
  <2>5. granted' \in BOOLEAN
    BY <2>3
  <2>6. restoreBlocked' \in BOOLEAN
    BY <2>3
  <2> QED
    BY <1>1, <2>1, <2>2, <2>4, <2>5, <2>6 DEF Control
<1>2. ASSUME NEW e \in Employers, NEW p \in Paths, ApproveRule(e, p) \/ RemoveRule(e, p)
      PROVE  TypeOK'
  <2>1. \E v \in Contents : rules' = [rules EXCEPT ![e][p] = v]
    BY <1>2 DEF ApproveRule, RemoveRule, Contents
  <2>2. rules' \in [Employers -> [Paths -> Contents]]
    BY <2>1
  <2>3. changes' \in Nat
    BY <1>2 DEF ApproveRule, RemoveRule, Change
  <2> QED
    BY <1>2, <2>2, <2>3 DEF ApproveRule, RemoveRule
<1>3. ASSUME NEW a \in Accounts, Prepare(a) \/ Recover(a) PROVE TypeOK'
  <2>1. account' \in [Accounts -> AccountStates]
    BY <1>3 DEF Prepare, Recover, AccountStates
  <2>2. used' \subseteq Accounts /\ attested' \subseteq Accounts
    BY <1>3 DEF Prepare, Recover
  <2> QED
    BY <1>3, <2>1, <2>2 DEF Prepare, Recover
<1> QED
  BY <1>1, <1>2, <1>3 DEF OwnerStep

LEMMA TypeMail ==
  ASSUME TypeOK, NEW m \in Messages,
         LinkExpires(m) \/ \E a \in Accounts : CaptureVerification(m, a)
  PROVE  TypeOK'
<1> USE DEF TypeOK, historyVars, siteVars, rowVars
<1>1. \E r \in LinkRows : link' = [link EXCEPT ![m] = r]
  <2>1. CASE LinkExpires(m)
    <3>1. link[m] \in LinkRows
      BY <2>1, Busy DEF LinkExpires
    <3> QED
      BY <2>1, <3>1, LinkUpdates DEF LinkExpires
  <2>2. ASSUME NEW a \in Accounts, CaptureVerification(m, a)
        PROVE  \E r \in LinkRows : link' = [link EXCEPT ![m] = r]
    <3> DEFINE r == [state |-> "pending", account |-> a, expired |-> FALSE,
                     rule |-> rules[EmployerOf[a]]["link"]]
    <3>1. rules[EmployerOf[a]]["link"] \in Versions
      BY <2>2, AccountsAssumption DEF CaptureVerification, Contents, Paths
    <3>2. r \in LinkRows
      BY <3>1 DEF LinkRows, LinkStates
    <3>3. link' = [link EXCEPT ![m] = r]
      BY <2>2 DEF CaptureVerification
    <3> QED
      BY <3>2, <3>3
  <2> QED
    BY <2>1, <2>2
<1>2. /\ link' \in [Messages -> LinkRows \cup {NoLink}]
      /\ \A n \in Messages : link[n] # NoLink => link'[n] # NoLink
  BY <1>1, RowIsNoStub
<1>3. /\ UNCHANGED <<account, attempt, rules, granted, stopped, restoreBlocked, nextFence>>
      /\ UNCHANGED <<backup, call, follow, siteVars, historyVars>>
  BY DEF LinkExpires, CaptureVerification
<1>4. \A f \in Followers : follow'[f] # IdleFollow => link'[follow'[f].message] # NoLink
  BY <1>2, <1>3, FollowUpdates
<1> QED
  BY <1>2, <1>3, <1>4

\* A stop of the processes, a backup or a restore.
LEMMA TypeOutage ==
  ASSUME TypeOK, Crash \/ Backup \/ \E d \in backup : Restore(d)
  PROVE  TypeOK'
<1> USE DEF TypeOK, historyVars, siteVars, rowVars
<1>1. ASSUME Nobody
      PROVE  /\ call' \in [Calls -> CallRecords \cup {IdleCall}]
             /\ follow' = [f \in Followers |-> IdleFollow]
  BY <1>1 DEF Nobody
<1>2. CASE Crash
  BY <1>1, <1>2 DEF Crash
<1>3. CASE Backup
  <2>1. Database \in Databases
    BY DEF Database, Databases
  <2> QED
    BY <1>3, <2>1 DEF Backup
<1>4. ASSUME NEW d \in backup, Restore(d) PROVE TypeOK'
  <2>1. /\ d.account \in [Accounts -> AccountStates]
        /\ d.attempt \in [Accounts -> AttemptRows]
        /\ d.link \in [Messages -> LinkRows \cup {NoLink}]
        /\ d.rules \in [Employers -> [Paths -> Contents]]
        /\ d.granted \in BOOLEAN /\ d.stopped \in BOOLEAN /\ d.nextFence \in Nat
    BY DEF Databases
  <2>2. account' \in [Accounts -> AccountStates]
    BY <1>4, <2>1 DEF Restore, Block, Revoked, AccountStates
  <2>3. attempt' \in [Accounts -> AttemptRows]
    BY <1>4, <2>1, AttemptUpdates DEF Restore, Block
  <2>4. link' \in [Messages -> LinkRows \cup {NoLink}]
    <3>1. \A m \in Messages : d.link[m].state \in {"pending", "in_flight"} =>
            [d.link[m] EXCEPT !.state = "unknown"] \in LinkRows
      <4>1. NoLink.state = "absent"
        BY DEF NoLink
      <4>2. \A m \in Messages : d.link[m].state \in {"pending", "in_flight"} =>
              d.link[m] \in LinkRows
        BY <2>1, <4>1
      <4> QED
        BY <4>2, LinkUpdates DEF LinkStates
    <3> QED
      BY <1>4, <2>1, <3>1 DEF Restore, Block
  <2>5. /\ rules' \in [Employers -> [Paths -> Contents]]
        /\ nextFence' \in Nat /\ restores' \in Nat
    <3>1. rules' = d.rules /\ nextFence' = d.nextFence /\ restores' = restores + 1
      BY <1>4 DEF Restore, Block
    <3> QED
      BY <2>1, <3>1
  <2>6. granted' \in BOOLEAN /\ stopped' \in BOOLEAN /\ restoreBlocked' \in BOOLEAN
    BY <1>4, <2>1, Zenon DEF Restore, Block
  <2>7. UNCHANGED <<backup, siteVars, posts, opened, late, used, attested, replied, changes>>
    BY <1>4 DEF Restore
  <2>8. /\ call' \in [Calls -> CallRecords \cup {IdleCall}]
        /\ follow' = [f \in Followers |-> IdleFollow]
    BY <1>1, <1>4 DEF Restore
  <2> QED
    BY <2>8, <2>2, <2>3, <2>4, <2>5, <2>6, <2>7
<1> QED
  BY <1>2, <1>3, <1>4

\* Rows, copies of the database, and requests in memory keep their types.
THEOREM AccountsTypeCorrect == Spec => []TypeOK
<1>1. TypeOK /\ [Next]_accountVars => TypeOK'
  <2> SUFFICES ASSUME TypeOK, [Next]_accountVars PROVE TypeOK'
    OBVIOUS
  <2>1. CASE Next
    BY <2>1, TypeSignup, TypeFollow, TypeOwner, TypeMail, TypeOutage DEF Next
  <2>2. CASE UNCHANGED accountVars
    BY <2>2 DEF accountVars, rowVars, siteVars, historyVars, TypeOK
  <2> QED
    BY <2>1, <2>2
<1> QED
  BY TypeInit, <1>1, PTL DEF Spec

-----------------------------------------------------------------------------
(* One signup per account                                                   *)

\* The permit to post for an account is held by at most one request, which
\* has not posted; an account that may be signed up has no such request and
\* was never posted for, and an id never handed out neither.
Holds(c, a) == call[c].pc = "permitted" /\ call[c].account = a
Fresh(a) == posts[a] = 0 /\ \A c \in Calls : ~Holds(c, a)

SignupInv ==
  /\ \A a \in Accounts : posts[a] <= 1
  /\ \A a \in Accounts : account[a] = "prepared" \/ a \notin used => Fresh(a)
  /\ \A a \in Accounts, c \in Calls : Holds(c, a) => posts[a] = 0
  /\ \A a \in Accounts, c, d \in Calls : Holds(c, a) /\ Holds(d, a) => c = d

\* A step that posts nothing, gives no permit and prepares no account.
LEMMA SignupFrame ==
  ASSUME TypeOK, SignupInv,
         posts' = posts,
         \A a \in Accounts : account'[a] = "prepared" => account[a] = "prepared",
         used \subseteq used',
         \A c \in Calls : call'[c].pc = "permitted" => call'[c] = call[c]
  PROVE  SignupInv'
<1>1. \A c \in Calls, a \in Accounts : Holds(c, a)' => Holds(c, a)
  BY DEF Holds
<1>2. \A a \in Accounts : Fresh(a) => Fresh(a)'
  BY <1>1 DEF Fresh
<1> QED
  BY <1>1, <1>2 DEF SignupInv

\* The accounts a database or a copy knows have their ids from prepare.
Known ==
  /\ \A a \in Accounts : account[a] # "absent" => a \in used
  /\ \A d \in backup, a \in Accounts : d.account[a] # "absent" => a \in used

LEMMA SignupInit == Init => SignupInv
BY DEF Init, SignupInv, Fresh, Holds, IdleCall

LEMMA SignupStepKeeps ==
  ASSUME TypeOK, SignupInv, Known, NEW c \in Calls, SignupStep(c)
  PROVE  SignupInv'
<1>1. ASSUME NEW a \in Accounts, BeginSignup(c, a) PROVE SignupInv'
  <2>1. call'[c].pc = "begun" /\ \A d \in Calls \ {c} : call'[d] = call[d]
    BY <1>1 DEF BeginSignup, TypeOK
  <2> QED
    BY <1>1, <2>1, SignupFrame DEF BeginSignup, historyVars
<1>2. CASE \/ Credential(c) \/ PermitExpires(c) \/ Accepted(c) \/ Unproven(c)
           \/ Malformed(c)
  <2>1. /\ call'[c].pc # "permitted"
        /\ \A d \in Calls \ {c} : call'[d] = call[d]
    <3>1. \/ \E pc \in {"keyed", "accepted", "unproven"} : CallAt(c, pc)
          \/ Return(c)
      BY <1>2 DEF Credential, PermitExpires, Accepted, Unproven, Malformed
    <3>2. call[c] \in CallRecords
      BY <1>2, Busy DEF Credential, PermitExpires, Accepted, Unproven, Malformed
    <3> QED
      BY <3>1, <3>2 DEF CallAt, Return, TypeOK, IdleCall, CallRecords
  <2>2. posts' = posts /\ account' = account /\ used' = used
    BY <1>2 DEF Credential, PermitExpires, Accepted, Unproven, Malformed,
                rowVars, historyVars
  <2> QED
    BY <2>1, <2>2, SignupFrame
<1>3. CASE AuthorizeSignup(c)
  <2> DEFINE a == call[c].account
  <2>1. call[c] \in CallRecords /\ a \in Accounts
    BY <1>3, Busy DEF AuthorizeSignup
  <2>2. posts' = posts /\ used' = used
    BY <1>3 DEF AuthorizeSignup, historyVars
  <2>3. CASE Dispatchable(c)
    <3>1. Fresh(a)
      BY <2>1, <2>3 DEF Dispatchable, SignupInv
    <3>2. /\ call'[c].pc = "permitted" /\ call'[c].account = a
          /\ \A d \in Calls \ {c} : call'[d] = call[d]
      BY <1>3, <2>1, <2>3 DEF AuthorizeSignup, CallAt, TypeOK, CallRecords
    <3>3. /\ account'[a] = "signup_in_flight"
          /\ \A b \in Accounts \ {a} : account'[b] = account[b]
      BY <1>3, <2>1, <2>3 DEF AuthorizeSignup, TypeOK
    <3>4. a \in used
      BY <2>1, <2>3 DEF Dispatchable, Known
    <3>5. \A b \in Accounts \ {a}, d \in Calls : Holds(d, b)' <=> Holds(d, b)
      BY <1>3, <3>2 DEF Holds, AuthorizeSignup
    <3>6. \A b \in Accounts, d \in Calls : b = a /\ Holds(d, b)' => d = c
      BY <3>1, <3>2 DEF Holds, Fresh
    <3>7. \A b \in Accounts \ {a} : Fresh(b) => Fresh(b)'
      BY <2>2, <3>5 DEF Fresh
    <3>8. \A b \in Accounts : account'[b] = "prepared" \/ b \notin used' => Fresh(b)'
      BY <2>2, <3>3, <3>4, <3>7 DEF SignupInv
    <3>9. \A b \in Accounts, d \in Calls : Holds(d, b)' => posts'[b] = 0
      BY <2>2, <3>1, <3>5 DEF SignupInv, Fresh
    <3>10. \A b \in Accounts, d, e \in Calls : Holds(d, b)' /\ Holds(e, b)' => d = e
      BY <3>5, <3>6 DEF SignupInv
    <3> QED
      BY <2>2, <3>8, <3>9, <3>10 DEF SignupInv
  <2>4. CASE ~Dispatchable(c)
    <3>1. /\ call'[c].pc # "permitted" /\ account' = account
          /\ \A d \in Calls \ {c} : call'[d] = call[d]
      BY <1>3, <2>1, <2>4 DEF AuthorizeSignup, CallAt, TypeOK, CallRecords
    <3> QED
      BY <2>2, <3>1, SignupFrame
  <2> QED
    BY <2>3, <2>4
<1>4. CASE Post(c)
  <2> DEFINE a == call[c].account
  <2>1. call[c] \in CallRecords /\ a \in Accounts /\ Holds(c, a)
    BY <1>4, Busy DEF Post, Holds
  <2>2. /\ call'[c].pc = "posted" /\ call'[c].account = a
        /\ \A d \in Calls \ {c} : call'[d] = call[d]
    BY <1>4, <2>1 DEF Post, CallAt, TypeOK, CallRecords
  <2>3. posts[a] = 0 /\ posts'[a] = 1 /\ \A b \in Accounts \ {a} : posts'[b] = posts[b]
    BY <1>4, <2>1 DEF Post, TypeOK, SignupInv
  <2>4. account' = account /\ used' = used
    BY <1>4 DEF Post, rowVars
  <2>5. account[a] # "prepared" /\ a \in used
    BY <2>1 DEF SignupInv, Fresh
  <2>6. \A b \in Accounts, d \in Calls : b = a => ~Holds(d, b)'
    BY <2>1, <2>2 DEF SignupInv, Holds
  <2>7. \A b \in Accounts \ {a}, d \in Calls : Holds(d, b)' => Holds(d, b)
    BY <2>2 DEF Holds
  <2>8. \A b \in Accounts \ {a} : Fresh(b) => Fresh(b)'
    BY <2>3, <2>7 DEF Fresh
  <2>9. \A b \in Accounts : account'[b] = "prepared" \/ b \notin used' => Fresh(b)'
    BY <2>4, <2>5, <2>8 DEF SignupInv
  <2>10. \A b \in Accounts, d \in Calls : Holds(d, b)' => posts'[b] = 0
    BY <2>3, <2>6, <2>7 DEF SignupInv
  <2>11. \A b \in Accounts, d, e \in Calls : Holds(d, b)' /\ Holds(e, b)' => d = e
    BY <2>6, <2>7 DEF SignupInv
  <2>12. \A b \in Accounts : posts'[b] <= 1
    BY <2>3 DEF SignupInv
  <2> QED
    BY <2>9, <2>10, <2>11, <2>12 DEF SignupInv
<1>5. CASE ConfirmSignup(c) \/ MarkSignupUnknown(c)
  <2>1. call[c] \in CallRecords
    BY <1>5, Busy DEF ConfirmSignup, MarkSignupUnknown
  <2>2. /\ call'[c].pc # "permitted"
        /\ \A d \in Calls \ {c} : call'[d] = call[d]
    BY <1>5, <2>1 DEF ConfirmSignup, MarkSignupUnknown, CallAt, Return, TypeOK, IdleCall,
                      CallRecords
  <2>3. posts' = posts /\ used' = used
    BY <1>5 DEF ConfirmSignup, MarkSignupUnknown
  <2>4. \A a \in Accounts : account'[a] = "prepared" => account[a] = "prepared"
    BY <1>5 DEF ConfirmSignup, MarkSignupUnknown, FinishSignup, SignedUp, TypeOK
  <2> QED
    BY <2>2, <2>3, <2>4, SignupFrame
<1> QED
  BY <1>1, <1>2, <1>3, <1>4, <1>5 DEF SignupStep

\* Handing out an id, and nothing else, makes an account one to sign up.
LEMMA OwnerKeeps ==
  ASSUME TypeOK, SignupInv, Known, OwnerStep
  PROVE  SignupInv'
<1>1. CASE Control \/ \E e \in Employers, p \in Paths : ApproveRule(e, p) \/ RemoveRule(e, p)
  <2>1. posts' = posts /\ account' = account /\ used' = used /\ call' = call
    BY <1>1 DEF Control, ApproveRule, RemoveRule
  <2> QED
    BY <2>1, SignupFrame
<1>2. ASSUME NEW a \in Accounts, Prepare(a) PROVE SignupInv'
  <2>1. /\ a \notin used /\ used' = used \cup {a} /\ posts' = posts /\ call' = call
        /\ \A b \in Accounts \ {a} : account'[b] = account[b]
    BY <1>2 DEF Prepare, TypeOK
  <2>2. \A b \in Accounts : Fresh(b) => Fresh(b)'
    BY <2>1 DEF Fresh, Holds
  <2>3. Fresh(a)
    BY <2>1 DEF SignupInv
  <2>4. \A b \in Accounts : account'[b] = "prepared" \/ b \notin used' => Fresh(b)'
    BY <2>1, <2>2, <2>3 DEF SignupInv
  <2> QED
    BY <2>1, <2>4 DEF SignupInv, Holds
<1>3. ASSUME NEW a \in Accounts, Recover(a) PROVE SignupInv'
  <2>1. posts' = posts /\ used' = used /\ call' = call
    BY <1>3 DEF Recover
  <2>2. \A b \in Accounts : account'[b] = "prepared" => account[b] = "prepared"
    BY <1>3 DEF Recover, TypeOK
  <2> QED
    BY <2>1, <2>2, SignupFrame
<1> QED
  BY <1>1, <1>2, <1>3 DEF OwnerStep

LEMMA OthersKeep ==
  ASSUME TypeOK, SignupInv,
         \/ \E f \in Followers : FollowStep(f)
         \/ \E m \in Messages : LinkExpires(m) \/ \E a \in Accounts : CaptureVerification(m, a)
         \/ Crash \/ Backup \/ \E d \in backup : Restore(d)
  PROVE  SignupInv'
<1>1. ASSUME NEW f \in Followers, FollowStep(f) PROVE SignupInv'
  <2>1. posts' = posts /\ used' = used /\ call' = call
    BY <1>1 DEF FollowStep, BeginLink, Destination, Get, Verify, Unverified, LinkFails,
                historyVars
  <2>2. \A a \in Accounts : account'[a] = "prepared" => account[a] = "prepared"
    BY <1>1 DEF FollowStep, BeginLink, Destination, Get, Verify, Unverified, LinkFails,
                rowVars, TypeOK
  <2> QED
    BY <2>1, <2>2, SignupFrame
<1>2. ASSUME NEW m \in Messages,
             LinkExpires(m) \/ \E a \in Accounts : CaptureVerification(m, a)
      PROVE  SignupInv'
  <2>1. posts' = posts /\ used' = used /\ call' = call /\ account' = account
    BY <1>2 DEF LinkExpires, CaptureVerification, historyVars
  <2> QED
    BY <2>1, SignupFrame
<1>3. CASE Crash \/ \E d \in backup : Restore(d)
  <2>1. posts' = posts /\ used' = used /\ \A c \in Calls : call'[c].pc # "permitted"
    BY <1>3 DEF Crash, Restore, Nobody, IdleCall, historyVars
  <2>2. \A a \in Accounts : account'[a] = "prepared" => account[a] = "prepared"
    BY <1>3 DEF Crash, Restore, Block, Revoked, rowVars
  <2> QED
    BY <2>1, <2>2, SignupFrame
<1>4. CASE Backup
  <2>1. posts' = posts /\ used' = used /\ call' = call /\ account' = account
    BY <1>4 DEF Backup, historyVars, rowVars
  <2> QED
    BY <2>1, SignupFrame
<1> QED
  BY <1>1, <1>2, <1>3, <1>4

\* A step that prepares no account and takes no copy.
LEMMA KnownFrame ==
  ASSUME Known, used \subseteq used', backup' \subseteq backup,
         \A a \in Accounts : account'[a] # "absent" =>
            account[a] # "absent" \/ a \in used' \/ \E d \in backup : d.account[a] # "absent"
  PROVE  Known'
BY DEF Known

LEMMA KnownStep ==
  ASSUME TypeOK, Known, Next
  PROVE  Known'
<1>1. ASSUME NEW c \in Calls, SignupStep(c) PROVE Known'
  <2>1. used' = used /\ backup' = backup
    BY <1>1 DEF SignupStep, BeginSignup, Credential, AuthorizeSignup, PermitExpires, Post,
                Accepted, Unproven, Malformed, ConfirmSignup, MarkSignupUnknown, historyVars
  <2>2. account' = account \/ \E a \in Accounts, s \in AccountStates :
           account[a] # "absent" /\ account' = [account EXCEPT ![a] = s]
    <3>1. CASE AuthorizeSignup(c)
      <4>1. call[c].account \in Accounts
        BY <3>1, Busy DEF AuthorizeSignup
      <4> QED
        BY <3>1, <4>1 DEF AuthorizeSignup, Dispatchable, AccountStates
    <3>2. CASE ConfirmSignup(c) \/ MarkSignupUnknown(c)
      <4>1. call[c].account \in Accounts
        BY <3>2, Busy DEF ConfirmSignup, MarkSignupUnknown
      <4> QED
        BY <3>2, <4>1 DEF ConfirmSignup, MarkSignupUnknown, Finishable, FinishSignup,
                          SignedUp, AccountStates
    <3>3. CASE ~AuthorizeSignup(c) /\ ~ConfirmSignup(c) /\ ~MarkSignupUnknown(c)
      BY <1>1, <3>3 DEF SignupStep, BeginSignup, Credential, PermitExpires, Post,
                        Accepted, Unproven, Malformed, rowVars
    <3> QED
      BY <3>1, <3>2, <3>3
  <2>3. \A a \in Accounts : account'[a] # "absent" => account[a] # "absent"
    BY <2>2 DEF TypeOK
  <2> QED
    BY <2>1, <2>3, KnownFrame
<1>2. ASSUME NEW f \in Followers, FollowStep(f) PROVE Known'
  <2>1. used' = used /\ backup' = backup
    BY <1>2 DEF FollowStep, BeginLink, Destination, Get, Verify, Unverified, LinkFails,
                historyVars
  <2>2. \A a \in Accounts : account'[a] # "absent" => account[a] # "absent"
    <3>1. CASE Verify(f)
      BY <3>1 DEF Verify, LinkVerified, InContext, Pending, TypeOK
    <3>2. CASE ~Verify(f)
      BY <1>2, <3>2 DEF FollowStep, BeginLink, Destination, Get, Unverified, LinkFails, rowVars
    <3> QED
      BY <3>1, <3>2
  <2> QED
    BY <2>1, <2>2, KnownFrame
<1>3. CASE OwnerStep
  <2>1. used \subseteq used' /\ backup' = backup
    BY <1>3 DEF OwnerStep, Control, ApproveRule, RemoveRule, Prepare, Recover
  <2>2. \A a \in Accounts : account'[a] # "absent" => account[a] # "absent" \/ a \in used'
    BY <1>3 DEF OwnerStep, Control, ApproveRule, RemoveRule, Prepare, Recover, TypeOK
  <2> QED
    BY <2>1, <2>2, KnownFrame
<1>4. CASE Backup
  <2>1. used' = used /\ account' = account /\ backup' = {Database}
    BY <1>4 DEF Backup, rowVars, historyVars
  <2> QED
    BY <2>1 DEF Known, Database
<1>5. ASSUME NEW d \in backup, Restore(d) PROVE Known'
  <2>1. used' = used /\ backup' = backup
    BY <1>5 DEF Restore
  <2>2. \A a \in Accounts : account'[a] # "absent" => d.account[a] # "absent"
    BY <1>5 DEF Restore, Block, Revoked
  <2> QED
    BY <2>1, <2>2, KnownFrame
<1>6. CASE \/ \E m \in Messages :
                LinkExpires(m) \/ \E a \in Accounts : CaptureVerification(m, a)
           \/ Crash
  <2>1. used' = used /\ backup' = backup /\ account' = account
    BY <1>6 DEF LinkExpires, CaptureVerification, Crash, rowVars, historyVars
  <2> QED
    BY <2>1, KnownFrame
<1> QED
  BY <1>1, <1>2, <1>3, <1>4, <1>5, <1>6 DEF Next

\* The employer is sent at most one signup for an account.
THEOREM SignupOnce == Spec => []OneSignup
<1> DEFINE Inv == TypeOK /\ SignupInv /\ Known
<1>1. Init => Inv
  BY TypeInit, SignupInit DEF Init, Known
<1>2. Inv /\ TypeOK' /\ [Next]_accountVars => Inv'
  <2> SUFFICES ASSUME Inv, TypeOK', [Next]_accountVars PROVE SignupInv' /\ Known'
    OBVIOUS
  <2>1. CASE Next
    BY <2>1, SignupStepKeeps, OwnerKeeps, OthersKeep, KnownStep DEF Next
  <2>2. CASE UNCHANGED accountVars
    BY <2>2 DEF accountVars, rowVars, historyVars, SignupInv, Fresh, Holds, Known
  <2> QED
    BY <2>1, <2>2
<1>3. Inv => OneSignup
  BY DEF SignupInv, OneSignup
<1> QED
  BY <1>1, <1>2, <1>3, AccountsTypeCorrect, PTL DEF Spec

-----------------------------------------------------------------------------
(* What becomes of the link                                                 *)

\* What ActiveIsReal asks of an active account.
Real(a) == (a \in registered /\ (a \in gated => a \in verified)) \/ a \in attested

\* Who speaks of the employer speaks of what it did: an account it created
\* was posted, an accepted request has created its account, a mailed link is
\* of an account it keeps closed (in the tables and in a copy of them), and a
\* dispatcher that saw the success page saw the verification take effect.
RealInv ==
  /\ \A a \in Accounts : account[a] = "active" => Real(a)
  /\ gated \subseteq registered /\ \A a \in registered : posts[a] # 0
  /\ \A c \in Calls : call[c].pc = "accepted" => call[c].account \in registered
  /\ \A f \in Followers : follow[f].pc = "proven" => link[follow[f].message].account \in verified
  /\ \A m \in Messages : link[m] # NoLink => link[m].account \in gated
  /\ \A d \in backup, m \in Messages : d.link[m] # NoLink => d.link[m].account \in gated

AtWork(f) == follow[f].pc # "idle"
AccountOf(f) == link[follow[f].message].account

\* A dispatcher works on a link in flight, and no other one on that account.
DispatchInv ==
  /\ \A f \in Followers : AtWork(f) => link[follow[f].message].state = "in_flight"
  /\ \A f, g \in Followers : AtWork(f) /\ AtWork(g) /\ AccountOf(f) = AccountOf(g) => f = g

\* The accounts that wait for a verification, or may come to.
Waiting(a) == account[a] \in {"prepared", "signup_in_flight"} \cup Pending \/ a \notin used

\* While an account waits, the database still knows of each link it was
\* opened with and that its outcome is uncertain; a dispatcher at work knows
\* it is the one.
OpenedInv ==
  /\ OneLinkOpened
  /\ \A m \in Messages, a \in Accounts :
       <<m, a>> \in opened =>
         /\ a \in used
         /\ Waiting(a) => link[m].account = a /\ link[m].state \in Unresolved
  /\ \A f \in Followers, n \in Messages :
       AtWork(f) /\ <<n, AccountOf(f)>> \in opened => n = follow[f].message

\* No request was late while activity is permitted, and the one a dispatcher
\* is about to send is the first since.
LateInv ==
  /\ StopCutsRedirects
  /\ Permitted => \A m \in Messages : late[m] = 0
  /\ \A f \in Followers : follow[f].pc = "get" => late[follow[f].message] = 0

LinkInv == DispatchInv /\ OpenedInv /\ LateInv

\* A step that creates no account, uses none unproven and mails no new link.
LEMMA RealFrame ==
  ASSUME RealInv, UNCHANGED <<registered, gated, posts>>,
         verified \subseteq verified', attested \subseteq attested',
         \A a \in Accounts : account'[a] = "active" => account[a] = "active" \/ Real(a)',
         \A c \in Calls : call'[c].pc = "accepted" => call'[c].account \in registered,
         \A f \in Followers :
           follow'[f].pc = "proven" => link'[follow'[f].message].account \in verified',
         \A m \in Messages : link'[m] # NoLink => link'[m].account \in gated,
         \A d \in backup', m \in Messages : d.link[m] # NoLink => d.link[m].account \in gated
  PROVE  RealInv'
BY DEF RealInv, Real

LEMMA RealSignup ==
  ASSUME TypeOK, SignupInv, RealInv, NEW c \in Calls, SignupStep(c)
  PROVE  RealInv'
<1>1. UNCHANGED <<link, follow, verified, attested, backup>>
  BY DEF SignupStep, BeginSignup, Credential, AuthorizeSignup, PermitExpires, Post, Accepted,
         Unproven, Malformed, ConfirmSignup, MarkSignupUnknown, siteVars, historyVars, rowVars
<1>2. \A pc \in {"keyed", "permitted", "unproven", "posted", "accepted"} :
        call[c].pc # "idle" /\ CallAt(c, pc) =>
          /\ call'[c].pc = pc /\ call'[c].account = call[c].account
          /\ \A d \in Calls : d # c => call'[d] = call[d]
  BY Busy DEF CallAt, TypeOK, CallRecords
<1>3. Return(c) => call'[c].pc = "idle" /\ \A d \in Calls : d # c => call'[d] = call[d]
  BY DEF Return, TypeOK, IdleCall
<1>4. CASE \/ \E a \in Accounts : BeginSignup(c, a)
           \/ Credential(c) \/ PermitExpires(c) \/ Unproven(c) \/ Malformed(c)
           \/ MarkSignupUnknown(c)
  <2>1. UNCHANGED <<registered, gated, posts>>
    BY <1>4 DEF BeginSignup, Credential, PermitExpires, Unproven, Malformed,
                MarkSignupUnknown, siteVars, historyVars
  <2>2. call'[c].pc # "accepted" /\ \A d \in Calls : d # c => call'[d] = call[d]
    <3>1. CASE \E a \in Accounts : BeginSignup(c, a)
      BY <3>1 DEF BeginSignup, TypeOK
    <3>2. CASE \/ Credential(c) \/ PermitExpires(c) \/ Unproven(c) \/ Malformed(c)
               \/ MarkSignupUnknown(c)
      <4>1. \/ call[c].pc # "idle" /\ (CallAt(c, "keyed") \/ CallAt(c, "unproven"))
            \/ Return(c)
        BY <3>2 DEF Credential, PermitExpires, Unproven, Malformed, MarkSignupUnknown
      <4> QED
        BY <1>2, <1>3, <4>1
    <3> QED
      BY <1>4, <3>1, <3>2
  <2>3. \A a \in Accounts : account'[a] = "active" => account[a] = "active"
    BY <1>4 DEF BeginSignup, Credential, PermitExpires, Unproven, Malformed,
                MarkSignupUnknown, FinishSignup, rowVars, TypeOK
  <2> QED
    BY <1>1, <2>1, <2>2, <2>3, RealFrame DEF RealInv
<1>5. CASE AuthorizeSignup(c)
  <2>1. UNCHANGED <<registered, gated, posts>>
    BY <1>5 DEF AuthorizeSignup, siteVars, historyVars
  <2>2. call'[c].pc # "accepted" /\ \A d \in Calls : d # c => call'[d] = call[d]
    <3>1. call[c].pc # "idle" /\ (CallAt(c, "permitted") \/ CallAt(c, "unproven"))
      BY <1>5 DEF AuthorizeSignup
    <3> QED
      BY <1>2, <3>1
  <2>3. \A a \in Accounts : account'[a] = "active" => account[a] = "active"
    BY <1>5 DEF AuthorizeSignup, TypeOK
  <2> QED
    BY <1>1, <2>1, <2>2, <2>3, RealFrame DEF RealInv
<1>6. CASE Accepted(c)
  <2>1. UNCHANGED <<registered, gated, posts, account>>
    BY <1>6 DEF Accepted, siteVars, historyVars, rowVars
  <2>2. /\ call[c].pc # "idle" /\ CallAt(c, "accepted") /\ call[c].account \in registered
    BY <1>6 DEF Accepted
  <2>3. \A d \in Calls : call'[d].pc = "accepted" => call'[d].account \in registered
    BY <1>2, <2>2 DEF RealInv
  <2> QED
    BY <1>1, <2>1, <2>3, RealFrame DEF RealInv
<1>7. CASE ConfirmSignup(c)
  <2>1. UNCHANGED <<registered, gated, posts>>
    BY <1>7 DEF ConfirmSignup, siteVars
  <2>2. call'[c].pc # "accepted" /\ \A d \in Calls : d # c => call'[d] = call[d]
    <3>1. call[c].pc # "idle" /\ (Return(c) \/ CallAt(c, "unproven"))
      BY <1>7 DEF ConfirmSignup
    <3> QED
      BY <1>2, <1>3, <3>1
  <2>3. call[c].account \in registered
    BY <1>7 DEF ConfirmSignup, RealInv
  <2>4. \A a \in Accounts : account'[a] = "active" => account[a] = "active" \/ Real(a)
    BY <1>7, <2>3 DEF ConfirmSignup, FinishSignup, SignedUp, TypeOK, Real
  <2>5. \A a \in Accounts : Real(a) => Real(a)'
    BY <1>1, <2>1 DEF Real
  <2> QED
    BY <1>1, <2>1, <2>2, <2>4, <2>5, RealFrame DEF RealInv
<1>8. CASE Post(c)
  <2> DEFINE a == call[c].account
  <2>1. call[c] \in CallRecords /\ a \in Accounts /\ Holds(c, a)
    BY <1>8, Busy DEF Post, Holds
  <2>2. posts[a] = 0
    BY <2>1 DEF SignupInv
  <2>3. a \notin registered
    BY <2>2 DEF RealInv
  <2>4. UNCHANGED account
    BY <1>8 DEF Post, rowVars
  <2>5. \/ registered' = registered /\ gated' = gated
        \/ registered' = registered \cup {a} /\ gated' \in {gated, gated \cup {a}}
    BY <1>8 DEF Post
  <2>6. gated' \subseteq registered'
    BY <2>5 DEF RealInv
  <2>7. \A b \in registered' : posts'[b] # 0
    BY <1>8, <2>1, <2>2, <2>5 DEF Post, TypeOK, RealInv
  <2>8. \A b \in Accounts : Real(b) => Real(b)'
    BY <1>1, <2>3, <2>5 DEF Real
  <2>9. call'[c].pc # "accepted" /\ \A d \in Calls : d # c => call'[d] = call[d]
    BY <1>2, <1>8 DEF Post
  <2> HIDE DEF a
  <2> QED
    BY <1>1, <2>4, <2>5, <2>6, <2>7, <2>8, <2>9 DEF RealInv
<1> QED
  BY <1>4, <1>5, <1>6, <1>7, <1>8 DEF SignupStep

\* What a step of a dispatcher does to its link and to its own record.
LinkBecomes(m, s) ==
  /\ link'[m].state = s /\ link'[m].account = link[m].account /\ link'[m] # NoLink
  /\ \A n \in Messages : n # m => link'[n] = link[n]
OthersFollow(f) == \A g \in Followers : g # f => follow'[g] = follow[g]
StaysWith(f, pc) == follow'[f].pc = pc /\ follow'[f].message = follow[f].message

LEMMA LinkWrites ==
  ASSUME TypeOK, NEW m \in Messages, link[m] # NoLink, NEW s \in LinkStates,
         link' = [link EXCEPT ![m].state = s]
  PROVE  LinkBecomes(m, s)
<1>1. link[m] \in LinkRows
  BY DEF TypeOK
<1>2. link' = [link EXCEPT ![m] = [link[m] EXCEPT !.state = s]]
  OBVIOUS
<1>3. [link[m] EXCEPT !.state = s] \in LinkRows
  BY <1>1, LinkUpdates
<1>4. link'[m] = [link[m] EXCEPT !.state = s] /\ \A n \in Messages : n # m => link'[n] = link[n]
  BY <1>2 DEF TypeOK
<1>5. link'[m] # NoLink
  BY <1>3, <1>4, RowIsNoStub
<1> QED
  BY <1>1, <1>4, <1>5 DEF LinkBecomes, LinkRows

LEMMA BeginLinkFacts ==
  ASSUME TypeOK, NEW f \in Followers, NEW m \in Messages, BeginLink(f, m)
  PROVE  /\ link[m].state = "pending" /\ link[m] # NoLink /\ link[m].account \in Accounts
         /\ account[link[m].account] \in Pending
         /\ LinkBecomes(m, "in_flight")
         /\ follow'[f].pc = "hop" /\ follow'[f].message = m /\ OthersFollow(f)
<1>1. link[m].state = "pending" /\ account[link[m].account] \in Pending
  BY DEF BeginLink, InContext
<1>2. link[m] \in LinkRows
  BY <1>1, Busy
<1>3. link[m] # NoLink /\ link[m].account \in Accounts
  BY <1>2, RowIsNoStub DEF LinkRows
<1>4. LinkBecomes(m, "in_flight")
  BY <1>3, LinkWrites DEF BeginLink, LinkStates
<1>5. follow'[f].pc = "hop" /\ follow'[f].message = m /\ OthersFollow(f)
  BY DEF BeginLink, TypeOK, OthersFollow, IdleFollow
<1> QED
  BY <1>1, <1>3, <1>4, <1>5

\* A dispatcher at work that asks for its destination, requests it or sees
\* that it is not verified leaves the tables alone.
LEMMA HopFacts ==
  ASSUME TypeOK, NEW f \in Followers, Destination(f) \/ Get(f) \/ Unverified(f)
  PROVE  /\ AtWork(f) /\ link' = link /\ OthersFollow(f)
         /\ link[follow[f].message] \in LinkRows /\ follow[f].message \in Messages
         /\ Destination(f) => \/ StaysWith(f, "get") /\ Permitted
                              \/ StaysWith(f, "failed")
         /\ Get(f) => \/ StaysWith(f, "hop") \/ StaysWith(f, "failed")
                      \/ StaysWith(f, "proven") /\ AccountOf(f) \in verified'
         /\ Unverified(f) => StaysWith(f, "failed")
<1>1. follow[f].pc # "idle"
  BY DEF Destination, Get, Unverified
<1>2. /\ follow[f] \in FollowRecords /\ link[follow[f].message] \in LinkRows
      /\ follow[f].message \in Messages
  BY <1>1, Busy, FollowUpdates
<1>3. link' = link
  BY DEF Destination, Get, Unverified, rowVars
<1>4. OthersFollow(f)
  BY DEF Destination, Get, Unverified, OthersFollow, TypeOK
<1>5. Destination(f) => \/ StaysWith(f, "get") /\ Permitted
                        \/ StaysWith(f, "failed")
  <2> DEFINE v == rules[EmployerOf[link[follow[f].message].account]][follow[f].path]
  <2>1. Destination(f) => \/ follow' = [follow EXCEPT ![f].pc = "get", ![f].rule = v] /\ Permitted
                          \/ follow' = [follow EXCEPT ![f].pc = "failed"]
    BY DEF Destination, InContext
  <2> HIDE DEF v
  <2>2. follow' = [follow EXCEPT ![f].pc = "get", ![f].rule = v] => StaysWith(f, "get")
    BY <1>2 DEF StaysWith, TypeOK, FollowRecords
  <2>3. follow' = [follow EXCEPT ![f].pc = "failed"] => StaysWith(f, "failed")
    BY <1>2 DEF StaysWith, TypeOK, FollowRecords
  <2> QED
    BY <2>1, <2>2, <2>3
<1>6. Get(f) => \/ StaysWith(f, "hop") \/ StaysWith(f, "failed")
                \/ StaysWith(f, "proven") /\ AccountOf(f) \in verified'
  <2>1. Get(f) => \/ \E p \in Paths : follow' = [follow EXCEPT ![f].pc = "hop", ![f].path = p,
                                                               ![f].hops = @ + 1]
                  \/ follow' = [follow EXCEPT ![f].pc = "failed"]
                  \/ follow' = [follow EXCEPT ![f].pc = "proven"] /\ AccountOf(f) \in verified'
    BY DEF Get, AccountOf
  <2>2. \A p \in Paths : follow' = [follow EXCEPT ![f].pc = "hop", ![f].path = p,
                                                  ![f].hops = @ + 1] => StaysWith(f, "hop")
    BY <1>2 DEF StaysWith, TypeOK, FollowRecords
  <2>3. \A pc \in {"failed", "proven"} :
          follow' = [follow EXCEPT ![f].pc = pc] => StaysWith(f, pc)
    BY <1>2 DEF StaysWith, TypeOK, FollowRecords
  <2> QED
    BY <2>1, <2>2, <2>3
<1>7. Unverified(f) => StaysWith(f, "failed")
  BY <1>2 DEF Unverified, StaysWith, TypeOK, FollowRecords
<1> QED
  BY <1>1, <1>2, <1>3, <1>4, <1>5, <1>6, <1>7 DEF AtWork

\* A dispatcher that is done, or has failed, writes its link's state and rests.
LEMMA RestFacts ==
  ASSUME TypeOK, NEW f \in Followers, Verify(f) \/ LinkFails(f)
  PROVE  /\ AtWork(f) /\ follow'[f].pc = "idle" /\ OthersFollow(f)
         /\ link[follow[f].message] \in LinkRows /\ follow[f].message \in Messages
         /\ Verify(f) => LinkBecomes(follow[f].message, "verified")
         /\ LinkFails(f) =>
              \E s \in LinkStates :
                /\ LinkBecomes(follow[f].message, s)
                /\ link[follow[f].message].state \in Unresolved => s \in Unresolved
<1>1. follow[f].pc # "idle"
  BY DEF Verify, LinkFails
<1>2. link[follow[f].message] \in LinkRows /\ follow[f].message \in Messages
  BY <1>1, Busy, FollowUpdates
<1>3. follow'[f].pc = "idle" /\ OthersFollow(f)
  BY DEF Verify, LinkFails, OthersFollow, TypeOK, IdleFollow
<1>4. link[follow[f].message] # NoLink
  BY <1>2, RowIsNoStub
<1>5. Verify(f) => LinkBecomes(follow[f].message, "verified")
  BY <1>2, <1>4, LinkWrites DEF Verify, LinkStates
<1>6. ASSUME LinkFails(f)
      PROVE  \E s \in LinkStates :
                /\ LinkBecomes(follow[f].message, s)
                /\ link[follow[f].message].state \in Unresolved => s \in Unresolved
  <2> DEFINE old == link[follow[f].message].state
             s == IF old = "in_flight" THEN "unknown" ELSE old
  <2>1. s \in LinkStates
    BY <1>2 DEF LinkRows, LinkStates
  <2>2. link' = [link EXCEPT ![follow[f].message].state = s]
    BY <1>6 DEF LinkFails
  <2>3. LinkBecomes(follow[f].message, s)
    <3> HIDE DEF s
    <3> QED
      BY <1>2, <1>4, <2>1, <2>2, LinkWrites
  <2>4. old \in Unresolved => s \in Unresolved
    BY DEF Unresolved
  <2> QED
    BY <2>1, <2>3, <2>4
<1> QED
  BY <1>1, <1>2, <1>3, <1>5, <1>6 DEF AtWork

LEMMA RealFollow ==
  ASSUME TypeOK, RealInv, NEW f \in Followers, FollowStep(f)
  PROVE  RealInv'
<1>1. UNCHANGED <<registered, gated, posts, call, attested, backup>> /\ verified \subseteq verified'
  BY DEF FollowStep, BeginLink, Destination, Get, Verify, Unverified, LinkFails,
         siteVars, historyVars
<1>2. ASSUME NEW g \in Followers, g # f, OthersFollow(f), follow[g].pc = "proven",
             \A m \in Messages : link[m] # NoLink => link'[m].account = link[m].account
      PROVE  link'[follow'[g].message].account \in verified'
  <2>1. follow[g] # IdleFollow
    BY <1>2 DEF IdleFollow
  <2>2. link[follow[g].message] # NoLink /\ follow[g].message \in Messages
    BY <1>2, <2>1, Busy, FollowUpdates DEF TypeOK
  <2> QED
    BY <1>1, <1>2, <2>2 DEF OthersFollow, RealInv
<1>3. ASSUME NEW m \in Messages, BeginLink(f, m) PROVE RealInv'
  <2>1. /\ LinkBecomes(m, "in_flight") /\ link[m] # NoLink
        /\ follow'[f].pc # "proven" /\ OthersFollow(f)
    BY <1>3, BeginLinkFacts
  <2>2. \A n \in Messages : link[n] # NoLink => link'[n].account = link[n].account
    BY <2>1 DEF LinkBecomes
  <2>3. \A n \in Messages : link'[n] # NoLink => link'[n].account \in gated
    BY <2>1 DEF LinkBecomes, RealInv
  <2>4. \A g \in Followers :
          follow'[g].pc = "proven" => link'[follow'[g].message].account \in verified'
    BY <1>2, <2>1, <2>2 DEF OthersFollow
  <2>5. account' = account
    BY <1>3 DEF BeginLink
  <2> QED
    BY <1>1, <2>3, <2>4, <2>5, RealFrame DEF RealInv
<1>4. CASE Destination(f) \/ Get(f) \/ Unverified(f)
  <2>1. OthersFollow(f) /\ link' = link /\ account' = account
    BY <1>4, HopFacts DEF Destination, Get, Unverified, rowVars
  <2>2. /\ follow'[f].pc = "proven" =>
             follow'[f].message = follow[f].message /\ AccountOf(f) \in verified'
    BY <1>4, HopFacts DEF StaysWith
  <2>3. \A g \in Followers :
          follow'[g].pc = "proven" => link'[follow'[g].message].account \in verified'
    BY <1>2, <2>1, <2>2 DEF OthersFollow, AccountOf
  <2> QED
    BY <1>1, <2>1, <2>3, RealFrame DEF RealInv
<1>5. CASE Verify(f) \/ LinkFails(f)
  <2> DEFINE m == follow[f].message
  <2>1. /\ follow'[f].pc = "idle" /\ OthersFollow(f) /\ m \in Messages /\ link[m] \in LinkRows
        /\ \E s \in LinkStates : LinkBecomes(m, s)
    BY <1>5, RestFacts DEF LinkStates
  <2>2. link[m] # NoLink
    BY <2>1, RowIsNoStub
  <2> HIDE DEF m
  <2>3. \A n \in Messages : link[n] # NoLink => link'[n].account = link[n].account
    BY <2>1 DEF LinkBecomes
  <2>4. \A n \in Messages : link'[n] # NoLink => link'[n].account \in gated
    BY <2>1, <2>2 DEF LinkBecomes, RealInv
  <2>5. \A g \in Followers :
          follow'[g].pc = "proven" => link'[follow'[g].message].account \in verified'
    BY <1>2, <2>1, <2>3 DEF OthersFollow
  <2>6. \A a \in Accounts : account'[a] = "active" => account[a] = "active" \/ Real(a)'
    <3>1. CASE Verify(f)
      <4>1. account' = [account EXCEPT ![link[m].account] = "active"] /\ UNCHANGED siteVars
        BY <3>1 DEF Verify, m
      <4>2. link[m].account \in verified /\ link[m].account \in gated
        BY <2>1, <2>2, <3>1 DEF Verify, RealInv, m
      <4>3. link[m].account \in registered
        BY <4>2 DEF RealInv
      <4> QED
        BY <4>1, <4>2, <4>3 DEF TypeOK, Real, siteVars
    <3>2. CASE LinkFails(f)
      BY <3>2 DEF LinkFails
    <3> QED
      BY <1>5, <3>1, <3>2
  <2> QED
    BY <1>1, <2>4, <2>5, <2>6, RealFrame DEF RealInv
<1> QED
  BY <1>3, <1>4, <1>5 DEF FollowStep

LEMMA RealElse ==
  ASSUME TypeOK, RealInv,
         \/ OwnerStep
         \/ \E m \in Messages : LinkExpires(m) \/ \E a \in Accounts : CaptureVerification(m, a)
         \/ Crash \/ Backup \/ \E d \in backup : Restore(d)
  PROVE  RealInv'
<1>1. UNCHANGED <<registered, gated, posts, verified>> /\ attested \subseteq attested'
  BY DEF OwnerStep, Control, ApproveRule, RemoveRule, Prepare, Recover, LinkExpires,
         CaptureVerification, Crash, Backup, Restore, siteVars, historyVars
<1>2. CASE OwnerStep
  <2>1. UNCHANGED <<link, call, follow, backup>>
    BY <1>2 DEF OwnerStep, Control, ApproveRule, RemoveRule, Prepare, Recover
  <2>2. \A a \in Accounts : account'[a] = "active" => account[a] = "active" \/ a \in attested'
    BY <1>2 DEF OwnerStep, Control, ApproveRule, RemoveRule, Prepare, Recover, TypeOK
  <2> QED
    BY <1>1, <2>1, <2>2, RealFrame DEF RealInv, Real
<1>3. ASSUME NEW m \in Messages,
             LinkExpires(m) \/ \E a \in Accounts : CaptureVerification(m, a)
      PROVE  RealInv'
  <2>1. UNCHANGED <<account, call, follow, backup>>
    BY <1>3 DEF LinkExpires, CaptureVerification
  <2>2. /\ \A n \in Messages : link[n] # NoLink => link'[n].account = link[n].account
        /\ \A n \in Messages : link'[n] # NoLink => link'[n].account \in gated
    <3>1. CASE LinkExpires(m)
      <4>1. link[m] \in LinkRows
        BY <3>1, Busy DEF LinkExpires
      <4>2. link' = [link EXCEPT ![m] = [link[m] EXCEPT !.expired = TRUE]] /\ link[m] # NoLink
        BY <3>1, <4>1, RowIsNoStub DEF LinkExpires
      <4>3. [link[m] EXCEPT !.expired = TRUE].account = link[m].account
        BY <4>1 DEF LinkRows
      <4> QED
        BY <4>2, <4>3 DEF TypeOK, RealInv
    <3>2. ASSUME NEW a \in Accounts, CaptureVerification(m, a)
          PROVE  /\ \A n \in Messages : link[n] # NoLink => link'[n].account = link[n].account
                 /\ \A n \in Messages : link'[n] # NoLink => link'[n].account \in gated
      <4>1. link[m] = NoLink
        <5>1. \A r \in LinkRows : r.state # "absent"
          BY DEF LinkRows, LinkStates
        <5> QED
          BY <3>2, <5>1 DEF CaptureVerification, TypeOK
      <4>2. link'[m].account = a /\ a \in gated /\ \A n \in Messages : n # m => link'[n] = link[n]
        BY <3>2 DEF CaptureVerification, TypeOK
      <4> QED
        BY <4>1, <4>2 DEF RealInv
    <3> QED
      BY <1>3, <3>1, <3>2
  <2>3. \A g \in Followers :
          follow[g].pc = "proven" => link'[follow[g].message].account \in verified
    <3>1. ASSUME NEW g \in Followers, follow[g].pc = "proven"
          PROVE  link'[follow[g].message].account \in verified
      <4>1. follow[g] # IdleFollow
        BY <3>1 DEF IdleFollow
      <4>2. link[follow[g].message] # NoLink /\ follow[g].message \in Messages
        BY <3>1, <4>1, Busy, FollowUpdates DEF TypeOK
      <4> QED
        BY <2>2, <3>1, <4>2 DEF RealInv
    <3> QED
      BY <3>1
  <2> QED
    BY <1>1, <2>1, <2>2, <2>3, RealFrame DEF RealInv
<1>4. CASE Crash
  <2>1. UNCHANGED <<account, link, backup>> /\ Nobody
    BY <1>4 DEF Crash, rowVars
  <2>2. /\ \A c \in Calls : call'[c].pc = "idle"
        /\ \A f \in Followers : follow'[f].pc = "idle"
    BY <2>1 DEF Nobody, IdleCall, IdleFollow
  <2> QED
    BY <1>1, <2>1, <2>2, RealFrame DEF RealInv
<1>5. CASE Backup
  <2>1. UNCHANGED <<account, link, call, follow>> /\ backup' = {Database}
    BY <1>5 DEF Backup, rowVars
  <2>2. \A d \in backup', m \in Messages : d.link[m] # NoLink => d.link[m].account \in gated
    BY <2>1 DEF Database, RealInv
  <2> QED
    BY <1>1, <2>1, <2>2, RealFrame DEF RealInv
<1>6. ASSUME NEW d \in backup, Restore(d) PROVE RealInv'
  <2>1. backup' = backup /\ Nobody /\ Block(d)
    BY <1>6 DEF Restore
  <2>2. /\ \A c \in Calls : call'[c].pc = "idle"
        /\ \A f \in Followers : follow'[f].pc = "idle"
    BY <2>1 DEF Nobody, IdleCall, IdleFollow
  <2>3. \A a \in Accounts : account'[a] # "active"
    BY <2>1 DEF Block, Revoked
  <2>4. \A m \in Messages : link'[m] # NoLink => link'[m].account \in gated
    <3> SUFFICES ASSUME NEW m \in Messages, link'[m] # NoLink
                 PROVE  link'[m].account \in gated
      OBVIOUS
    <3>1. d.link[m] \in LinkRows \cup {NoLink}
      BY DEF TypeOK, Databases
    <3>2. \/ link'[m] = d.link[m]
          \/ /\ d.link[m].state \in {"pending", "in_flight"}
             /\ link'[m] = [d.link[m] EXCEPT !.state = "unknown"]
      BY <2>1 DEF Block
    <3>3. d.link[m] # NoLink /\ link'[m].account = d.link[m].account
      <4>1. NoLink.state = "absent"
        BY DEF NoLink
      <4> QED
        BY <3>1, <3>2, <4>1 DEF LinkRows
    <3> QED
      BY <3>3 DEF RealInv
  <2> QED
    BY <1>1, <2>1, <2>2, <2>3, <2>4, RealFrame DEF RealInv
<1> QED
  BY <1>2, <1>3, <1>4, <1>5, <1>6

\* What a dispatcher works on, and the accounts that wait.
LEMMA LinkFrame ==
  ASSUME TypeOK, LinkInv, UNCHANGED <<follow, opened>>, used \subseteq used',
         \A m \in Messages : link[m] # NoLink =>
           link'[m].account = link[m].account /\ link'[m].state = link[m].state,
         \A a \in Accounts : Waiting(a)' => Waiting(a),
         Permitted' => \A m \in Messages : late'[m] = 0,
         \A m \in Messages : late'[m] = late[m] \/ late'[m] = 0
  PROVE  LinkInv'
<1>1. NoLink.state = "absent" /\ IdleFollow.pc = "idle"
  BY DEF NoLink, IdleFollow
<1>2. \A f \in Followers : AtWork(f) =>
        follow[f].message \in Messages /\ link[follow[f].message] # NoLink
  BY <1>1, Busy, FollowUpdates, RowIsNoStub DEF AtWork
<1>3. \A f \in Followers : AtWork(f)' <=> AtWork(f)
  BY DEF AtWork
<1>4. \A f \in Followers : AtWork(f) => AccountOf(f)' = AccountOf(f)
  BY <1>2 DEF AccountOf
<1>5. DispatchInv'
  BY <1>2, <1>3, <1>4 DEF LinkInv, DispatchInv
<1>6. OpenedInv'
  <2>1. ASSUME NEW m \in Messages, NEW a \in Accounts, <<m, a>> \in opened
        PROVE  a \in used' /\ (Waiting(a)' => link'[m].account = a /\ link'[m].state \in Unresolved)
    BY <1>1, <2>1 DEF LinkInv, OpenedInv, Unresolved
  <2>2. OneLinkOpened'
    BY DEF LinkInv, OpenedInv, OneLinkOpened
  <2>3. ASSUME NEW f \in Followers, NEW n \in Messages, AtWork(f)', (<<n, AccountOf(f)>> \in opened)'
        PROVE  n = follow'[f].message
    BY <1>3, <1>4, <2>3 DEF LinkInv, OpenedInv
  <2> QED
    BY <2>1, <2>2, <2>3 DEF OpenedInv
<1>7. LateInv'
  <2>1. StopCutsRedirects'
    BY DEF LinkInv, LateInv, StopCutsRedirects
  <2>2. ASSUME NEW f \in Followers, follow'[f].pc = "get"
        PROVE  late'[follow'[f].message] = 0
    <3>1. follow[f].message \in Messages
      BY <1>2, <2>2 DEF AtWork
    <3> QED
      BY <2>2, <3>1 DEF LinkInv, LateInv
  <2> QED
    BY <2>1, <2>2 DEF LateInv
<1> QED
  BY <1>5, <1>6, <1>7 DEF LinkInv

LEMMA LinkQuiet ==
  ASSUME TypeOK, LinkInv,
         \/ \E c \in Calls : SignupStep(c)
         \/ OwnerStep
         \/ \E m \in Messages : LinkExpires(m) \/ \E a \in Accounts : CaptureVerification(m, a)
         \/ Backup
  PROVE  LinkInv'
<1>1. UNCHANGED <<follow, opened>> /\ used \subseteq used'
  BY DEF SignupStep, BeginSignup, Credential, AuthorizeSignup, PermitExpires, Post, Accepted,
         Unproven, Malformed, ConfirmSignup, MarkSignupUnknown, OwnerStep, Control, ApproveRule,
         RemoveRule, Prepare, Recover, LinkExpires, CaptureVerification, Backup,
         historyVars
<1>2. CASE Control
  <2>1. UNCHANGED <<link, account, used>>
    BY <1>2 DEF Control
  <2>2. \A m \in Messages : late'[m] = IF Permitted' THEN 0 ELSE late[m]
    BY <1>2 DEF Control, Reopen
  <2>3. \A a \in Accounts : Waiting(a)' <=> Waiting(a)
    BY <2>1 DEF Waiting
  <2> HIDE DEF Permitted
  <2> QED
    BY <1>1, <2>1, <2>2, <2>3, LinkFrame
<1>3. CASE ~Control
  <2>1. UNCHANGED <<late, granted, stopped, restoreBlocked>>
    BY <1>3 DEF SignupStep, BeginSignup, Credential, AuthorizeSignup, PermitExpires, Post,
         Accepted, Unproven, Malformed, ConfirmSignup, MarkSignupUnknown, OwnerStep, ApproveRule,
         RemoveRule, Prepare, Recover, LinkExpires, CaptureVerification, Backup,
         historyVars, rowVars
  <2>2. Permitted' => \A m \in Messages : late'[m] = 0
    BY <2>1 DEF Permitted, Operational, LinkInv, LateInv
  <2>3. ASSUME NEW c \in Calls, SignupStep(c) PROVE LinkInv'
    <3>1. link' = link /\ used' = used
      BY <2>3 DEF SignupStep, BeginSignup, Credential, AuthorizeSignup, PermitExpires, Post,
         Accepted, Unproven, Malformed, ConfirmSignup, MarkSignupUnknown, historyVars, rowVars
    <3>2. \A a \in Accounts : Waiting(a)' => Waiting(a)
      <4>1. CASE AuthorizeSignup(c)
        BY <3>1, <4>1 DEF AuthorizeSignup, Dispatchable, Waiting, Pending, TypeOK
      <4>2. CASE ConfirmSignup(c) \/ MarkSignupUnknown(c)
        BY <3>1, <4>2 DEF ConfirmSignup, MarkSignupUnknown, Finishable, FinishSignup, Waiting,
                          Pending, TypeOK
      <4>3. CASE ~AuthorizeSignup(c) /\ ~ConfirmSignup(c) /\ ~MarkSignupUnknown(c)
        <5>1. account' = account
          BY <2>3, <4>3 DEF SignupStep, BeginSignup, Credential, PermitExpires, Post,
                            Accepted, Unproven, Malformed, rowVars
        <5> QED
          BY <3>1, <5>1 DEF Waiting
      <4> QED
        BY <4>1, <4>2, <4>3
    <3> QED
      BY <1>1, <2>1, <2>2, <3>1, <3>2, LinkFrame
  <2>4. CASE OwnerStep
    <3>1. link' = link
      BY <1>3, <2>4 DEF OwnerStep, ApproveRule, RemoveRule, Prepare, Recover
    <3>2. \A a \in Accounts : Waiting(a)' => Waiting(a)
      BY <1>3, <2>4 DEF OwnerStep, ApproveRule, RemoveRule, Prepare, Recover, Waiting, Pending,
                        TypeOK
    <3> QED
      BY <1>1, <2>1, <2>2, <3>1, <3>2, LinkFrame
  <2>5. ASSUME NEW m \in Messages,
               LinkExpires(m) \/ \E a \in Accounts : CaptureVerification(m, a)
        PROVE  LinkInv'
    <3>1. account' = account /\ used' = used
      BY <2>5 DEF LinkExpires, CaptureVerification, historyVars
    <3>2. \A n \in Messages : link[n] # NoLink =>
            link'[n].account = link[n].account /\ link'[n].state = link[n].state
      <4>1. CASE LinkExpires(m)
        <5>1. link[m] \in LinkRows
          BY <4>1, Busy DEF LinkExpires
        <5>2. link' = [link EXCEPT ![m] = [link[m] EXCEPT !.expired = TRUE]]
          BY <4>1 DEF LinkExpires
        <5>3. LET r == [link[m] EXCEPT !.expired = TRUE]
              IN  r.account = link[m].account /\ r.state = link[m].state
          BY <5>1 DEF LinkRows
        <5> QED
          BY <5>2, <5>3 DEF TypeOK
      <4>2. CASE \E a \in Accounts : CaptureVerification(m, a)
        <5>1. \A r \in LinkRows : r.state # "absent"
          BY DEF LinkRows, LinkStates
        <5>2. link[m] = NoLink /\ \A n \in Messages : n # m => link'[n] = link[n]
          BY <4>2, <5>1 DEF CaptureVerification, TypeOK
        <5> QED
          BY <5>2
      <4> QED
        BY <2>5, <4>1, <4>2
    <3>3. \A a \in Accounts : Waiting(a)' <=> Waiting(a)
      BY <3>1 DEF Waiting
    <3> QED
      BY <1>1, <2>1, <2>2, <3>2, <3>3, LinkFrame
  <2>6. CASE Backup
    <3>1. UNCHANGED <<account, used, link>>
      BY <2>6 DEF Backup, historyVars, rowVars
    <3>2. \A a \in Accounts : Waiting(a)' <=> Waiting(a)
      BY <3>1 DEF Waiting
    <3> QED
      BY <1>1, <2>1, <2>2, <3>1, <3>2, LinkFrame
  <2> QED
    BY <1>3, <2>3, <2>4, <2>5, <2>6
<1> QED
  BY <1>2, <1>3

\* When every process stops, nobody is at work.
LEMMA LinkOutage ==
  ASSUME TypeOK, LinkInv, Crash \/ \E d \in backup : Restore(d)
  PROVE  LinkInv'
<1>1. UNCHANGED <<opened, late, used>> /\ Nobody
  BY DEF Crash, Restore, historyVars
<1>2. \A f \in Followers : follow'[f].pc = "idle"
  BY <1>1 DEF Nobody, IdleFollow
<1>3. DispatchInv'
  BY <1>2 DEF DispatchInv, AtWork
<1>4. ASSUME NEW m \in Messages, NEW a \in Accounts, <<m, a>> \in opened
      PROVE  a \in used /\ (Waiting(a)' => link'[m].account = a /\ link'[m].state \in Unresolved)
  <2>1. a \in used
    BY <1>4 DEF LinkInv, OpenedInv
  <2>2. CASE Crash
    <3>1. UNCHANGED <<account, link>>
      BY <2>2 DEF Crash, rowVars
    <3> QED
      BY <1>1, <1>4, <3>1 DEF LinkInv, OpenedInv, Waiting
  <2>3. CASE \E d \in backup : Restore(d)
    <3>1. account'[a] \in {"absent", "closed", "locked"}
      <4>1. PICK d \in backup : Restore(d)
        BY <2>3
      <4>2. account'[a] = Revoked(d.account[a])
        BY <4>1 DEF Restore, Block
      <4> QED
        BY <4>2 DEF Revoked
    <3> QED
      BY <1>1, <2>1, <3>1 DEF Waiting, Pending
  <2> QED
    BY <2>1, <2>2, <2>3
<1>5. OpenedInv'
  BY <1>1, <1>2, <1>4 DEF LinkInv, OpenedInv, OneLinkOpened, AtWork
<1>6. Permitted' => Permitted
  BY DEF Crash, Restore, Block, Permitted, Operational, rowVars
<1>7. LateInv'
  BY <1>1, <1>2, <1>6 DEF LinkInv, LateInv, StopCutsRedirects
<1> QED
  BY <1>3, <1>5, <1>7 DEF LinkInv

\* A dispatcher takes up a link, the only one of its account that can have
\* been requested.
LEMMA LinkBegins ==
  ASSUME TypeOK, LinkInv, NEW f \in Followers, NEW m \in Messages, BeginLink(f, m)
  PROVE  LinkInv'
<1> DEFINE a == link[m].account
<1>1. /\ link[m].state = "pending" /\ link[m] # NoLink /\ a \in Accounts
      /\ account[a] \in Pending /\ LinkBecomes(m, "in_flight")
      /\ follow'[f].pc = "hop" /\ follow'[f].message = m /\ OthersFollow(f)
  BY BeginLinkFacts
<1>2. \A n \in Messages \ {m} : link[n].account = a => link[n].state \notin Unresolved
  BY DEF BeginLink
<1>3. UNCHANGED <<opened, late, used, account, granted, stopped, restoreBlocked>>
  BY DEF BeginLink, historyVars
<1>4. Permitted
  BY DEF BeginLink, InContext
<1>5. follow[f].pc = "idle"
  BY DEF BeginLink
<1> HIDE DEF a
<1>6. \A g \in Followers : AtWork(g) =>
        /\ g # f /\ follow'[g] = follow[g] /\ follow[g].message \in Messages
        /\ follow[g].message # m /\ AccountOf(g) # a
  <2> SUFFICES ASSUME NEW g \in Followers, AtWork(g)
               PROVE  /\ g # f /\ follow'[g] = follow[g] /\ follow[g].message \in Messages
                      /\ follow[g].message # m /\ AccountOf(g) # a
    OBVIOUS
  <2>1. g # f /\ follow'[g] = follow[g]
    BY <1>1, <1>5 DEF AtWork, OthersFollow
  <2>2. follow[g].message \in Messages
    BY Busy, FollowUpdates DEF AtWork
  <2>3. link[follow[g].message].state = "in_flight"
    BY DEF LinkInv, DispatchInv
  <2> QED
    BY <1>1, <1>2, <2>1, <2>2, <2>3 DEF AccountOf, Unresolved
<1>7. \A g \in Followers : g # f => (AtWork(g)' <=> AtWork(g))
  BY <1>1 DEF OthersFollow, AtWork
<1>8. \A g \in Followers : AtWork(g) => AccountOf(g)' = AccountOf(g)
  BY <1>1, <1>6 DEF LinkBecomes, AccountOf
<1>9. AccountOf(f)' = a
  BY <1>1 DEF LinkBecomes, AccountOf, a
<1>10. DispatchInv'
  <2>1. ASSUME NEW g \in Followers, AtWork(g)'
        PROVE  link'[follow'[g].message].state = "in_flight"
    BY <1>1, <1>6, <1>7, <2>1 DEF LinkBecomes, LinkInv, DispatchInv
  <2>2. ASSUME NEW g \in Followers, NEW h \in Followers, AtWork(g)', AtWork(h)',
               (AccountOf(g) = AccountOf(h))'
        PROVE  g = h
    BY <1>6, <1>7, <1>8, <1>9, <2>2 DEF LinkInv, DispatchInv
  <2> QED
    BY <2>1, <2>2 DEF DispatchInv
<1>11. OpenedInv'
  <2>1. ASSUME NEW n \in Messages, NEW b \in Accounts, <<n, b>> \in opened
        PROVE  /\ b \in used
               /\ Waiting(b)' => link'[n].account = b /\ link'[n].state \in Unresolved
    BY <1>1, <1>3, <2>1 DEF LinkInv, OpenedInv, LinkBecomes, Waiting, Unresolved
  <2>2. \A n \in Messages : <<n, a>> \in opened => n = m
    BY <1>1, <1>2 DEF LinkInv, OpenedInv, Waiting
  <2>3. ASSUME NEW g \in Followers, NEW n \in Messages, AtWork(g)',
               (<<n, AccountOf(g)>> \in opened)'
        PROVE  n = follow'[g].message
    BY <1>1, <1>3, <1>6, <1>7, <1>8, <1>9, <2>2, <2>3 DEF LinkInv, OpenedInv
  <2> QED
    BY <1>3, <2>1, <2>3 DEF LinkInv, OpenedInv, OneLinkOpened
<1>12. LateInv'
  <2>1. \A g \in Followers : follow'[g].pc = "get" => AtWork(g) /\ g # f
    BY <1>1 DEF OthersFollow, AtWork
  <2> QED
    BY <1>3, <1>4, <1>6, <2>1 DEF LinkInv, LateInv, StopCutsRedirects
<1> QED
  BY <1>10, <1>11, <1>12 DEF LinkInv

\* A dispatcher at work goes on with its link: only its request opens it, and
\* only that may be late.
LEMMA LinkHops ==
  ASSUME TypeOK, Known, RealInv, SignupInv, LinkInv, NEW f \in Followers,
         Destination(f) \/ Get(f) \/ Unverified(f)
  PROVE  LinkInv'
<1> DEFINE m == follow[f].message
           a == link[m].account
<1>1. /\ AtWork(f) /\ link' = link /\ OthersFollow(f)
      /\ link[m] \in LinkRows /\ m \in Messages
  BY HopFacts
<1>2. \/ Destination(f) /\ StaysWith(f, "get") /\ Permitted
      \/ ~Get(f) /\ StaysWith(f, "failed")
      \/ Get(f) /\ \E pc \in {"hop", "failed", "proven"} : StaysWith(f, pc)
  <2>1. Get(f) => ~Destination(f) /\ ~Unverified(f)
    BY DEF Get, Destination, Unverified
  <2> QED
    BY <2>1, HopFacts
<1>3. UNCHANGED <<account, used, granted, stopped, restoreBlocked>>
  BY DEF Destination, Get, Unverified, rowVars, historyVars
<1>4. follow'[f].message = m /\ \A g \in Followers : AtWork(g)' <=> AtWork(g)
  BY <1>1, <1>2 DEF StaysWith, OthersFollow, AtWork
<1>5. \A g \in Followers : follow'[g].message = follow[g].message
  BY <1>1, <1>4 DEF OthersFollow
<1>6. \A g \in Followers : AccountOf(g)' = AccountOf(g)
  BY <1>1, <1>5 DEF AccountOf
<1>7. DispatchInv'
  BY <1>1, <1>4, <1>5, <1>6 DEF LinkInv, DispatchInv
<1>8. a \in used /\ a \in Accounts /\ AccountOf(f) = a /\ link[m].state = "in_flight"
  <2>1. link[m] # NoLink /\ a \in Accounts
    BY <1>1, RowIsNoStub DEF LinkRows
  <2>2. a \in registered
    BY <1>1, <2>1 DEF RealInv
  <2>3. a \in used
    BY <2>1, <2>2 DEF RealInv, SignupInv, Fresh
  <2> QED
    BY <1>1, <2>1, <2>3 DEF AccountOf, LinkInv, DispatchInv
<1>9. opened' = opened \/ opened' = opened \cup {<<m, a>>}
  BY DEF Destination, Get, Unverified, historyVars
<1>10. /\ ~Get(f) => late' = late
       /\ Get(f) => late' = [late EXCEPT ![m] = IF Permitted THEN 0 ELSE late[m] + 1]
  BY DEF Destination, Get, Unverified, historyVars
<1>11. Get(f) => follow[f].pc = "get"
  BY DEF Get
<1> HIDE DEF m, a
<1>12. OpenedInv'
  <2>1. \A n \in Messages : <<n, a>> \in opened => n = m
    BY <1>1, <1>8 DEF LinkInv, OpenedInv, m
  <2>2. OneLinkOpened'
    BY <1>9, <2>1 DEF LinkInv, OpenedInv, OneLinkOpened
  <2>3. ASSUME NEW n \in Messages, NEW b \in Accounts, <<n, b>> \in opened'
        PROVE  /\ b \in used
               /\ Waiting(b)' => link'[n].account = b /\ link'[n].state \in Unresolved
    <3>1. CASE <<n, b>> \in opened
      BY <1>1, <1>3, <3>1 DEF LinkInv, OpenedInv, Waiting
    <3>2. CASE n = m /\ b = a
      BY <1>1, <1>8, <3>2 DEF Unresolved, a
    <3> QED
      BY <1>9, <2>3, <3>1, <3>2
  <2>4. ASSUME NEW g \in Followers, NEW n \in Messages, AtWork(g),
               <<n, AccountOf(g)>> \in opened'
        PROVE  n = follow[g].message
    <3>1. CASE <<n, AccountOf(g)>> \in opened
      BY <2>4, <3>1 DEF LinkInv, OpenedInv
    <3>2. CASE n = m /\ AccountOf(g) = a
      <4>1. g = f
        BY <1>1, <1>8, <2>4, <3>2 DEF LinkInv, DispatchInv
      <4> QED
        BY <3>2, <4>1 DEF m
    <3> QED
      BY <1>9, <2>4, <3>1, <3>2
  <2> QED
    BY <1>3, <1>4, <1>5, <1>6, <2>2, <2>3, <2>4 DEF OpenedInv
<1>13. LateInv'
  <2>1. Permitted' <=> Permitted
    BY <1>3 DEF Permitted, Operational
  <2>2. Get(f) => late[m] = 0
    BY <1>11 DEF LinkInv, LateInv, m
  <2>3. Get(f) => /\ late'[m] = IF Permitted THEN 0 ELSE 1
                  /\ \A n \in Messages : n # m => late'[n] = late[n]
    BY <1>1, <1>10, <2>2 DEF TypeOK
  <2>4. StopCutsRedirects' /\ (Permitted' => \A n \in Messages : late'[n] = 0)
    BY <1>10, <2>1, <2>3 DEF LinkInv, LateInv, StopCutsRedirects
  <2>5. ASSUME NEW g \in Followers, follow'[g].pc = "get"
        PROVE  late'[follow'[g].message] = 0
    <3>1. CASE g = f
      <4>1. ~Get(f) /\ Permitted
        BY <1>2, <2>5, <3>1 DEF StaysWith, Get, Destination
      <4> QED
        BY <1>1, <1>4, <1>10, <3>1, <4>1 DEF LinkInv, LateInv
    <3>2. CASE g # f
      <4>1. follow[g].pc = "get" /\ AtWork(g)
        BY <1>1, <2>5, <3>2 DEF OthersFollow, AtWork
      <4>2. follow[g].message # m
        BY <1>1, <3>2, <4>1 DEF LinkInv, DispatchInv, AccountOf, m
      <4>3. follow[g].message \in Messages
        BY <4>1, Busy, FollowUpdates DEF AtWork
      <4> QED
        BY <1>5, <1>10, <2>3, <4>1, <4>2, <4>3 DEF LinkInv, LateInv
    <3> QED
      BY <3>1, <3>2
  <2> QED
    BY <2>4, <2>5 DEF LateInv
<1> QED
  BY <1>7, <1>12, <1>13 DEF LinkInv

\* A dispatcher that rests has made its account active, or leaves its link
\* uncertain.
LEMMA LinkRests ==
  ASSUME TypeOK, Known, LinkInv, NEW f \in Followers, Verify(f) \/ LinkFails(f)
  PROVE  LinkInv'
<1> DEFINE m == follow[f].message
           a == link[m].account
<1>1. /\ AtWork(f) /\ follow'[f].pc = "idle" /\ OthersFollow(f)
      /\ link[m] \in LinkRows /\ m \in Messages
  BY RestFacts
<1>2. \E s \in LinkStates :
        /\ LinkBecomes(m, s)
        /\ LinkFails(f) /\ link[m].state \in Unresolved => s \in Unresolved
  <2>1. Verify(f) => ~LinkFails(f)
    BY DEF Verify, LinkFails
  <2> QED
    BY <2>1, RestFacts DEF LinkStates
<1>3. UNCHANGED <<opened, late, used, granted, stopped, restoreBlocked>>
  BY DEF Verify, LinkFails, historyVars
<1>4. /\ Verify(f) => account' = [account EXCEPT ![a] = "active"] /\ account[a] \in Pending
      /\ LinkFails(f) => account' = account
  BY DEF Verify, LinkVerified, InContext, LinkFails
<1>5. a \in Accounts /\ AccountOf(f) = a /\ link[m].state = "in_flight"
  BY <1>1 DEF AccountOf, LinkRows, LinkInv, DispatchInv
<1> HIDE DEF m, a
<1>6. \A g \in Followers : AtWork(g)' =>
        /\ g # f /\ AtWork(g) /\ follow'[g] = follow[g] /\ AccountOf(g) # a
        /\ follow[g].message \in Messages /\ follow[g].message # m
  <2> SUFFICES ASSUME NEW g \in Followers, AtWork(g)'
               PROVE  /\ g # f /\ AtWork(g) /\ follow'[g] = follow[g] /\ AccountOf(g) # a
                      /\ follow[g].message \in Messages /\ follow[g].message # m
    OBVIOUS
  <2>1. g # f /\ AtWork(g) /\ follow'[g] = follow[g]
    BY <1>1 DEF AtWork, OthersFollow
  <2>2. AccountOf(g) # a
    BY <1>1, <1>5, <2>1 DEF LinkInv, DispatchInv
  <2>3. follow[g].message \in Messages
    BY <2>1, Busy, FollowUpdates DEF AtWork
  <2> QED
    BY <2>1, <2>2, <2>3 DEF AccountOf, a
<1>7. \A g \in Followers : AtWork(g)' =>
        AccountOf(g)' = AccountOf(g) /\ link'[follow'[g].message] = link[follow[g].message]
  BY <1>2, <1>6 DEF LinkBecomes, AccountOf
<1>8. DispatchInv'
  BY <1>6, <1>7 DEF LinkInv, DispatchInv
<1>9. OpenedInv'
  <2>1. ASSUME NEW n \in Messages, NEW b \in Accounts, <<n, b>> \in opened
        PROVE  /\ b \in used
               /\ Waiting(b)' => link'[n].account = b /\ link'[n].state \in Unresolved
    <3>1. b \in used
      BY <2>1 DEF LinkInv, OpenedInv
    <3>2. CASE Waiting(b) /\ n # m
      BY <1>2, <2>1, <3>1, <3>2 DEF LinkInv, OpenedInv, LinkBecomes
    <3>3. CASE Waiting(b) /\ n = m
      <4>1. b = a
        BY <2>1, <3>3 DEF LinkInv, OpenedInv, a
      <4>2. CASE Verify(f)
        <5>1. account'[b] = "active"
          BY <1>4, <1>5, <4>1, <4>2 DEF TypeOK
        <5> QED
          BY <1>3, <3>1, <5>1 DEF Waiting, Pending
      <4>3. CASE LinkFails(f)
        BY <1>2, <1>5, <3>1, <3>3, <4>1, <4>3 DEF LinkBecomes, Unresolved, a
      <4> QED
        BY <4>2, <4>3
    <3>4. CASE ~Waiting(b)
      <4>1. ~Waiting(b)'
        BY <1>3, <1>4, <3>4 DEF Waiting, Pending, TypeOK
      <4> QED
        BY <3>1, <4>1
    <3> QED
      BY <3>2, <3>3, <3>4
  <2>2. ASSUME NEW g \in Followers, NEW n \in Messages, AtWork(g)',
               (<<n, AccountOf(g)>> \in opened)'
        PROVE  n = follow'[g].message
    BY <1>3, <1>6, <1>7, <2>2 DEF LinkInv, OpenedInv
  <2> QED
    BY <1>3, <2>1, <2>2 DEF LinkInv, OpenedInv, OneLinkOpened
<1>10. LateInv'
  <2>1. \A g \in Followers : follow'[g].pc = "get" => follow'[g] = follow[g]
    BY <1>6 DEF AtWork
  <2> QED
    BY <1>3, <2>1 DEF LinkInv, LateInv, StopCutsRedirects, Permitted, Operational
<1> QED
  BY <1>8, <1>9, <1>10 DEF LinkInv

-----------------------------------------------------------------------------
(* What an account and its link promise                                     *)

AccountInv == SignupInv /\ Known /\ RealInv /\ LinkInv

LEMMA AccountInit == Init => AccountInv
<1> SUFFICES ASSUME Init PROVE AccountInv
  OBVIOUS
<1>1. SignupInv /\ Known
  BY SignupInit DEF Init, Known
<1>2. RealInv
  BY DEF Init, RealInv, IdleCall, IdleFollow
<1>3. LinkInv
  BY DEF Init, LinkInv, DispatchInv, OpenedInv, OneLinkOpened, LateInv, StopCutsRedirects,
         AtWork, IdleFollow
<1> QED
  BY <1>1, <1>2, <1>3 DEF AccountInv

LEMMA AccountStep ==
  ASSUME TypeOK, AccountInv, [Next]_accountVars
  PROVE  AccountInv'
<1>1. CASE Next
  <2>1. SignupInv' /\ Known'
    BY <1>1, SignupStepKeeps, OwnerKeeps, OthersKeep, KnownStep DEF Next, AccountInv
  <2>2. RealInv'
    BY <1>1, RealSignup, RealFollow, RealElse DEF Next, AccountInv
  <2>3. LinkInv'
    <3>1. ASSUME NEW f \in Followers, FollowStep(f) PROVE LinkInv'
      BY <3>1, LinkBegins, LinkHops, LinkRests DEF FollowStep, AccountInv
    <3> QED
      BY <1>1, <3>1, LinkQuiet, LinkOutage DEF Next, AccountInv
  <2> QED
    BY <2>1, <2>2, <2>3 DEF AccountInv
<1>2. CASE UNCHANGED accountVars
  <2> USE <1>2 DEF accountVars, rowVars, siteVars, historyVars
  <2>1. SignupInv' /\ Known'
    BY DEF AccountInv, SignupInv, Fresh, Holds, Known
  <2>2. RealInv'
    BY DEF AccountInv, RealInv, Real
  <2>3. DispatchInv' /\ LateInv'
    BY DEF AccountInv, LinkInv, DispatchInv, LateInv, StopCutsRedirects, AtWork, AccountOf,
           Permitted, Operational
  <2>4. OpenedInv'
    BY DEF AccountInv, LinkInv, OpenedInv, OneLinkOpened, AtWork, AccountOf, Waiting
  <2> QED
    BY <2>1, <2>2, <2>3, <2>4 DEF AccountInv, LinkInv
<1> QED
  BY <1>1, <1>2

LEMMA AccountInvHolds == Spec => []AccountInv
<1>1. Init => AccountInv
  BY AccountInit
<1>2. TypeOK /\ AccountInv /\ [Next]_accountVars => AccountInv'
  BY AccountStep
<1> QED
  BY <1>1, <1>2, AccountsTypeCorrect, PTL DEF Spec

\* An account is used as active only when the employer created it and any
\* verification it asked for took effect, or the owner vouched for it.
THEOREM ActiveAccountsAreReal == Spec => []ActiveIsReal
<1>1. AccountInv => ActiveIsReal
  BY DEF AccountInv, RealInv, Real, ActiveIsReal
<1> QED
  BY <1>1, AccountInvHolds, PTL

\* At most one link of an account is ever requested, over crashes, restores
\* and any number of dispatchers.
THEOREM LinksOpenedOnce == Spec => []OneLinkOpened
<1>1. AccountInv => OneLinkOpened
  BY DEF AccountInv, LinkInv, OpenedInv
<1> QED
  BY <1>1, AccountInvHolds, PTL

\* Of each link at most one request leaves after activity was forbidden.
THEOREM StopsCutRedirects == Spec => []StopCutsRedirects
<1>1. AccountInv => StopCutsRedirects
  BY DEF AccountInv, LinkInv, LateInv
<1> QED
  BY <1>1, AccountInvHolds, PTL

=============================================================================
